-------------------------- MODULE LazyContainerProofs --------------------------
(***************************************************************************)
(* Proofs about LazyContainer, for any number of requests and whichever    *)
(* ports keep their records to themselves.  The invariant says what a      *)
(* request can rely on at each stage: nobody gets past the door before the *)
(* cache is filled, an adapter is bound in the cached container only, by a *)
(* request that went on with it itself, and whoever writes holds adapters. *)
(***************************************************************************)
EXTENDS LazyContainer, TLAPS

AtDoor == {"arrive", "build_for_principal"}
Binding == {"bind_audit", "construct_audit", "bind_store", "construct_store"}
Writing == {"record", "put"}

(* The door: without a cached container nobody is past it, so no handler   *)
(* builds one; and a handler that works has the cached one.                *)
DoorFillsTheCache ==
  \A r \in Requests :
    /\ cached = Nobody => pc[r] \in AtDoor
    /\ pc[r] # "build_for_handler"
    /\ container[r] # Nobody => container[r] = cached
    /\ pc[r] \in Binding \cup Writing => container[r] = cached

(* An adapter was constructed for the cached container, by a request that  *)
(* kept it.                                                                *)
OfTheContainer(q, port) ==
  q \in Requests /\ container[q] = cached /\ held[q][port] = q

AdaptersHaveConstructors ==
  \A port \in Ports :
    /\ \A c \in Requests : bound[c][port] # Nobody => OfTheContainer(bound[c][port], port)
    /\ \A r \in Requests : held[r][port] # Nobody =>
         /\ OfTheContainer(held[r][port], port)
         /\ cached # Nobody /\ bound[cached][port] # Nobody

(* A port is looked up once, the audit sink before the store, and both     *)
(* before anything is written.                                             *)
PortsInOrder ==
  \A r \in Requests :
    /\ pc[r] \in AtDoor \cup {"handle", "bind_audit", "construct_audit"} =>
         held[r]["audit"] = Nobody
    /\ pc[r] \in AtDoor \cup {"handle"} \cup Binding => held[r]["scorecard_store"] = Nobody
    /\ pc[r] \in Writing \/ Answered(r) =>
         held[r]["audit"] # Nobody /\ held[r]["scorecard_store"] # Nobody
    /\ pc[r] \in {"bind_store", "construct_store"} => held[r]["audit"] # Nobody

(* What an answered request wrote is where it wrote it.                    *)
WrittenWhereHeld ==
  \A r \in Requests :
    /\ pc[r] = "put" \/ Answered(r) => <<"audit", held[r]["audit"], r>> \in records
    /\ Answered(r) => <<"scorecard_store", held[r]["scorecard_store"], r>> \in records
    /\ pc[r] \in Writing => kind[r] = "score"

ContainerInv ==
  /\ TypeOK
  /\ DoorFillsTheCache
  /\ AdaptersHaveConstructors
  /\ PortsInOrder
  /\ WrittenWhereHeld

-----------------------------------------------------------------------------
LEMMA PortsAre == Ports = {"audit", "scorecard_store"}
  BY DEF Ports

(* A request moves on and nothing else of the adapters changes: the frame  *)
(* of every step before the ports are bound.                               *)
LEMMA DoorStep ==
  ASSUME ContainerInv, NEW r \in Requests,
         ResolvePrincipal(r) \/ Refuse(r) \/ Handle(r)
  PROVE  ContainerInv'
  <1> USE ContainerAssumption DEF Goto
  <1>1. /\ pc[r] \in {"arrive", "handle"}
        /\ \E stage \in {"build_for_principal", "handle", "done", "failed", "bind_audit"} :
             /\ pc' = [pc EXCEPT ![r] = stage]
             /\ cached = Nobody => stage = "build_for_principal"
             /\ stage = "done" => kind[r] = "probe"
             /\ stage = "bind_audit" => container'[r] = cached
        /\ \A q \in Requests : container'[q] = container[q] \/ container'[q] = cached
        /\ container' \in [Requests -> Slots]
        /\ UNCHANGED <<kind, cached, bound, held, records>>
    BY DEF ResolvePrincipal, Refuse, Handle, AfterPrincipal, ContainerInv, TypeOK,
           DoorFillsTheCache, AtDoor, Slots
  <1>2. PICK stage \in {"build_for_principal", "handle", "done", "failed", "bind_audit"} :
             /\ pc' = [pc EXCEPT ![r] = stage]
             /\ cached = Nobody => stage = "build_for_principal"
             /\ stage = "done" => kind[r] = "probe"
             /\ stage = "bind_audit" => container'[r] = cached
    BY <1>1
  <1>3. pc \in [Requests -> Stages]
    BY DEF ContainerInv, TypeOK
  <1>4. \A q \in Requests : pc'[q] = IF q = r THEN stage ELSE pc[q]
    BY <1>2, <1>3
  <1>5. TypeOK'
    BY <1>1, <1>2, <1>3 DEF ContainerInv, TypeOK, Stages
  <1>6. DoorFillsTheCache'
    BY <1>1, <1>2, <1>4 DEF ContainerInv, DoorFillsTheCache, AtDoor, Binding, Writing
  <1>7. \A q \in Requests, port \in Ports : OfTheContainer(q, port) => OfTheContainer(q, port)'
    BY <1>1 DEF OfTheContainer
  <1>8. AdaptersHaveConstructors'
    BY <1>1, <1>7 DEF ContainerInv, AdaptersHaveConstructors, OfTheContainer
  <1>9. PortsInOrder'
    BY <1>1, <1>2, <1>4 DEF ContainerInv, PortsInOrder, AtDoor, Binding, Writing, Answered
  <1>10. WrittenWhereHeld'
    BY <1>1, <1>2, <1>4 DEF ContainerInv, WrittenWhereHeld, Writing, Answered
  <1> QED
    BY <1>5, <1>6, <1>8, <1>9, <1>10 DEF ContainerInv

(* Before the cache is filled no adapter is held or bound, so whichever    *)
(* container fills it is an empty one.                                     *)
LEMMA BuildStep ==
  ASSUME ContainerInv, NEW r \in Requests, Build(r)
  PROVE  ContainerInv'
  <1> USE ContainerAssumption DEF Goto
  <1>1. pc[r] = "build_for_principal"
    BY DEF Build, ContainerInv, DoorFillsTheCache
  <1>2. /\ cached' = IF cached = Nobody THEN r ELSE cached
        /\ UNCHANGED <<kind, container, bound, held, records>>
    BY <1>1 DEF Build, Caches
  <1>3. PICK stage \in {"handle", "done"} :
          pc' = [pc EXCEPT ![r] = stage] /\ (stage = "done" => kind[r] = "probe")
    BY <1>1 DEF Build, AfterPrincipal
  <1>4. pc \in [Requests -> Stages] /\ cached' \in Requests
    BY <1>2 DEF ContainerInv, TypeOK, Slots
  <1>5. \A q \in Requests : pc'[q] = IF q = r THEN stage ELSE pc[q]
    BY <1>3, <1>4
  <1>6. TypeOK'
    BY <1>2, <1>3, <1>4 DEF ContainerInv, TypeOK, Stages, Slots
  <1>7. cached = Nobody =>
          \A q \in Requests, port \in Ports : held[q][port] = Nobody
    BY PortsAre DEF ContainerInv, DoorFillsTheCache, PortsInOrder
  <1>8. cached = Nobody =>
          \A c \in Requests, port \in Ports : bound[c][port] = Nobody
    BY <1>7 DEF ContainerInv, AdaptersHaveConstructors, OfTheContainer
  <1>9. cached = Nobody => \A q \in Requests : container[q] = Nobody
    BY DEF ContainerInv, DoorFillsTheCache
  <1>10. DoorFillsTheCache'
    <2>1. ASSUME NEW q \in Requests
          PROVE  /\ pc'[q] # "build_for_handler"
                 /\ container'[q] # Nobody => container'[q] = cached'
                 /\ pc'[q] \in Binding \cup Writing => container'[q] = cached'
      <3>1. CASE cached = Nobody
        <4>1. pc'[q] \in AtDoor \cup {"handle", "done"}
          BY <1>3, <1>5, <3>1 DEF ContainerInv, DoorFillsTheCache
        <4> QED
          BY <1>2, <1>9, <3>1, <4>1 DEF AtDoor, Binding, Writing
      <3>2. CASE cached # Nobody
        BY <1>2, <1>3, <1>5, <3>2 DEF ContainerInv, DoorFillsTheCache, AtDoor, Binding, Writing
      <3> QED
        BY <3>1, <3>2
    <2> QED
      BY <1>4, <2>1 DEF DoorFillsTheCache
  <1>11. AdaptersHaveConstructors'
    <2>1. CASE cached = Nobody
      BY <1>2, <1>7, <1>8, <2>1 DEF AdaptersHaveConstructors
    <2>2. CASE cached # Nobody
      BY <1>2, <2>2 DEF ContainerInv, AdaptersHaveConstructors, OfTheContainer
    <2> QED
      BY <2>1, <2>2
  <1>12. PortsInOrder'
    BY <1>1, <1>2, <1>3, <1>5 DEF ContainerInv, PortsInOrder, AtDoor, Binding, Writing, Answered
  <1>13. WrittenWhereHeld'
    BY <1>1, <1>2, <1>3, <1>5 DEF ContainerInv, WrittenWhereHeld, Writing, Answered
  <1> QED
    BY <1>6, <1>10, <1>11, <1>12, <1>13 DEF ContainerInv

(* A port that is bound is taken as it is.                                 *)
LEMMA LookStep ==
  ASSUME ContainerInv, NEW r \in Requests, BindAudit(r) \/ BindStore(r)
  PROVE  ContainerInv'
  <1> USE ContainerAssumption DEF Goto
  <1>1. PICK port \in Ports, stage \in {"bind_audit", "bind_store"},
             constructing \in {"construct_audit", "construct_store"},
             next \in {"bind_store", "record", "done"} :
          /\ Look(r, port, stage, constructing, next)
          /\ port = "audit" =>
               stage = "bind_audit" /\ constructing = "construct_audit" /\ next = "bind_store"
          /\ port = "scorecard_store" =>
               /\ stage = "bind_store" /\ constructing = "construct_store"
               /\ next = AfterBinding(r)
    BY PortsAre DEF BindAudit, BindStore, AfterBinding
  <1>2. /\ pc[r] = stage
        /\ UNCHANGED <<kind, cached, container, bound, records>>
    BY <1>1 DEF Look
  <1>3. container[r] = cached /\ cached \in Requests
    BY <1>2 DEF ContainerInv, DoorFillsTheCache, TypeOK, Slots, AtDoor, Binding
  <1>4. CASE bound[cached][port] = Nobody
    <2>1. pc' = [pc EXCEPT ![r] = constructing] /\ UNCHANGED held
      BY <1>1, <1>3, <1>4 DEF Look
    <2>2. \A q \in Requests : pc'[q] = IF q = r THEN constructing ELSE pc[q]
      BY <2>1 DEF ContainerInv, TypeOK
    <2>3. TypeOK'
      BY <1>2, <2>1 DEF ContainerInv, TypeOK, Stages
    <2>4. DoorFillsTheCache'
      BY <1>2, <1>3, <2>2 DEF ContainerInv, DoorFillsTheCache, AtDoor, Binding, Writing
    <2>5. AdaptersHaveConstructors'
      BY <1>2, <2>1 DEF ContainerInv, AdaptersHaveConstructors, OfTheContainer
    <2>6. PortsInOrder'
      BY <1>1, <1>2, <2>1, <2>2, PortsAre
         DEF ContainerInv, PortsInOrder, AtDoor, Binding, Writing, Answered
    <2>7. WrittenWhereHeld'
      BY <1>2, <2>1, <2>2 DEF ContainerInv, WrittenWhereHeld, Writing, Answered
    <2> QED
      BY <2>3, <2>4, <2>5, <2>6, <2>7 DEF ContainerInv
  <1>5. CASE bound[cached][port] # Nobody
    <2>1. pc' = [pc EXCEPT ![r] = next] /\ held' = [held EXCEPT ![r][port] = bound[cached][port]]
      BY <1>1, <1>3, <1>5 DEF Look
    <2>2. \A q \in Requests : pc'[q] = IF q = r THEN next ELSE pc[q]
      BY <2>1 DEF ContainerInv, TypeOK
    <2>3. \A q \in Requests, p \in Ports :
            held'[q][p] = IF q = r /\ p = port THEN bound[cached][port] ELSE held[q][p]
      BY <2>1 DEF ContainerInv, TypeOK
    <2>4. bound[cached][port] \in Requests /\ OfTheContainer(bound[cached][port], port)
      BY <1>3, <1>5 DEF ContainerInv, AdaptersHaveConstructors, OfTheContainer
    <2>5. TypeOK'
      BY <1>2, <2>1, <2>4 DEF ContainerInv, TypeOK, Stages, Slots
    <2>6. DoorFillsTheCache'
      BY <1>2, <1>3, <2>2 DEF ContainerInv, DoorFillsTheCache, AtDoor, Binding, Writing
    <2>7. held[r][port] = Nobody
      BY <1>1, <1>2, PortsAre DEF ContainerInv, PortsInOrder, AtDoor, Binding
    <2> DEFINE Of(q, p) == q \in Requests /\ container'[q] = cached' /\ held'[q][p] = q
    <2>8. \A q \in Requests, p \in Ports : OfTheContainer(q, p) => Of(q, p)
      BY <1>2, <2>3, <2>7 DEF OfTheContainer
    <2>9. AdaptersHaveConstructors'
      <3>1. ASSUME NEW p \in Ports, NEW c \in Requests, bound'[c][p] # Nobody
            PROVE  Of(bound'[c][p], p)
        BY <1>2, <2>8, <3>1 DEF ContainerInv, AdaptersHaveConstructors, OfTheContainer
      <3>2. ASSUME NEW p \in Ports, NEW q \in Requests, held'[q][p] # Nobody
            PROVE  Of(held'[q][p], p) /\ cached' # Nobody /\ bound'[cached'][p] # Nobody
        <4>1. CASE q = r /\ p = port
          BY <1>2, <1>3, <1>5, <2>3, <2>4, <2>8, <4>1
        <4>2. CASE ~(q = r /\ p = port)
          <5>1. held'[q][p] = held[q][p]
            BY <2>3, <4>2
          <5>2. /\ OfTheContainer(held[q][p], p)
                /\ cached # Nobody /\ bound[cached][p] # Nobody
            BY <3>2, <5>1 DEF ContainerInv, AdaptersHaveConstructors
          <5>3. held[q][p] \in Requests
            BY <5>2 DEF OfTheContainer
          <5>4. Of(held[q][p], p)
            BY <2>8, <5>2, <5>3
          <5> QED
            BY <1>2, <5>1, <5>2, <5>4
        <4> QED
          BY <4>1, <4>2
      <3> QED
        BY <3>1, <3>2 DEF AdaptersHaveConstructors, OfTheContainer
    <2>10. PortsInOrder'
      <3>1. CASE port = "audit"
        <4>1. stage = "bind_audit" /\ next = "bind_store"
          BY <1>1, <3>1
        <4>2. \A q \in Requests :
                /\ held'[q]["scorecard_store"] = held[q]["scorecard_store"]
                /\ held'[q]["audit"] = IF q = r THEN bound[cached][port] ELSE held[q]["audit"]
          BY <2>3, <3>1, PortsAre
        <4> QED
          BY <1>2, <1>5, <2>2, <4>1, <4>2
             DEF ContainerInv, PortsInOrder, AtDoor, Binding, Writing, Answered
      <3>2. CASE port = "scorecard_store"
        <4>1. stage = "bind_store" /\ next \in {"record", "done"}
          BY <1>1, <3>2 DEF AfterBinding
        <4>2. \A q \in Requests :
                /\ held'[q]["audit"] = held[q]["audit"]
                /\ held'[q]["scorecard_store"] =
                     IF q = r THEN bound[cached][port] ELSE held[q]["scorecard_store"]
          BY <2>3, <3>2, PortsAre
        <4> QED
          BY <1>2, <1>5, <2>2, <4>1, <4>2
             DEF ContainerInv, PortsInOrder, AtDoor, Binding, Writing, Answered
      <3> QED
        BY <3>1, <3>2, PortsAre
    <2>11. WrittenWhereHeld'
      BY <1>1, <1>2, <2>2, <2>3, PortsAre
         DEF ContainerInv, WrittenWhereHeld, Writing, Answered, AfterBinding
    <2> QED
      BY <2>5, <2>6, <2>9, <2>10, <2>11 DEF ContainerInv
  <1> QED
    BY <1>4, <1>5
(* An adapter that is constructed replaces the bound one, and whoever      *)
(* constructed it keeps it; a constructor that raises leaves all alone.    *)
LEMMA ConstructStep ==
  ASSUME ContainerInv, NEW r \in Requests, ConstructAudit(r) \/ ConstructStore(r)
  PROVE  ContainerInv'
  <1> USE ContainerAssumption DEF Goto
  <1>1. PICK port \in Ports, constructing \in {"construct_audit", "construct_store"},
             next \in {"bind_store", "record", "done"} :
          /\ Construct(r, port, constructing, next)
          /\ port = "audit" => constructing = "construct_audit" /\ next = "bind_store"
          /\ port = "scorecard_store" =>
               constructing = "construct_store" /\ next = AfterBinding(r)
    BY PortsAre DEF ConstructAudit, ConstructStore, AfterBinding
  <1>2. /\ pc[r] = constructing
        /\ UNCHANGED <<kind, cached, container, records>>
    BY <1>1 DEF Construct
  <1>3. container[r] = cached /\ cached \in Requests
    BY <1>2 DEF ContainerInv, DoorFillsTheCache, TypeOK, Slots, AtDoor, Binding
  <1>4. CASE pc' = [pc EXCEPT ![r] = "failed"] /\ UNCHANGED <<bound, held>>
    <2>1. \A q \in Requests : pc'[q] = IF q = r THEN "failed" ELSE pc[q]
      BY <1>4 DEF ContainerInv, TypeOK
    <2>2. TypeOK'
      BY <1>2, <1>4 DEF ContainerInv, TypeOK, Stages
    <2>3. DoorFillsTheCache'
      BY <1>2, <1>3, <2>1 DEF ContainerInv, DoorFillsTheCache, AtDoor, Binding, Writing
    <2>4. AdaptersHaveConstructors'
      BY <1>2, <1>4 DEF ContainerInv, AdaptersHaveConstructors, OfTheContainer
    <2>5. PortsInOrder'
      BY <1>2, <1>4, <2>1 DEF ContainerInv, PortsInOrder, AtDoor, Binding, Writing, Answered
    <2>6. WrittenWhereHeld'
      BY <1>2, <1>4, <2>1 DEF ContainerInv, WrittenWhereHeld, Writing, Answered
    <2> QED
      BY <2>2, <2>3, <2>4, <2>5, <2>6 DEF ContainerInv
  <1>5. CASE /\ pc' = [pc EXCEPT ![r] = next]
             /\ bound' = [bound EXCEPT ![cached][port] = r]
             /\ held' = [held EXCEPT ![r][port] = r]
    <2>1. \A q \in Requests : pc'[q] = IF q = r THEN next ELSE pc[q]
      BY <1>5 DEF ContainerInv, TypeOK
    <2>2. \A q \in Requests, p \in Ports :
            held'[q][p] = IF q = r /\ p = port THEN r ELSE held[q][p]
      BY <1>5 DEF ContainerInv, TypeOK
    <2>3. \A c \in Requests, p \in Ports :
            bound'[c][p] = IF c = cached /\ p = port THEN r ELSE bound[c][p]
      BY <1>3, <1>5 DEF ContainerInv, TypeOK
    <2>4. TypeOK'
      BY <1>2, <1>3, <1>5 DEF ContainerInv, TypeOK, Stages, Slots
    <2>5. DoorFillsTheCache'
      BY <1>2, <1>3, <2>1 DEF ContainerInv, DoorFillsTheCache, AtDoor, Binding, Writing
    <2> DEFINE Of(q, p) == q \in Requests /\ container'[q] = cached' /\ held'[q][p] = q
    <2>6. \A q \in Requests, p \in Ports : OfTheContainer(q, p) => Of(q, p)
      BY <1>2, <2>2 DEF OfTheContainer
    <2>7. Of(r, port)
      BY <1>2, <1>3, <2>2
    <2>8. AdaptersHaveConstructors'
      <3>1. ASSUME NEW p \in Ports, NEW c \in Requests, bound'[c][p] # Nobody
            PROVE  Of(bound'[c][p], p)
        <4>1. CASE c = cached /\ p = port
          BY <2>3, <2>7, <4>1
        <4>2. CASE ~(c = cached /\ p = port)
          BY <2>3, <2>6, <3>1, <4>2 DEF ContainerInv, AdaptersHaveConstructors, OfTheContainer
        <4> QED
          BY <4>1, <4>2
      <3>2. ASSUME NEW p \in Ports, NEW q \in Requests, held'[q][p] # Nobody
            PROVE  Of(held'[q][p], p) /\ cached' # Nobody /\ bound'[cached'][p] # Nobody
        <4>1. CASE q = r /\ p = port
          BY <1>2, <1>3, <2>2, <2>3, <2>7, <4>1
        <4>2. CASE ~(q = r /\ p = port)
          <5>1. held'[q][p] = held[q][p]
            BY <2>2, <4>2
          <5>2. /\ OfTheContainer(held[q][p], p)
                /\ cached # Nobody /\ bound[cached][p] # Nobody
            BY <3>2, <5>1 DEF ContainerInv, AdaptersHaveConstructors
          <5>3. held[q][p] \in Requests
            BY <5>2 DEF OfTheContainer
          <5>4. Of(held[q][p], p)
            BY <2>6, <5>2, <5>3
          <5>5. bound'[cached'][p] # Nobody
            BY <1>2, <1>3, <2>3, <5>2
          <5> QED
            BY <1>2, <5>1, <5>2, <5>4, <5>5
        <4> QED
          BY <4>1, <4>2
      <3> QED
        BY <3>1, <3>2 DEF AdaptersHaveConstructors, OfTheContainer
    <2>9. PortsInOrder'
      <3>1. CASE port = "audit"
        <4>1. constructing = "construct_audit" /\ next = "bind_store"
          BY <1>1, <3>1
        <4>2. \A q \in Requests :
                /\ held'[q]["scorecard_store"] = held[q]["scorecard_store"]
                /\ held'[q]["audit"] = IF q = r THEN r ELSE held[q]["audit"]
          BY <2>2, <3>1, PortsAre
        <4> QED
          BY <1>2, <2>1, <4>1, <4>2
             DEF ContainerInv, PortsInOrder, AtDoor, Binding, Writing, Answered
      <3>2. CASE port = "scorecard_store"
        <4>1. constructing = "construct_store" /\ next \in {"record", "done"}
          BY <1>1, <3>2 DEF AfterBinding
        <4>2. \A q \in Requests :
                /\ held'[q]["audit"] = held[q]["audit"]
                /\ held'[q]["scorecard_store"] =
                     IF q = r THEN r ELSE held[q]["scorecard_store"]
          BY <2>2, <3>2, PortsAre
        <4> QED
          BY <1>2, <2>1, <4>1, <4>2
             DEF ContainerInv, PortsInOrder, AtDoor, Binding, Writing, Answered
      <3> QED
        BY <3>1, <3>2, PortsAre
    <2>10. WrittenWhereHeld'
      BY <1>1, <1>2, <2>1, <2>2, PortsAre
         DEF ContainerInv, WrittenWhereHeld, Writing, Answered, AfterBinding
    <2> QED
      BY <2>4, <2>5, <2>8, <2>9, <2>10 DEF ContainerInv
  <1> QED
    BY <1>1, <1>3, <1>4, <1>5 DEF Construct

(* A scoring request writes to an adapter that it holds.                   *)
LEMMA WriteStep ==
  ASSUME ContainerInv, NEW r \in Requests, Record(r) \/ Put(r)
  PROVE  ContainerInv'
  <1> USE ContainerAssumption DEF Goto
  <1>1. PICK port \in Ports, stage \in Writing, next \in {"put", "done"} :
          /\ pc[r] = stage
          /\ pc' = [pc EXCEPT ![r] = next]
          /\ records' = records \cup {<<port, held[r][port], r>>}
          /\ port = "audit" => stage = "record" /\ next = "put"
          /\ port = "scorecard_store" => stage = "put" /\ next = "done"
    BY PortsAre DEF Record, Put, Writing
  <1>2. UNCHANGED <<kind, cached, container, bound, held>>
    BY DEF Record, Put
  <1>3. \A q \in Requests : pc'[q] = IF q = r THEN next ELSE pc[q]
    BY <1>1 DEF ContainerInv, TypeOK
  <1>4. held[r][port] \in Requests /\ container[r] = cached /\ cached # Nobody
    BY <1>1, PortsAre DEF ContainerInv, PortsInOrder, TypeOK, Slots, Writing,
           DoorFillsTheCache, AtDoor
  <1>5. TypeOK'
    <2>1. records' \subseteq Ports \X Requests \X Requests
      BY <1>1, <1>4 DEF ContainerInv, TypeOK
    <2> QED
      BY <1>1, <1>2, <2>1 DEF ContainerInv, TypeOK, Stages
  <1>6. DoorFillsTheCache'
    BY <1>2, <1>3, <1>4 DEF ContainerInv, DoorFillsTheCache, AtDoor, Binding, Writing
  <1>7. AdaptersHaveConstructors'
    BY <1>2 DEF ContainerInv, AdaptersHaveConstructors, OfTheContainer
  <1>8. PortsInOrder'
    BY <1>1, <1>2, <1>3 DEF ContainerInv, PortsInOrder, AtDoor, Binding, Writing, Answered
  <1>9. WrittenWhereHeld'
    <2>1. ASSUME NEW q \in Requests, q # r
          PROVE  /\ pc'[q] = "put" \/ Answered(q)' => <<"audit", held'[q]["audit"], q>> \in records'
                 /\ Answered(q)' =>
                      <<"scorecard_store", held'[q]["scorecard_store"], q>> \in records'
                 /\ pc'[q] \in Writing => kind'[q] = "score"
      BY <1>1, <1>2, <1>3, <2>1 DEF ContainerInv, WrittenWhereHeld, Answered
    <2>2. kind'[r] = "score"
      BY <1>1, <1>2 DEF ContainerInv, WrittenWhereHeld
    <2>3. <<"audit", held'[r]["audit"], r>> \in records'
      BY <1>1, <1>2, PortsAre DEF ContainerInv, WrittenWhereHeld
    <2>4. next = "done" => <<"scorecard_store", held'[r]["scorecard_store"], r>> \in records'
      BY <1>1, <1>2, PortsAre
    <2> QED
      BY <1>3, <2>1, <2>2, <2>3, <2>4 DEF WrittenWhereHeld, Answered, Writing
  <1> QED
    BY <1>5, <1>6, <1>7, <1>8, <1>9 DEF ContainerInv

-----------------------------------------------------------------------------
(* The invariant holds in every state the requests of a process reach.     *)
THEOREM ContainerInvariance == Spec => []ContainerInv
  <1>1. Init => ContainerInv
    <2> SUFFICES ASSUME Init PROVE ContainerInv
      OBVIOUS
    <2>1. \A r \in Requests : pc[r] = "arrive" /\ container[r] = Nobody
      BY DEF Init
    <2>2. \A r \in Requests, p \in Ports : bound[r][p] = Nobody /\ held[r][p] = Nobody
      BY DEF Init
    <2>3. TypeOK
      BY DEF Init, TypeOK, Slots, Stages
    <2>4. DoorFillsTheCache
      BY <2>1 DEF DoorFillsTheCache, AtDoor, Binding, Writing
    <2>5. AdaptersHaveConstructors
      BY <2>2 DEF AdaptersHaveConstructors
    <2>6. PortsInOrder /\ WrittenWhereHeld
      BY <2>1, <2>2, PortsAre DEF PortsInOrder, WrittenWhereHeld, AtDoor, Writing, Answered
    <2> QED
      BY <2>3, <2>4, <2>5, <2>6 DEF ContainerInv
  <1>2. ContainerInv /\ [Next]_vars => ContainerInv'
    <2> SUFFICES ASSUME ContainerInv, [Next]_vars PROVE ContainerInv'
      OBVIOUS
    <2>1. CASE Next
      <3> PICK r \in Requests : Step(r)
        BY <2>1 DEF Next
      <3> QED
        BY DoorStep, BuildStep, LookStep, ConstructStep, WriteStep DEF Step
    <2>2. CASE UNCHANGED vars
      BY <2>2 DEF vars, ContainerInv, TypeOK, DoorFillsTheCache, AdaptersHaveConstructors,
             OfTheContainer, PortsInOrder, WrittenWhereHeld, Answered
    <2> QED
      BY <2>1, <2>2
  <1> QED
    BY <1>1, <1>2, PTL DEF Spec

(* Whoever built containers while _container's cache was empty, every      *)
(* handler works with the one that is cached.                              *)
THEOREM OneContainer == Spec => []HandlersShareOneContainer
  <1>1. ContainerInv => HandlersShareOneContainer
    BY DEF ContainerInv, DoorFillsTheCache, HandlersShareOneContainer
  <1> QED
    BY <1>1, ContainerInvariance, PTL

(* What an answered request wrote is missing for the requests that follow  *)
(* only when two requests constructed the same port of that container, in  *)
(* memory, and it holds the one that was replaced.                         *)
THEOREM OnlyRacesLoseRecords == Spec => []LostRecordsNeedARace
  <1>1. ContainerInv => LostRecordsNeedARace
    <2> SUFFICES ASSUME ContainerInv, NEW r \in Requests, NEW port \in Ports,
                        Answered(r), ~Found(port, r)
                 PROVE  /\ port \in Private
                        /\ held[r][port] # Shared(port)
                        /\ \A q \in {held[r][port], Shared(port)} :
                             container[q] = cached /\ held[q][port] = q
      BY DEF LostRecordsNeedARace
    <2>1. held[r][port] # Nobody /\ <<port, held[r][port], r>> \in records
      BY PortsAre DEF ContainerInv, PortsInOrder, WrittenWhereHeld
    <2>2. /\ OfTheContainer(held[r][port], port)
          /\ cached # Nobody /\ bound[cached][port] # Nobody
      BY <2>1 DEF ContainerInv, AdaptersHaveConstructors
    <2>3. cached \in Requests /\ Shared(port) = bound[cached][port]
      BY <2>2 DEF ContainerInv, TypeOK, Slots, Shared
    <2>4. OfTheContainer(Shared(port), port)
      BY <2>2, <2>3 DEF ContainerInv, AdaptersHaveConstructors
    <2>5. port \in Private /\ held[r][port] # Shared(port)
      BY <2>1, <2>2 DEF Found, OfTheContainer
    <2> QED
      BY <2>2, <2>4, <2>5 DEF OfTheContainer
  <1> QED
    BY <1>1, ContainerInvariance, PTL
===============================================================================
