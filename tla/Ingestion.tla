------------------------------- MODULE Ingestion -------------------------------
(***************************************************************************)
(* What happens to a conversation before it is scored: its contact is      *)
(* looked up and its turns are assembled (TranscriptAssembly), and what    *)
(* the turns hold is masked (Redaction).  None of the three depends on     *)
(* what the one before it found, so a behaviour follows one of them.       *)
(***************************************************************************)
EXTENDS Redaction, TranscriptAssembly

VARIABLE stage  \* which of the three

ingestionVars == <<vars, assemblyVars, stage>>

Stages == {"lookup", "assembly", "masking"}

IngestionTypeOK ==
  /\ stage \in Stages
  /\ TypeOK
  /\ AssemblyTypeOK

(* Once the contact is found, the directory is of no interest.             *)
IngestionInit ==
  /\ stage \in Stages
  /\ Init
  /\ AssemblyInit
  /\ stage # "lookup" => \A p \in 1..Paths : directory[p] = [id |-> NoId, contact |-> NoId]

LookingUp  == stage = "lookup" /\ LookUp /\ UNCHANGED <<stage, vars>>
Assembling == stage = "assembly" /\ Assemble /\ UNCHANGED <<stage, vars>>
Masking    == stage = "masking" /\ Next /\ UNCHANGED <<stage, assemblyVars>>

IngestionNext ==
  \/ LookingUp
  \/ Assembling
  \/ Masking

IngestionSpec == IngestionInit /\ [][IngestionNext]_ingestionVars
===============================================================================
