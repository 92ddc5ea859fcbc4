-------------------------- MODULE TranscriptAssembly ---------------------------
(***************************************************************************)
(* Where a transcript comes from, before it is masked and scored.          *)
(*                                                                         *)
(* The managed source makes one turn of each alternative the recogniser    *)
(* (external) emits and looks the recogniser's words up in the turn's text *)
(* to give each its offsets.  The offline source keeps a directory of      *)
(* fixture files and reads it anew for every question: the catalogue that  *)
(* resolves a contact and the transcript are two questions, and a file     *)
(* names its contact in two places.                                        *)
(***************************************************************************)
EXTENDS Integers, SequencesExt, FiniteSetsExt

CONSTANTS
  Vocabulary,  \* the words said, each the numbers of its characters
  MaxWords,    \* bound on the words of a turn
  Channels,    \* the channel tags of a recording
  Bounds,      \* the bounds of a fixture's turn in milliseconds, Missing among them
  Paths,       \* the fixture files, in the order of their names
  Tenants,     \* the tenant of the contact each file describes
  Ids,         \* what a fixture may name as its contact; NoId is the empty string
  MaxEdits     \* bound on the edits of the directory

Missing == -1  \* a tag or bound that is not there
NoId == "no id"

Blank == 0     \* a character is a number
Unheard == -1  \* a letter of a spelling that occurs nowhere in the text

(* A recogniser parts words at blanks and lists none without a letter; a   *)
(* bound is a time of the call.                                            *)
ASSUME AssemblyAssumption ==
  /\ \A word \in Vocabulary : word \in Seq(Nat \ {Blank}) /\ word # <<>>
  /\ MaxWords \in Nat
  /\ Bounds \subseteq Nat \cup {Missing}
  /\ Paths \in Nat
  /\ MaxEdits \in Nat

VARIABLES
  recording,  \* what the recogniser made of a recording
  turns,      \* the turns assembled of it, or of a fixture
  directory,  \* the ids of each fixture file as it is now
  resolved,   \* the contact in hand: its id, the file its record is from, and who asks
  fetched,    \* the file its transcript is from
  edits       \* how often the directory was edited since the contact was resolved

assemblyVars == <<recording, turns, directory, resolved, fetched, edits>>

-----------------------------------------------------------------------------
(* The managed source.                                                     *)

(* The recogniser's transcript, with single blanks between its words, word *)
(* by word.                                                                *)
TextUpTo(words) ==
  LET first[n \in 0..Len(words)] ==
        IF n = 0 THEN <<>>
        ELSE IF n = 1 THEN words[1]
        ELSE first[n - 1] \o <<Blank>> \o words[n]
  IN  first

Text(words) == TextUpTo(words)[Len(words)]

(* Where a word of the text really begins, from 0.                         *)
PlaceOf(words, i) == Len(TextUpTo(words)[i]) - Len(words[i])

(* str.find: the first place at or after from, -1 if there is none.        *)
Find(text, token, from) ==
  LET places == {p \in from..(Len(text) - Len(token)) :
                   SubSeq(text, p + 1, p + Len(token)) = token}
  IN  IF places = {} THEN -1 ELSE Min(places)

(* A word as the recogniser lists it, and where it was found: its spelling *)
(* there, which word of the text it is, and whether a time came with it.   *)
Offset(token, heard, start) ==
  [at |-> heard.at, text |-> token,
   start |-> start, end |-> start + Len(token), timed |-> heard.timed]

(* Slip: every search begins at the start of the text.                     *)
PlacedFromTheStart(text, done, heard) ==
  LET start == Find(text, heard.token, 0)
  IN  IF start < 0 THEN done ELSE Append(done, Offset(heard.token, heard, start))

(* One listed word: looked for from where the last one found ended, skipped*)
(* if it is not there.                                                     *)
Placed(text, done, heard) ==
  LET cursor == IF done = <<>> THEN 0 ELSE Last(done).end
      start  == Find(text, heard.token, cursor)
  IN  IF start < 0 THEN done ELSE Append(done, Offset(heard.token, heard, start))

(* _words.                                                                 *)
Words(text, listed) ==
  LET done[n \in 0..Len(listed)] ==
        IF n = 0 THEN <<>> ELSE Placed(text, done[n - 1], listed[n])
  IN  done[Len(listed)]

(* No tag is channel 0.                                                    *)
RoleOf(channel) == CASE channel \in {0, Missing} -> "agent"
                     [] channel = 1 -> "customer"
                     [] OTHER -> "unknown"

(* _assemble: one turn per alternative, in the order they were emitted.    *)
Assembled(alternatives) ==
  [i \in DOMAIN alternatives |->
     [index |-> i - 1,
      role  |-> RoleOf(alternatives[i].channel),
      words |-> Words(Text(alternatives[i].said), alternatives[i].listed)]]

-----------------------------------------------------------------------------
(* The offline source.                                                     *)

(* round(), ties to the even neighbour.                                    *)
Rounded(a, b) ==
  LET half == 2 * (a % b) IN
  a \div b + IF half > b \/ (half = b /\ (a \div b) % 2 = 1) THEN 1 ELSE 0

(* _words of a fixture whose file asks for it: the turn's bounds, evenly,  *)
(* in exact arithmetic where the code has floats.                          *)
Spread(n, from, to) ==
  LET span == Max({to - from, 0}) IN
  [i \in 1..n |-> [start |-> from + Rounded(span * (i - 1), n), end |-> from + Rounded(span * i, n)]]

(* Declared words as they are; else spread ones, if the file asks for them *)
(* and the turn has both bounds and a text; else none.                     *)
FixtureWords(declared, timing, n, from, to) ==
  IF declared # <<>> THEN declared
  ELSE IF timing = "even" /\ n > 0 /\ from # Missing /\ to # Missing THEN Spread(n, from, to)
  ELSE <<>>

(* _index: a file without an id is passed over; of two, the later wins.    *)
Index(files) ==
  LET named == {p \in DOMAIN files : files[p].id # NoId}
  IN  [id \in {files[p].id : p \in named} |-> Max({p \in named : files[p].id = id})]

(* The id of a file's contact block, or the document's own.                *)
ContactId(file) == IF file.contact # NoId THEN file.contact ELSE file.id

(* Slip: the catalogue lists every file that has a contact.                *)
CatalogueOfAllFiles(files) == {p \in DOMAIN files : files[p].id # NoId}

(* contacts(): what the index kept.                                        *)
Catalogue(files) == {Index(files)[id] : id \in DOMAIN Index(files)}

-----------------------------------------------------------------------------
NoContact == [id |-> NoId, file |-> 0, reader |-> "nobody"]
NoTranscript == 0

AssemblyInit ==
  /\ recording = <<>>
  /\ turns = <<>>
  /\ directory \in [1..Paths -> [id : Ids \cup {NoId}, contact : Ids \cup {NoId}]]
  /\ resolved = NoContact
  /\ fetched = NoTranscript
  /\ edits = 0

(* How a recogniser may spell a word it lists: as it may spell any word, or*)
(* as nothing that is said.                                                *)
Spellings == Vocabulary \cup {<<Unheard>>}

(* What a recogniser may list of a text: some of its words, in their order,*)
(* each in any spelling, some without a time.                              *)
Listing(at, spelled, untimed) ==
  [i \in DOMAIN at |-> [at    |-> at[i],
                        token |-> spelled[at[i]],
                        timed |-> at[i] \notin untimed]]

Rising(said) ==
  {at \in BoundedSeq(DOMAIN said, Len(said)) : \A i \in 2..Len(at) : at[i - 1] < at[i]}

Listings(said) ==
  {Listing(at, spelled, untimed) :
     at \in Rising(said), spelled \in [DOMAIN said -> Spellings], untimed \in SUBSET DOMAIN said}

(* fetch of the managed source; without an audio_uri it raises.            *)
FetchRecording ==
  /\ recording = <<>> /\ turns = <<>>
  /\ \E said \in BoundedSeq(Vocabulary, MaxWords), first, second \in Channels :
       /\ said # <<>>
       /\ \E listed \in Listings(said) :
            recording' = <<[channel |-> first, said |-> said, listed |-> listed],
                           [channel |-> second, said |-> <<said[1]>>, listed |-> <<>>]>>
  /\ turns' = Assembled(recording')
  /\ UNCHANGED <<directory, resolved, fetched, edits>>

(* load_fixture, one turn of it.                                           *)
LoadFixture ==
  /\ recording = <<>> /\ turns = <<>>
  /\ \E timing \in {"declared", "even"}, n \in 0..MaxWords, from, to \in Bounds :
       turns' = <<[index |-> 0, role |-> "agent", from |-> from, to |-> to,
                   words |-> FixtureWords(<<>>, timing, n, from, to)]>>
  /\ UNCHANGED <<recording, directory, resolved, fetched, edits>>

(* find_contact: the first of the catalogue with this id, or a 404.        *)
FindContact(id, reader) ==
  LET matching == {p \in Catalogue(directory) : ContactId(directory[p]) = id} IN
  /\ turns = <<>>
  /\ matching # {}
  /\ resolved' = [id |-> id, file |-> Min(matching), reader |-> reader]
  /\ fetched' = NoTranscript
  /\ edits' = 0
  /\ UNCHANGED <<recording, turns, directory>>

(* fetch of the offline source, by the id the contact record carries; an   *)
(* id the directory does not index raises.                                 *)
FetchFixture(id) ==
  /\ id \in DOMAIN Index(directory)
  /\ fetched' = Index(directory)[id]

(* read_transcript: the tenant is judged by the record, the transcript     *)
(* fetched after it.                                                       *)
ReadTranscript ==
  /\ resolved # NoContact /\ fetched = NoTranscript
  /\ Tenants[resolved.file] = resolved.reader
  /\ FetchFixture(resolved.id)
  /\ UNCHANGED <<recording, turns, directory, resolved, edits>>

EditFixture ==
  /\ resolved # NoContact /\ fetched = NoTranscript
  /\ edits < MaxEdits
  /\ \E p \in 1..Paths, id, contact \in Ids \cup {NoId} :
       directory' = [directory EXCEPT ![p] = [id |-> id, contact |-> contact]]
  /\ edits' = edits + 1
  /\ UNCHANGED <<recording, turns, resolved, fetched>>

Assemble ==
  \/ FetchRecording
  \/ LoadFixture

LookUp ==
  \/ \E id \in Ids, reader \in {Tenants[p] : p \in 1..Paths} : FindContact(id, reader)
  \/ ReadTranscript
  \/ EditFixture

-----------------------------------------------------------------------------
AssemblyTypeOK ==
  /\ Len(turns) \in 0..2
  /\ resolved.file \in 0..Paths
  /\ fetched \in 0..Paths
  /\ edits \in 0..MaxEdits

(* Is a placed word spelled as it was said?                                *)
AsSaid(said, word) == word.text = said[word.at]

(* However words repeat, contain one another, are left out or are spelled  *)
(* otherwise: the offsets of a turn never overlap, and a full listing      *)
(* places every word exactly.  No word is placed after where it was said,  *)
(* where it would time what is said there too early, unless a word listed  *)
(* in another spelling was found before it or is itself the one: such a    *)
(* spelling may occur further on, and the search goes on from there.  One  *)
(* that occurs nowhere is skipped and does no harm.                        *)
WordsRunAheadForACause ==
  \A i \in DOMAIN recording :
    LET words == turns[i].words
        said  == recording[i].said
    IN  /\ \A k \in DOMAIN words :
             (\A j \in 1..k : AsSaid(said, words[j])) => words[k].start <= PlaceOf(said, words[k].at)
        /\ \A k \in 2..Len(words) : words[k - 1].end <= words[k].start
        /\ [k \in DOMAIN recording[i].listed |-> recording[i].listed[k].token] = said =>
             \A k \in DOMAIN said : words[k].start = PlaceOf(said, k)

(* The times a fixture's turn is given where the recogniser gave none are  *)
(* never outside the turn: its words follow one another without a gap from *)
(* the first bound to the last.                                            *)
SpreadFillsTheTurn ==
  recording = <<>> =>
    \A i \in DOMAIN turns :
      LET words == turns[i].words IN
      words # <<>> =>
        /\ words[1].start = turns[i].from
        /\ Last(words).end = Max({turns[i].from, turns[i].to})
        /\ \A k \in DOMAIN words : words[k].start <= words[k].end
        /\ \A k \in 2..Len(words) : words[k].start = words[k - 1].end

(* Timed duties are judged by word times: of those the recogniser gave, a  *)
(* word has that of another place in the text only for the one cause, and  *)
(* those made up for a fixture stay within its turn.                       *)
WordTimesAreTrue == WordsRunAheadForACause /\ SpreadFillsTheTurn

(* A contact's obligations and its transcript are read from one file, and  *)
(* whoever reads a transcript is of the tenant of that file, as long as    *)
(* nobody edited the directory in between and no file in it names two      *)
(* contacts.                                                               *)
ContactsHaveTheirOwnTranscript ==
  /\ fetched # NoTranscript
  /\ edits = 0
  /\ \A p \in 1..Paths : directory[p].id # NoId => ContactId(directory[p]) = directory[p].id
  => fetched = resolved.file /\ Tenants[fetched] = resolved.reader
===============================================================================
