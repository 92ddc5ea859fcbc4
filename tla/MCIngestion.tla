------------------------------ MODULE MCIngestion ------------------------------
(***************************************************************************)
(* Ingestion for TLC: words of which each is a part of the next, turns of  *)
(* up to three words, three fixture files of two tenants over two ids, and *)
(* bounds that three words divide evenly, unevenly, to a tie, not at all   *)
(* and backwards.                                                          *)
(***************************************************************************)
EXTENDS Ingestion

\* "a", "an" and "can"
MCVocabulary == {<<1>>, <<1, 14>>, <<3, 1, 14>>}
MCChannels   == {0, 1, 2, Missing}
MCTenants    == <<"bank", "other", "bank">>
MCBounds     == {0, 3, 4, 5, Missing}
===============================================================================
