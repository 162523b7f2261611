---------------------------- MODULE AnswerCache ----------------------------
(***************************************************************************)
(* What the warmers promise about the suggestion cache, whatever tasks     *)
(* they are and whatever fails: a key only ever comes to hold what the     *)
(* database answered for this very key, to a reader of the process that    *)
(* runs, and a reader that ends stores nothing.  The answers held may be   *)
(* outdated only if the database changed while somebody held one, which is *)
(* remembered until a restart with nothing held.                           *)
(*                                                                         *)
(* PrefixCache implements this module (see PrefixCacheProofs).             *)
(***************************************************************************)
CONSTANT Keys

VARIABLES
    answers,   \* key -> what the database can answer for it now
    held,      \* key -> answers that were read for it and may yet be stored
    stored,    \* key -> {the answer under it}, or {}
    overtaken  \* the database changed while an answer was held

cacheVars == <<answers, held, stored, overtaken>>

Init ==
    /\ held = [k \in Keys |-> {}]
    /\ stored = [k \in Keys |-> {}]
    /\ overtaken = FALSE

Read(k) ==
    /\ \E answer \in answers[k] : held' = [held EXCEPT ![k] = @ \cup {answer}]
    /\ UNCHANGED <<answers, stored, overtaken>>

\* Another reader may hold the same answer still.
Store(k) ==
    /\ \E answer \in held[k] :
          /\ stored' = [stored EXCEPT ![k] = {answer}]
          /\ held' \in {held, [held EXCEPT ![k] = @ \ {answer}]}
    /\ UNCHANGED <<answers, overtaken>>

Forget(keys) ==
    /\ stored' = [k \in Keys |-> IF k \in keys THEN {} ELSE stored[k]]
    /\ UNCHANGED <<answers, held, overtaken>>

\* Readers end without storing.
Fewer == DOMAIN held' = Keys /\ \A k \in Keys : held'[k] \subseteq held[k]

GiveUp == Fewer /\ UNCHANGED <<answers, stored, overtaken>>

\* The database changes, in any way; a shutdown ends readers with its last batch.
Change ==
    /\ Fewer
    /\ overtaken' = (overtaken \/ \E k \in Keys : held[k] # {})
    /\ UNCHANGED stored

Restart ==
    /\ \A k \in Keys : held[k] = {}
    /\ overtaken' = FALSE
    /\ UNCHANGED <<answers, held, stored>>

Next ==
    \/ \E k \in Keys : Read(k) \/ Store(k)
    \/ \E keys \in SUBSET Keys : Forget(keys)
    \/ GiveUp
    \/ Change
    \/ Restart

Spec == Init /\ [][Next]_cacheVars

=============================================================================
