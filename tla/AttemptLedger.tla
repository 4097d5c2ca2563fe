--------------------------- MODULE AttemptLedger ---------------------------
(***************************************************************************)
(* What the speech-attempt pipeline promises, with no handlers, retries,   *)
(* transactions or faults: an utterance is stored at most once under its   *)
(* (session, client_key), a stored result never changes or disappears, and *)
(* a word becomes mastered only because some stored utterance of it by     *)
(* that child reached the threshold, and stays mastered.                   *)
(* Attempts refines this specification.                                    *)
(***************************************************************************)
EXTENDS Integers

CONSTANTS
    Sessions, Keys, Children, Words,
    SessionChild,           \* the child each session belongs to
    Scores,                 \* what the scorer may answer, in percent
    MasteryThreshold        \* the score that masters a word, in percent

VARIABLES
    stored,     \* the results kept, one per (session, key)
    mastered    \* the <<child, word>> pairs mastered so far

ledgerVars == <<stored, mastered>>

Result == [session: Sessions, key: Keys, word: Words, score: Scores]

LedgerInit ==
    /\ stored = {}
    /\ mastered = {}

\* A first result is kept for a (session, key).
Store ==
    \E r \in Result :
        /\ \A q \in stored : q.session # r.session \/ q.key # r.key
        /\ stored' = stored \cup {r}
        /\ UNCHANGED mastered

\* A stored utterance that reached the threshold masters its word.
Master ==
    \E r \in stored :
        /\ r.score >= MasteryThreshold
        /\ mastered' = mastered \cup {<<SessionChild[r.session], r.word>>}
        /\ UNCHANGED stored

LedgerNext == Store \/ Master

LedgerSpec == LedgerInit /\ [][LedgerNext]_ledgerVars
=============================================================================
