--------------------------- MODULE JudgmentPromise ---------------------------
(***************************************************************************)
(* What the ledger of a brand's SV9 judgments promises, without the ledger *)
(* (src/history/repository.py:6635-6678): a judgment is accepted only if   *)
(* it was made against the judgment that was accepted until then, and,     *)
(* while a review is open, only if its scan is newer than the scan under   *)
(* review. JudgmentAuthority implements it.                                *)
(***************************************************************************)
EXTENDS Naturals

CONSTANT Scans  \* the brand's scans, numbered in the order they were requested

VARIABLES
    accepted,   \* a number that names the accepted judgment, 0 while there is none
    basis,      \* the accepted judgment the accepted one was made against
    review      \* the scan under review, 0 when none is

vars == <<accepted, basis, review>>

Init == accepted = 0 /\ basis = 0 /\ review = 0

(* A judgment of scan s, made against the accepted one, takes its place and *)
(* ends the review.                                                         *)
Accept(s) ==
    /\ review = 0 \/ s > review
    /\ accepted' \in {n \in Nat : n > accepted}
    /\ basis' = accepted
    /\ review' = 0

(* Scan s finds that the accepted judgment has to be reviewed; it stays the *)
(* accepted one.                                                            *)
Review(s) ==
    /\ accepted # 0
    /\ review' = s
    /\ UNCHANGED <<accepted, basis>>

Next == \E s \in Scans : Accept(s) \/ Review(s)

Spec == Init /\ [][Next]_vars
==============================================================================
