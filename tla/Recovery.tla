------------------------------ MODULE Recovery ------------------------------
(***************************************************************************)
(* What auto-save promises whoever recovers a design: recoverDesign gives  *)
(* the last autosave.  Each save replaces it by a newer one, nothing but   *)
(* its age takes it away or brings an older one back, and it never holds   *)
(* less than any before while saves come one after the other.              *)
(***************************************************************************)
EXTENDS Naturals

VARIABLES
    content,    \* edits made so far
    overlapped, \* two saves have been going on at once
    saved,      \* autosaves ever made
    most,       \* the most edits that one of them has held
    expired,    \* those up to this one have been there for seven days
    latest      \* what recoverDesign returns: which autosave, and the edits it holds

recoveryVars == <<content, overlapped, saved, most, expired, latest>>

Nothing == [id |-> 0, holds |-> 0]

Init ==
    /\ content = 0 /\ overlapped = FALSE /\ saved = 0 /\ most = 0 /\ expired = 0
    /\ latest = Nothing

Edit == content' = content + 1 /\ UNCHANGED <<overlapped, saved, most, expired, latest>>

(* A save reads the design at some time of its own.                        *)
Save ==
    \E edits \in 0..content :
        /\ overlapped \/ edits >= most
        /\ saved' = saved + 1
        /\ latest' = [id |-> saved + 1, holds |-> edits]
        /\ most' = IF edits > most THEN edits ELSE most
        /\ UNCHANGED <<content, overlapped, expired>>

Expire ==
    \E i \in expired + 1..saved :
        /\ expired' = i
        /\ latest' = IF latest.id <= i THEN Nothing ELSE latest
        /\ UNCHANGED <<content, overlapped, saved, most>>

Overlap == overlapped' = TRUE /\ UNCHANGED <<content, saved, most, expired, latest>>

Next == Edit \/ Save \/ Expire \/ Overlap

Spec == Init /\ [][Next]_recoveryVars
=============================================================================
