---------------------------- MODULE ImmutableObject ----------------------------
(***************************************************************************)
(* What the evidence store keeps of "immutable objects" for one path       *)
(* (src/acr/forensics/store.py), whichever writers fail or die.  A writer  *)
(* is told "ok" only while its own content is the stored one.  Content     *)
(* that its writer has settled stays for ever; before that its writer, and *)
(* nobody else, may take it back, even from under a writer of the same     *)
(* bytes that was told "ok".  A refusal changes nothing.                   *)
(***************************************************************************)
CONSTANTS Writers, Contents, ContentOf, None

VARIABLES
  obj,      \* the stored content, None before
  owner,    \* the writer that may still take it back, None once it is settled
  reply     \* [Writers -> "none", "ok" or "refused"]

vars == <<obj, owner, reply>>

Init ==
  /\ obj = None
  /\ owner = None
  /\ reply = [w \in Writers |-> "none"]

Store(w) ==
  /\ obj = None /\ reply[w] = "none"
  /\ obj' = ContentOf[w]
  /\ owner' = w
  /\ UNCHANGED reply

\* The storing writer comes to its end and is told so, or dies there.
Settle(w) ==
  /\ owner = w /\ reply[w] = "none"
  /\ owner' = None
  /\ reply' = [reply EXCEPT ![w] = "ok"] \/ reply' = reply
  /\ UNCHANGED obj

Accept(w) ==
  /\ obj = ContentOf[w] /\ owner # w /\ reply[w] = "none"
  /\ reply' = [reply EXCEPT ![w] = "ok"]
  /\ UNCHANGED <<obj, owner>>

Refuse(w) ==
  /\ owner # w /\ reply[w] = "none"
  /\ reply' = [reply EXCEPT ![w] = "refused"]
  /\ UNCHANGED <<obj, owner>>

Withdraw(w) ==
  /\ owner = w /\ reply[w] = "none"
  /\ obj' = None
  /\ owner' = None
  /\ reply' = [reply EXCEPT ![w] = "refused"]

Next == \E w \in Writers : Store(w) \/ Settle(w) \/ Accept(w) \/ Refuse(w) \/ Withdraw(w)

Spec == Init /\ [][Next]_vars
=============================================================================
