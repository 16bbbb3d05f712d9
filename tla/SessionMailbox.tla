--------------------------- MODULE SessionMailbox ---------------------------
(***************************************************************************)
(* What a session's surface promises to whoever sends it something: at     *)
(* most one turn is open per session, and an item submitted to a session   *)
(* is taken into an open turn of that session, once, or dropped.           *)
(***************************************************************************)
CONSTANTS Session, Item, NoSession

VARIABLES open, address, status

mailboxVars == <<open, address, status>>

Waiting(s) == {i \in Item : status[i] = "waiting" /\ address[i] = s}
Settle(B, verdict) ==
  status' = [i \in Item |-> IF i \in B THEN verdict ELSE status[i]]

Init ==
  /\ open = {}
  /\ address = [i \in Item |-> NoSession]
  /\ status = [i \in Item |-> "new"]

Submit(i, s) ==
  /\ status[i] = "new"
  /\ status' = [status EXCEPT ![i] = "waiting"]
  /\ address' = [address EXCEPT ![i] = s]
  /\ UNCHANGED open

(* A turn opens on some of what waits for its session, or on something     *)
(* that was taken before (a retry opens with nothing new).                 *)
OpenTurn(s, B) ==
  /\ s \notin open
  /\ B \subseteq Waiting(s)
  /\ open' = open \cup {s}
  /\ Settle(B, "taken")
  /\ UNCHANGED address

TakeInto(s, B) ==
  /\ s \in open
  /\ B \subseteq Waiting(s)
  /\ Settle(B, "taken")
  /\ UNCHANGED <<open, address>>

CloseTurn(s) ==
  /\ s \in open
  /\ open' = open \ {s}
  /\ UNCHANGED <<address, status>>

Drop(s, B) ==
  /\ B \subseteq Waiting(s)
  /\ Settle(B, "dropped")
  /\ UNCHANGED <<open, address>>

Next ==
  \/ \E i \in Item, s \in Session : Submit(i, s)
  \/ \E s \in Session :
       \/ CloseTurn(s)
       \/ \E B \in SUBSET Waiting(s) : OpenTurn(s, B) \/ TakeInto(s, B) \/ Drop(s, B)

Spec == Init /\ [][Next]_mailboxVars
=============================================================================
