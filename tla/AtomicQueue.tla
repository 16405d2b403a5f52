---------------------------- MODULE AtomicQueue ----------------------------
(***************************************************************************)
(* What the queue promises its callers: every call takes effect at one     *)
(* instant between its invocation and its return, on a sequence of at most *)
(* Capacity items, or has no effect at all.  A call that may not block is  *)
(* refused only when, at some instant, it was really impossible.           *)
(***************************************************************************)
EXTENDS QueueCalls

VARIABLES
  items,   \* the queued items, oldest first
  req,     \* req[p]: the call p is inside, or NoCall
  done,    \* done[p]: p's call has taken effect and not yet returned
  got      \* got[p]: the item a receive has copied out, until it returns

vars == <<items, req, done, got>>

Init == /\ items = << >>
        /\ req = [p \in Tasks |-> NoCall]
        /\ done = [p \in Tasks |-> FALSE]
        /\ got = [p \in Tasks |-> NoItem]

\* The effect of a send on the items; overwriting a full queue drops the oldest.
Sent(copy, x) ==
  IF copy = "front" THEN <<x>> \o items
  ELSE IF Len(items) = Capacity THEN Append(Tail(items), x)
  ELSE Append(items, x)

Possible(c) == CASE c.op = "receive"           -> items # << >>
                 [] c.op \in {"back", "front"} -> Len(items) < Capacity
                 [] OTHER                      -> TRUE

Pending(p) == req[p] # NoCall /\ ~done[p]

Invoke(p) == /\ req[p] = NoCall
             /\ \E c \in Offers[p] : req' = [req EXCEPT ![p] = c]
             /\ UNCHANGED <<items, done, got>>

Apply(p) ==
  /\ Pending(p) /\ Possible(req[p])
  /\ done' = [done EXCEPT ![p] = TRUE]
  /\ CASE req[p].op = "receive" -> /\ items' = Tail(items)
                                   /\ got' = [got EXCEPT ![p] = Head(items)]
       [] req[p].op = "reset"   -> items' = << >> /\ UNCHANGED got
       [] OTHER -> items' = Sent(req[p].op, req[p].item) /\ UNCHANGED got
  /\ UNCHANGED req

\* pdFAIL to a caller that asked not to wait.
Refuse(p) == /\ Pending(p) /\ ~MayBlock(req[p]) /\ ~Possible(req[p])
             /\ req' = [req EXCEPT ![p] = NoCall]
             /\ UNCHANGED <<items, done, got>>

\* pdFAIL to a caller whose wait ran out or was interrupted.
GiveUp(p) == /\ Pending(p) /\ MayBlock(req[p])
             /\ req' = [req EXCEPT ![p] = NoCall]
             /\ UNCHANGED <<items, done, got>>

Return(p) == /\ done[p]
             /\ req' = [req EXCEPT ![p] = NoCall]
             /\ done' = [done EXCEPT ![p] = FALSE]
             /\ got' = [got EXCEPT ![p] = NoItem]
             /\ UNCHANGED items

Next == \E p \in Tasks : Invoke(p) \/ Apply(p) \/ Refuse(p) \/ GiveUp(p) \/ Return(p)

Spec == Init /\ [][Next]_vars
=============================================================================
