------------------------------ MODULE MCQueue ------------------------------
(***************************************************************************)
(* One queue, three contexts: a producer task, the radio worker that runs  *)
(* the ISR half of the API and resets, and a consumer that also sends, so  *)
(* that senders and receivers sleep on the same wait object at once.       *)
(***************************************************************************)
EXTENDS S31Queue, TLC

CONSTANTS producer, worker, consumer, a, b

C(op, x, t) == [op |-> op, item |-> x, timeout |-> t]

MCOffers ==
  producer :> {C("back", a, "forever"), C("front", b, "finite"), C("overwrite", b, "zero")}
    @@ worker :> {C("back", b, "isr"), C("receive", NoItem, "isr"), C("reset", NoItem, "zero")}
    @@ consumer :> {C("receive", NoItem, "forever"), C("receive", NoItem, "zero"),
                    C("back", b, "forever")}
=============================================================================
