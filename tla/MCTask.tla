------------------------------- MODULE MCTask -------------------------------
(* One target and two notifiers; the target waits, takes, or does both. *)
EXTENDS S31Task, Bitwise

CONSTANTS n1, n2

MCBitOr(v, w) == v | w

MCBitAnd(v, w) == v & w

Wt(entry, exit, t) == [kind |-> "wait", entry |-> entry, exit |-> exit, timeout |-> t]
Tk(clear, t) == [kind |-> "take", clear |-> clear, timeout |-> t]

Forever == portMAX_DELAY

\* xTaskGenericNotifyWait with and without the masks, of two-bit values.
WaitCalls == {Wt(3, 0, 2), Wt(0, 3, Forever), Wt(1, 2, 0)}

WaitSends == {<<"none", 0>>, <<"bits", 1>>, <<"overwrite", 3>>, <<"noOverwrite", 2>>}

\* The same without entry masks, for events kept as bits.
BitCalls == {Wt(0, 3, 2), Wt(0, 1, Forever)}

BitSends == {<<"bits", 1>>, <<"bits", 2>>}

\* ulTaskGenericNotifyTake as a counting and as a binary semaphore.
TakeCalls == {Tk(FALSE, 2), Tk(TRUE, Forever), Tk(FALSE, 0)}

TakeSends == {<<"increment", 0>>}

\* One task that uses both calls.
MixedCalls == {Tk(TRUE, Forever), Wt(3, 0, 2)}

MCStyles == {[calls |-> WaitCalls, sends |-> WaitSends, slots |-> {}],
             [calls |-> BitCalls, sends |-> BitSends, slots |-> {}],
             [calls |-> TakeCalls, sends |-> TakeSends, slots |-> {}],
             [calls |-> {Tk(TRUE, Forever)}, sends |-> {<<"none", 0>>}, slots |-> {0, 1}],
             [calls |-> MixedCalls, sends |-> TakeSends \cup {<<"overwrite", 3>>}, slots |-> {}]}

\* The counter begins a call at zero or just before it wraps.
MCStarts == {0, Word - 1}
=============================================================================
