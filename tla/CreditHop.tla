------------------------------ MODULE CreditHop ------------------------------
(***************************************************************************)
(* What credit-based flow control promises for one stream (rules L9, L10   *)
(* and L13, bifaci/credit.rs): one credit is the permission to send one    *)
(* CHUNK, the sender starts with a window of W, and a chunk's credit       *)
(* travels in a circle -- gate, chunk in flight, chunk received, chunk     *)
(* consumed, grant in flight, gate.  The receiving end keeps an account of *)
(* its own (demux_multi_stream, rule L12): it starts at RW, the window of  *)
(* the last link, which the negotiation of the links makes at least W, and *)
(* a chunk that finds it empty is a fatal CREDIT_VIOLATION.                *)
(*                                                                         *)
(* Data are counted here, not carried: order and content are the business  *)
(* of GroupChain, whose every input stream implements this module.         *)
(***************************************************************************)
EXTENDS Integers

CONSTANTS
    W,     \* The window the sending gate starts with
    RW     \* The window the receiving demux starts with

(***************************************************************************)
(* Windows are negotiated positive (hello_initial_credit refuses 0), and   *)
(* the sender's is the minimum of every link on the way (aggregate_limits, *)
(* rebuild_limits), the last one's included.  The properties below need    *)
(* it; ChainAssumption of GroupChain says it of every hop.                 *)
(***************************************************************************)
WindowsNegotiated == W \in Nat /\ W >= 1 /\ RW \in Nat /\ W <= RW

VARIABLES
    open,      \* The gate is not closed
    ended,     \* The receiving request is over
    avail,     \* GateState.available
    wire,      \* Chunks sent and not yet seen by the demux
    held,      \* Chunks the demux took that nobody has consumed
    owed,      \* Consumed chunks whose grant is batched (consumed_since_grant)
    credit,    \* Granted chunks whose CREDIT frame is in flight
    window,    \* The demux's account (stream_windows)
    violated   \* The demux reported CREDIT_VIOLATION

vars == <<open, ended, avail, wire, held, owed, credit, window, violated>>

TypeOK == /\ open \in BOOLEAN /\ ended \in BOOLEAN /\ violated \in BOOLEAN
          /\ avail \in Nat /\ wire \in Nat /\ held \in Nat
          /\ owed \in Nat /\ credit \in Nat /\ window \in Int

Init == /\ open = TRUE /\ ended = FALSE /\ avail = W
        /\ wire = 0 /\ held = 0 /\ owed = 0 /\ credit = 0
        /\ window = RW /\ violated = FALSE

\* CreditGate::acquire(1), or try_acquire(1), and the CHUNK it allows.
Send == /\ open /\ avail > 0
        /\ avail' = avail - 1 /\ wire' = wire + 1
        /\ UNCHANGED <<open, ended, held, owed, credit, window, violated>>

\* The demux takes a chunk off its account and keeps it for the handler.  A
\* continuation fragment of an item is credited at once (fragment_grants).
Arrive(continuation) ==
    /\ wire > 0 /\ window > 0
    /\ wire' = wire - 1
    /\ IF continuation
         THEN credit' = credit + 1 /\ UNCHANGED <<held, window>>
         ELSE held' = held + 1 /\ window' = window - 1 /\ UNCHANGED credit
    /\ UNCHANGED <<open, ended, avail, owed, violated>>

\* A chunk beyond the window: the stream is failed, the chunk is dropped.
Violate == /\ wire > 0 /\ window <= 0
           /\ wire' = wire - 1 /\ window' = window - 1 /\ violated' = TRUE
           /\ UNCHANGED <<open, ended, avail, held, owed, credit>>

\* InputGrantEmitter::consumed: the grant waits for its batch.
Consume == /\ held > 0
           /\ held' = held - 1 /\ owed' = owed + 1
           /\ UNCHANGED <<open, ended, avail, wire, credit, window, violated>>

\* ... and the chunk that completes the batch sends it.
ConsumeAndGrant == /\ held > 0
                   /\ held' = held - 1 /\ owed' = 0
                   /\ credit' = credit + owed + 1 /\ window' = window + owed + 1
                   /\ UNCHANGED <<open, ended, avail, wire, violated>>

\* InputGrantEmitter::flush.
Flush == /\ owed > 0
         /\ owed' = 0 /\ credit' = credit + owed /\ window' = window + owed
         /\ UNCHANGED <<open, ended, avail, wire, held, violated>>

\* CreditGate::grant: a closed gate takes no notice.
Credited == \E n \in 1 .. credit :
              /\ credit' = credit - n
              /\ avail' = IF open THEN avail + n ELSE avail
              /\ UNCHANGED <<open, ended, wire, held, owed, window, violated>>

\* CreditGate::close.
Close == open /\ open' = FALSE
         /\ UNCHANGED <<ended, avail, wire, held, owed, credit, window, violated>>

\* The receiving request ends (done, failed, cancelled); from then on frames
\* for it, and grants of it, may be dropped on the way.
End == ~ended /\ ended' = TRUE
       /\ UNCHANGED <<open, avail, wire, held, owed, credit, window, violated>>

\* A chunk the switch no longer takes (send_to_master: UnknownRequest).
SendLost == /\ ended /\ open /\ avail > 0
            /\ avail' = avail - 1
            /\ UNCHANGED <<open, ended, wire, held, owed, credit, window, violated>>

LoseChunks == ended /\ \E n \in 1 .. wire :
                /\ wire' = wire - n
                /\ UNCHANGED <<open, ended, avail, held, owed, credit, window, violated>>

LoseCredit == ended /\ \E n \in 1 .. credit :
                /\ credit' = credit - n
                /\ UNCHANGED <<open, ended, avail, wire, held, owed, window, violated>>

Next == \/ Send \/ (\E c \in BOOLEAN : Arrive(c)) \/ Violate
        \/ Consume \/ ConsumeAndGrant \/ Flush \/ Credited \/ Close \/ End
        \/ SendLost \/ LoseChunks \/ LoseCredit

Spec == Init /\ [][Next]_vars
------------------------------------------------------------------------------
\* Every credit is in one place: none is minted, and none is lost while the
\* gate is open and the receiver runs (credit.rs, "grants only unblock").
Total == avail + wire + held + owed + credit
CreditsConserved == Total <= W /\ (open /\ ~ended => Total = W)

\* The receiver buffers at most a window of chunks, however slow its handler
\* and however fast the sender (L9: the demux itself never blocks).
BufferBounded == wire + held <= W

\* The account of the receiving end covers everything that may still arrive,
\* so a sender that obeys its gate is never charged with a CREDIT_VIOLATION
\* (L12), whatever batches the grants come in and however windows differ.
NoViolation == ~violated /\ window >= avail + wire + credit

\* A stalled sender is owed its window: if nothing is in flight and the
\* handler has consumed all it was given, then a flush of the batched grants
\* (the rule "flush before blocking", L10) is what releases it.
StalledIsOwed == open /\ ~ended /\ avail = 0 /\ wire = 0 /\ held = 0 /\ credit = 0
                   => owed = W
=============================================================================
