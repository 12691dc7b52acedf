--------------------------- MODULE SFLTransformer ---------------------------
(***************************************************************************)
(* sfl/transformer.py, class SFLTransformer: threads that turn texts into  *)
(* SURPRISE packets.  They share nothing but the sequence counter of the   *)
(* class and its lock.  What a text says does not reach the counter, so    *)
(* the model lets all calls transform the same text.                       *)
(***************************************************************************)
EXTENDS SurprisePacket, Functions

CONSTANTS Threads,
          MaxCalls,  \* bound on the calls
          None

ASSUME TransformerConstants == MaxCalls \in Nat /\ None \notin Threads

VARIABLES next_seq,  \* _next_seq
          lock,      \* the holder of _seq_lock, or None
          pc,        \* where each thread is
          reg,       \* what each thread last read from the counter
          text,      \* the text that is transformed
          packet,    \* the packet that came out last, None before the first one
          calls,     \* (history) calls begun
          before,    \* (history) the numbers that were out when a call began
          returned   \* (history) the numbers that came out, with those before

counter == <<next_seq, lock, reg>>
result == <<packet, returned>>
vars == <<counter, pc, text, calls, before, result>>

Out == {pair[1] : pair \in Range(returned)}

Init ==
  /\ next_seq = 0 /\ lock = None
  /\ pc = [t \in Threads |-> "idle"]
  /\ reg = [t \in Threads |-> 0]
  /\ text \in Texts /\ packet = None
  /\ calls = 0 /\ before = [t \in Threads |-> {}]
  /\ returned = <<>>

Goto(t, here, there) == pc[t] = here /\ pc' = [pc EXCEPT ![t] = there]

Call(t) ==
  /\ calls < MaxCalls
  /\ Goto(t, "idle", "events")
  /\ calls' = calls + 1
  /\ before' = [before EXCEPT ![t] = Out]
  /\ UNCHANGED <<counter, text, result>>

LockFreeMutant == TRUE  \* the counter is used without the lock

LockFree == lock = None

Acquire(t) ==
  /\ Goto(t, "events", "locked")
  /\ LockFree
  /\ lock' = t
  /\ UNCHANGED <<next_seq, reg, text, calls, before, result>>

\* cls._next_seq += 1 is a read and a write.
Read(t) ==
  /\ Goto(t, "locked", "read")
  /\ reg' = [reg EXCEPT ![t] = next_seq]
  /\ UNCHANGED <<next_seq, lock, text, calls, before, result>>

Write(t) ==
  /\ Goto(t, "read", "written")
  /\ next_seq' = reg[t] + 1
  /\ UNCHANGED <<lock, reg, text, calls, before, result>>

\* return cls._next_seq reads it again before the lock is released.
Release(t) ==
  /\ Goto(t, "written", "allocated")
  /\ reg' = [reg EXCEPT ![t] = next_seq]
  /\ lock' = None
  /\ UNCHANGED <<next_seq, text, calls, before, result>>

Return(t) ==
  /\ Goto(t, "allocated", "idle")
  /\ packet' \in Packets(text, reg[t])
  /\ returned' = Append(returned, <<reg[t], before[t]>>)
  /\ UNCHANGED <<counter, text, calls, before>>

Next ==
  \E t \in Threads :
    Call(t) \/ Acquire(t) \/ Read(t) \/ Write(t) \/ Release(t) \/ Return(t)

Spec == Init /\ [][Next]_vars

-----------------------------------------------------------------------------
(* Properties *)

TypeOK ==
  /\ next_seq \in Nat /\ lock \in Threads \cup {None}
  /\ pc \in [Threads -> {"idle", "events", "locked", "read", "written", "allocated"}]
  /\ reg \in [Threads -> Nat]
  /\ text \in Texts
  /\ packet # None => /\ packet.seq \in 1..next_seq /\ packet.mag \in 0..1000
                      /\ {DOMAIN packet.div, DOMAIN packet.scale} = {DOMAIN text}
  /\ calls \in 0..MaxCalls
  /\ before \in [Threads -> SUBSET Nat]
  /\ returned \in Seq(Nat \X SUBSET Nat)

\* SEQ replaces all timestamps: no two packets of a process have one number,
\* and a packet whose call began after another one came out has the higher one.
SeqOrdered ==
  /\ \A i, j \in DOMAIN returned : returned[i][1] = returned[j][1] => i = j
  /\ \A i \in DOMAIN returned : \A n \in returned[i][2] : n < returned[i][1]

\* Every class of SCALE is that of the time since the last line before it that
\* has a time, however many lines without one lie between: not of the time
\* since some older line, and not sigma-0 because the line just before had none.
ScaleIsGap ==
  packet # None =>
    \A i \in DOMAIN text :
      LET timed == {j \in 1..(i - 1) : text[j].time # NoTime}
      IN  packet.scale[i] =
            IF text[i].time = NoTime \/ timed = {} THEN "sigma-0"
            ELSE SigmaFromDelta(text[i].time - text[Max(timed)].time)

\* The type and the magnitude, which are computed apart, do not contradict each
\* other in a text of fewer than a thousand lines: a packet with magnitude 0
\* names no failure and no depletion, one that names a cascade has the weight of
\* two failures; where everything failed in quick succession the type is
\* CASCADE, and one failure that nothing slow surrounds is a SPIKE or a DRAIN.
TypeFitsMagnitude ==
  packet # None /\ Len(text) < 1000 =>
    LET type   == packet.packet_type
        failed == {i \in DOMAIN text : packet.div[i].a = "-1"}
        fast   == \A i \in DOMAIN text : packet.scale[i] \in Fast
        slow   == \E i \in DOMAIN text : packet.scale[i] \in Slow
    IN  /\ packet.mag = 0 => type \in {"DRIFT", "ANOMALY"}
        /\ type = "CASCADE" => packet.mag * Len(text) >= 2000 - Len(text)
        /\ packet.mag = 1000 /\ Len(text) > 1 /\ fast => type = "CASCADE"
        /\ Cardinality(failed) = 1 /\ ~ slow => type \in {"SPIKE", "DRAIN"}

\* Rounding hides nothing in a text of fewer than a thousand lines: MAG is 0
\* only if no line failed or warned, and 1 only if every line failed.
MagnitudeSound ==
  packet # None /\ Len(text) < 1000 =>
    /\ packet.mag = 0 <=> \A i \in DOMAIN text : packet.div[i].a \notin {"-1", "WARN"}
    /\ packet.mag = 1000 <=> text # <<>> /\ \A i \in DOMAIN text : packet.div[i].a = "-1"
=============================================================================
