----------------------------- MODULE IntakeProofs -----------------------------
(***************************************************************************)
(* CmdIntake for every length of a frame, every size of the ring, the      *)
(* chunk and the event queue, every number of frames and packets, and      *)
(* every range of the sequence count.                                      *)
(*                                                                         *)
(* The gaps the packet layer counts: PacketLayer expects either the        *)
(* successor of the packet it followed last, or, having followed a count   *)
(* that was not its packet's, something else.  A step under a wrong count  *)
(* is a miscount by itself and prepares another one at most, so two for    *)
(* each such packet pay for every difference between gaps and losses.      *)
(*                                                                         *)
(* The results: a frame is answered when its last byte is assembled.  The  *)
(* line sends that byte once, and the ring, the chunk and the assembler    *)
(* hold it in one place at a time, so a frame whose last byte is held      *)
(* anywhere has no result (HeldInv) and a frame not wholly sent has none   *)
(* either (FreshInv); with one command in flight at most, that makes one   *)
(* result each.                                                            *)
(*                                                                         *)
(* The same frames that have no result are what makes every step one of    *)
(* the abstract CommandService, or an invisible one.                       *)
(*                                                                         *)
(* The frames kept: the assembler, the chunk and the ring hold, one after  *)
(* the other, the bytes in the order the line sent them (Stream).  In a    *)
(* frame of which none is lost each is followed by the next, so a full     *)
(* buffer that begins with its first byte holds all of it and its checksum *)
(* matches: resync() never drops that byte (ResyncKeepsStarts), and what   *)
(* it skips to is the next marker, which every first byte is.              *)
(***************************************************************************)
EXTENDS CmdIntake, ModularArithmetic, SequenceTheorems, WellFoundedInduction

\* What is expected is not what follows the packet followed last.
Astray == IF followed > 0 THEN expect # followed % Counts ELSE seen
Debt   == IF Astray THEN 1 ELSE 0

Numbers ==
    /\ built \in Nat /\ gaps \in Nat /\ followed \in Nat /\ losses \in Nat
    /\ tampered \in Nat /\ expect \in Count

SeenInv == seen \in BOOLEAN /\ (followed > 0 => seen)

DebtInv ==
    /\ gaps + Debt <= losses + 2 * tampered
    /\ losses + Debt <= gaps + 2 * tampered

PacketInv == Numbers /\ SeenInv /\ DebtInv

USE CountsAssumption

-----------------------------------------------------------------------------
\* What follows the n-th packet is expected after it.
LEMMA ExpectSuccessor ==
    ASSUME NEW n \in Nat
    PROVE  CountOf(n + 1) \in Count /\ ExpectAfter(CountOf(n + 1)) = (n + 1) % Counts
<1>1. (n + 1) - 1 = n
  OBVIOUS
<1>2. CountOf(n + 1) = n % Counts
  BY <1>1 DEF CountOf
<1>3. Counts \in Nat \ {0} /\ n \in Int
  OBVIOUS
<1>4. n % Counts \in 0 .. Counts - 1 /\ ((n % Counts) + 1) % Counts = (n + 1) % Counts
  BY <1>3, DivMod, ModSucc
<1> QED
  BY <1>2, <1>4 DEF ExpectAfter, Count

\* As long as the expectation holds, a gap is counted exactly for a run of losses.
LEMMA GapIsLoss ==
    ASSUME Numbers, SeenInv, ~Astray
    PROVE  IsGap(CountOf(built + 1)) <=> RunEndsAt(built + 1)
<1>1. built \in Int /\ followed \in Nat /\ followed \in Int
  BY DEF Numbers
<1>2. (built + 1) - 1 = built /\ (built + 1) - followed - 1 = built - followed
  BY <1>1
<1>3. CountOf(built + 1) = built % Counts
  BY <1>2 DEF CountOf
<1>4. RunEndsAt(built + 1) <=> followed > 0 /\ (built - followed) % Counts # 0
  BY <1>2 DEF RunEndsAt
<1>5. (built - followed) % Counts = 0 <=> built % Counts = followed % Counts
  BY <1>1, ModCongruent
<1>6. CASE followed > 0
  BY <1>3, <1>4, <1>5, <1>6 DEF Astray, IsGap, SeenInv
<1>7. CASE ~(followed > 0)
  BY <1>4, <1>7 DEF Astray, IsGap
<1> QED
  BY <1>6, <1>7

\* A packet followed under any count, for whatever packet it is taken.
LEMMA FollowMoves ==
    ASSUME Numbers, NEW count \in Count, Follow(count)
    PROVE  /\ expect' \in Count /\ seen' = TRUE
           /\ gaps' \in {gaps, gaps + 1} /\ gaps' \in Nat
           /\ IsGap(count) => gaps' = gaps + 1
           /\ ~IsGap(count) => gaps' = gaps
<1>1. count + 1 \in Int /\ Counts \in Nat \ {0}
  BY DEF Count
<1>2. (count + 1) % Counts \in 0 .. Counts - 1
  BY <1>1, DivMod
<1>3. ExpectAfter(count) \in Count
  BY <1>2 DEF ExpectAfter, Count
<1> QED
  BY <1>3 DEF Follow, Numbers

\* Nothing is expected and nothing owed before the first packet.
LEMMA PacketInit_Inv ==
    ASSUME PacketInit PROVE PacketInv
<1>1. Numbers
  BY DEF PacketInit, Numbers, Count
<1>2. ~(followed > 0)
  BY DEF PacketInit
<1>3. seen = FALSE
  BY DEF PacketInit
<1>4. SeenInv /\ ~Astray
  BY <1>2, <1>3 DEF SeenInv, Astray
<1>5. Debt = 0
  BY <1>4 DEF Debt
<1>6. DebtInv
  BY <1>5 DEF PacketInit, DebtInv
<1> QED
  BY <1>1, <1>4, <1>6 DEF PacketInv

\* A packet that is followed, under its own count or another, and one that is refused
\* keep the account of gaps and losses.
LEMMA PacketStep_Inv ==
    ASSUME PacketInv, [PacketNext]_packetVars
    PROVE  PacketInv'
<1>1. Numbers /\ SeenInv /\ DebtInv
  BY DEF PacketInv
<1>2. Debt \in {0, 1} /\ Debt' \in {0, 1}
  BY DEF Debt
<1>3. CASE ReceiveNext
  <2> DEFINE count == CountOf(built + 1)
  <2>1. count \in Count /\ ExpectAfter(count) = (built + 1) % Counts
    BY <1>1, ExpectSuccessor DEF Numbers
  <2>2. /\ built' = built + 1 /\ followed' = built + 1 /\ tampered' = tampered
        /\ Follow(count) /\ expect' = (built + 1) % Counts
        /\ losses' = IF RunEndsAt(built + 1) THEN losses + 1 ELSE losses
    BY <1>3, <2>1 DEF ReceiveNext, Follow
  <2> HIDE DEF count
  <2>3. /\ expect' \in Count /\ gaps' \in Nat
        /\ IsGap(count) => gaps' = gaps + 1
        /\ ~IsGap(count) => gaps' = gaps
    BY <1>1, <2>1, <2>2, FollowMoves
  <2>4. seen' = TRUE
    BY <1>1, <2>1, <2>2, FollowMoves
  <2>5. Numbers'
    BY <1>1, <2>2, <2>3 DEF Numbers
  <2>6. SeenInv'
    BY <2>4 DEF SeenInv
  <2>7. Debt' = 0
    BY <1>1, <2>2 DEF Astray, Debt, Numbers
  <2>8. DebtInv'
    <3>1. CASE Astray
      <4>1. Debt = 1
        BY <3>1 DEF Debt
      <4>2. (gaps' = gaps \/ gaps' = gaps + 1) /\ (losses' = losses \/ losses' = losses + 1)
        BY <2>2, <2>3
      <4>3. tampered' = tampered
        BY <2>2
      <4> QED
        BY <1>1, <2>7, <4>1, <4>2, <4>3 DEF Numbers, DebtInv
    <3>2. CASE ~Astray
      <4>1. Debt = 0
        BY <3>2 DEF Debt
      <4>2. IsGap(count) <=> RunEndsAt(built + 1)
        BY <1>1, <3>2, GapIsLoss DEF count
      <4>3. (gaps' = gaps /\ losses' = losses) \/ (gaps' = gaps + 1 /\ losses' = losses + 1)
        BY <2>2, <2>3, <4>2
      <4> QED
        BY <1>1, <2>2, <2>7, <4>1, <4>3 DEF Numbers, DebtInv
    <3> QED
      BY <3>1, <3>2
  <2> QED
    BY <2>5, <2>6, <2>8 DEF PacketInv
<1>4. ASSUME NEW count \in Count, ReceiveTampered(count) \/ ReceiveForeign(count)
      PROVE  PacketInv'
  <2>1. /\ built' \in {built, built + 1} /\ followed' \in {followed, built + 1}
        /\ tampered' = tampered + 1 /\ losses' \in {losses, losses + 1}
        /\ Follow(count)
    BY <1>4 DEF ReceiveTampered, ReceiveForeign
  <2>2. expect' \in Count /\ gaps' \in Nat /\ gaps' \in {gaps, gaps + 1}
    BY <1>1, <1>4, <2>1, FollowMoves
  <2>3. seen' = TRUE
    BY <1>1, <1>4, <2>1, FollowMoves
  <2>4. Numbers'
    BY <1>1, <2>1, <2>2 DEF Numbers
  <2>5. SeenInv'
    BY <2>3 DEF SeenInv
  <2>6. DebtInv'
    <3>1. (gaps' = gaps \/ gaps' = gaps + 1) /\ (losses' = losses \/ losses' = losses + 1)
      BY <2>1, <2>2
    <3>2. tampered' = tampered + 1
      BY <2>1
    <3> QED
      BY <1>1, <1>2, <3>1, <3>2 DEF Numbers, DebtInv
  <2> QED
    BY <2>4, <2>5, <2>6 DEF PacketInv
<1>5. CASE RefuseNext \/ UNCHANGED packetVars
  <2>1. /\ seen' = seen /\ expect' = expect /\ gaps' = gaps /\ followed' = followed
        /\ losses' = losses /\ tampered' = tampered
    BY <1>5 DEF RefuseNext, packetVars
  <2>2. built' \in {built, built + 1}
    BY <1>5 DEF RefuseNext, packetVars
  <2>3. Numbers'
    BY <1>1, <2>1, <2>2 DEF Numbers
  <2>4. SeenInv'
    BY <1>1, <2>1 DEF SeenInv
  <2>5. DebtInv'
    BY <1>1, <2>1 DEF DebtInv, Debt, Astray
  <2> QED
    BY <2>3, <2>4, <2>5 DEF PacketInv
<1> QED
  BY <1>3, <1>4, <1>5 DEF PacketNext

\* The account bounds the two counts by each other.
LEMMA PacketInv_Properties ==
    ASSUME PacketInv PROVE OneGapPerLoss /\ DisturbanceEnds
<1>1. Numbers /\ DebtInv /\ Debt \in {0, 1}
  BY DEF PacketInv, Debt
<1> QED
  BY <1>1 DEF Numbers, DebtInv, OneGapPerLoss, DisturbanceEnds

-----------------------------------------------------------------------------
\* The last byte of a frame, the one that completes it, is among those of s.
IsLast(b, f)   == b.at = FrameLen /\ b.frame = f
Completes(s, f) == \E i \in 1 .. Len(s) : IsLast(s[i], f)
Once(s) ==
    \A f \in Frame : \A i, j \in 1 .. Len(s) :
        IsLast(s[i], f) /\ IsLast(s[j], f) => i = j

\* What is held as the head is read, or dropped.
LEMMA TailHolds ==
    ASSUME NEW s \in Seq(Byte), s # <<>>
    PROVE  /\ Tail(s) \in Seq(Byte) /\ Len(Tail(s)) = Len(s) - 1 /\ Len(s) > 0
           /\ Head(s) = s[1] /\ Head(s) \in Byte
           /\ \A i \in 1 .. Len(Tail(s)) : Tail(s)[i] = s[i + 1]
  OBVIOUS

\* Whatever frame the head completes, the tail completes no longer.
LEMMA TailCompletes ==
    ASSUME NEW s \in Seq(Byte), s # <<>>, Once(s), NEW f \in Frame
    PROVE  /\ Completes(Tail(s), f) => Completes(s, f)
           /\ IsLast(Head(s), f) => Completes(s, f) /\ ~Completes(Tail(s), f)
<1>1. Len(Tail(s)) = Len(s) - 1 /\ Len(s) \in Nat /\ Len(s) > 0 /\ Head(s) = s[1]
  BY TailHolds
<1>2. \A i \in 1 .. Len(Tail(s)) : Tail(s)[i] = s[i + 1]
  BY TailHolds
<1>3. ASSUME Completes(Tail(s), f)
      PROVE  \E i \in 2 .. Len(s) : IsLast(s[i], f)
  <2>1. PICK i \in 1 .. Len(Tail(s)) : IsLast(Tail(s)[i], f)
    BY <1>3 DEF Completes
  <2>2. i + 1 \in 2 .. Len(s) /\ IsLast(s[i + 1], f)
    BY <1>1, <1>2, <2>1
  <2> QED
    BY <2>2
<1>4. 2 .. Len(s) \subseteq 1 .. Len(s) /\ 1 \in 1 .. Len(s) /\ 1 \notin 2 .. Len(s)
  BY <1>1
<1>5. Completes(Tail(s), f) => Completes(s, f)
  BY <1>3, <1>4 DEF Completes
<1>6. ASSUME IsLast(Head(s), f)
      PROVE  Completes(s, f) /\ ~Completes(Tail(s), f)
  <2>1. Completes(s, f)
    BY <1>1, <1>4, <1>6 DEF Completes
  <2>2. ASSUME Completes(Tail(s), f)
        PROVE  FALSE
    <3>1. PICK i \in 2 .. Len(s) : IsLast(s[i], f)
      BY <1>3, <2>2
    <3>2. i = 1
      BY <1>1, <1>4, <1>6, <3>1 DEF Once
    <3> QED
      BY <1>4, <3>1, <3>2
  <2> QED
    BY <2>1, <2>2
<1> QED
  BY <1>5, <1>6

\* Dropping a byte leaves every frame completed once at most.
LEMMA TailOnce ==
    ASSUME NEW s \in Seq(Byte), s # <<>>, Once(s)
    PROVE  Once(Tail(s))
<1>1. Len(Tail(s)) = Len(s) - 1 /\ Len(s) \in Nat
  BY TailHolds
<1>2. \A i \in 1 .. Len(Tail(s)) : Tail(s)[i] = s[i + 1]
  BY TailHolds
<1> SUFFICES ASSUME NEW f \in Frame, NEW i \in 1 .. Len(Tail(s)), NEW j \in 1 .. Len(Tail(s)),
                    IsLast(Tail(s)[i], f), IsLast(Tail(s)[j], f)
             PROVE  i = j
  BY DEF Once
<1>3. i + 1 \in 1 .. Len(s) /\ j + 1 \in 1 .. Len(s)
  BY <1>1
<1>4. i + 1 = j + 1
  BY <1>2, <1>3 DEF Once
<1> QED
  BY <1>4

\* What is held when a byte is appended.
LEMMA AppendHolds ==
    ASSUME NEW s \in Seq(Byte), NEW b \in Byte
    PROVE  /\ Append(s, b) \in Seq(Byte) /\ Len(Append(s, b)) = Len(s) + 1
           /\ Append(s, b)[Len(s) + 1] = b
           /\ \A i \in 1 .. Len(s) : Append(s, b)[i] = s[i]
  OBVIOUS

\* An appended byte completes the frame it is the last of, and no other.
LEMMA AppendCompletes ==
    ASSUME NEW s \in Seq(Byte), NEW b \in Byte, NEW f \in Frame
    PROVE  Completes(Append(s, b), f) <=> Completes(s, f) \/ IsLast(b, f)
<1>1. /\ Len(Append(s, b)) = Len(s) + 1 /\ Append(s, b)[Len(s) + 1] = b
      /\ Len(s) \in Nat
  BY AppendHolds
<1>2. \A i \in 1 .. Len(s) : Append(s, b)[i] = s[i]
  BY AppendHolds
<1>3. /\ \A i \in 1 .. Len(s) + 1 : i \in 1 .. Len(s) \/ i = Len(s) + 1
      /\ Len(s) + 1 \in 1 .. Len(s) + 1
      /\ \A i \in 1 .. Len(s) : i \in 1 .. Len(s) + 1
  BY <1>1
<1> QED
  BY <1>1, <1>2, <1>3 DEF Completes

\* It may be appended when nothing else there completes the same frame.
LEMMA AppendOnce ==
    ASSUME NEW s \in Seq(Byte), NEW b \in Byte, Once(s),
           \A f \in Frame : IsLast(b, f) => ~Completes(s, f)
    PROVE  Once(Append(s, b))
<1>1. /\ Len(Append(s, b)) = Len(s) + 1 /\ Append(s, b)[Len(s) + 1] = b
      /\ Len(s) \in Nat
  BY AppendHolds
<1>2. \A i \in 1 .. Len(s) : Append(s, b)[i] = s[i]
  BY AppendHolds
<1>3. \A i \in 1 .. Len(s) + 1 : i \in 1 .. Len(s) \/ i = Len(s) + 1
  BY <1>1
<1> QED
  BY <1>1, <1>2, <1>3 DEF Completes, Once

\* What is held of what resync() keeps.
LEMMA SuffixHolds ==
    ASSUME NEW s \in Seq(Byte), NEW k \in 1 .. Len(s), Once(s)
    PROVE  LET kept == SubSeq(s, k, Len(s))
           IN  /\ kept \in Seq(Byte) /\ Len(kept) = Len(s) - k + 1 /\ Once(kept)
               /\ \A f \in Frame : Completes(kept, f) => Completes(s, f)
<1> DEFINE kept == SubSeq(s, k, Len(s))
<1>1. /\ kept \in Seq(Byte) /\ Len(kept) = Len(s) - k + 1 /\ Len(s) \in Nat
      /\ \A i \in 1 .. Len(kept) : kept[i] = s[k + i - 1]
  OBVIOUS
<1> HIDE DEF kept
<1>2. \A i \in 1 .. Len(kept) : k + i - 1 \in 1 .. Len(s)
  BY <1>1
<1>3. \A f \in Frame : Completes(kept, f) => Completes(s, f)
  BY <1>1, <1>2 DEF Completes
<1>4. Once(kept)
  <2> SUFFICES ASSUME NEW f \in Frame, NEW i \in 1 .. Len(kept), NEW j \in 1 .. Len(kept),
                      IsLast(kept[i], f), IsLast(kept[j], f)
               PROVE  i = j
    BY DEF Once
  <2>1. k + i - 1 = k + j - 1
    BY <1>1, <1>2 DEF Once
  <2> QED
    BY <2>1
<1> QED
  BY <1>1, <1>3, <1>4 DEF kept

\* An empty buffer completes nothing.
LEMMA EmptyHolds ==
    <<>> \in Seq(Byte) /\ Len(<<>>) = 0 /\ Once(<<>>) /\ \A f \in Frame : ~Completes(<<>>, f)
  BY DEF Once, Completes

-----------------------------------------------------------------------------
USE FrameAssumption, RingAssumption

Fresh(f) == accepted[f] = 0 /\ final[f] = 0

\* The whole frame has been sent, or its number went to a packet.
Sent(f) == f < frames \/ (f = frames /\ ~OnTheLine)

\* No frame is completed by two of the bytes held anywhere.
Apart(a, c, r) ==
    /\ Once(a) /\ Once(c) /\ Once(r)
    /\ \A f \in Frame : /\ ~(Completes(a, f) /\ Completes(c, f))
                        /\ ~(Completes(a, f) /\ Completes(r, f))
                        /\ ~(Completes(c, f) /\ Completes(r, f))

Held(f) == Completes(asm, f) \/ Completes(chunk, f) \/ Completes(ring, f)

StreamInv == Len(asm) < FrameLen /\ Apart(asm, chunk, ring)

HeldInv == \A f \in Frame : Held(f) => Fresh(f) /\ Sent(f)

FreshInv == \A f \in Frame : ~Sent(f) => Fresh(f)

\* What the line carries is a frame.
LineInv == position <= FrameLen => frames > 0

IntakeInv == TypeOK /\ LineInv /\ StreamInv /\ HeldInv /\ FreshInv /\ OneResultEach

ResultTypes == accepted \in [Frame -> Nat] /\ final \in [Frame -> Nat]

\* A command that has no result yet is refused, dispatched or left running: it alone
\* is affected.
LEMMA ProcessKeeps ==
    ASSUME ResultTypes, OneResultEach, NEW f \in Frame, Fresh(f), Process(f)
    PROVE  /\ OneResultEach' /\ ResultTypes'
           /\ inflight' \in {inflight, f}
           /\ expired' \in {expired, FALSE}
           /\ \A g \in Frame \ {f} : Fresh(g) => Fresh(g)'
<1>1. f \in Nat \ {0} /\ Frame \subseteq Nat \ {0}
  BY DEF Frame
<1>2. accepted[f] = 0 /\ final[f] = 0 /\ inflight # f
  BY DEF Fresh, OneResultEach
<1>3. CASE /\ final' = AddTo(final, f)
           /\ accepted' = accepted /\ inflight' = inflight /\ expired' = expired
  <2>1. /\ final' \in [Frame -> Nat] /\ final'[f] = 1
        /\ \A g \in Frame \ {f} : final'[g] = final[g]
    BY <1>2, <1>3 DEF AddTo, ResultTypes
  <2>2. OneResultEach'
    BY <1>2, <1>3, <2>1 DEF OneResultEach
  <2> QED
    BY <1>3, <2>1, <2>2 DEF ResultTypes, Fresh
<1>4. CASE /\ Dispatches /\ accepted' = AddTo(accepted, f)
           /\ inflight' = f /\ expired' = FALSE /\ final' = final
  <2>1. /\ accepted' \in [Frame -> Nat] /\ accepted'[f] = 1
        /\ \A g \in Frame \ {f} : accepted'[g] = accepted[g]
    BY <1>2, <1>4 DEF AddTo, ResultTypes
  <2>2. \A g \in Frame : ~(accepted[g] = 1 /\ final[g] = 0)
    BY <1>1, <1>4 DEF Dispatches, OneResultEach
  <2>3. OneResultEach'
    BY <1>2, <1>4, <2>1, <2>2 DEF OneResultEach
  <2> QED
    BY <1>4, <2>1, <2>3 DEF ResultTypes, Fresh
<1> QED
  BY <1>3, <1>4 DEF Process, Refuse, Dispatch

\* The command in flight is answered, or runs on: what has no result keeps none.
LEMMA TrackKeeps ==
    ASSUME ResultTypes, OneResultEach, inflight \in 0 .. frames, frames \in 0 .. MaxFrames, Track
    PROVE  /\ OneResultEach' /\ ResultTypes'
           /\ inflight' \in {inflight, 0}
           /\ expired' = expired
           /\ \A g \in Frame : Fresh(g) => Fresh(g)'
<1>1. CASE UNCHANGED cmdVars
  BY <1>1 DEF cmdVars, OneResultEach, ResultTypes, Fresh
<1>2. CASE /\ inflight # 0 /\ final' = AddTo(final, inflight) /\ inflight' = 0
           /\ accepted' = accepted /\ expired' = expired
  <2>1. inflight \in Frame /\ 0 \notin Frame
    BY <1>2 DEF Frame
  <2>2. accepted[inflight] = 1 /\ final[inflight] = 0
    BY <2>1 DEF OneResultEach
  <2>3. /\ final' \in [Frame -> Nat] /\ final'[inflight] = 1
        /\ \A g \in Frame \ {inflight} : final'[g] = final[g]
    BY <1>2, <2>1, <2>2 DEF AddTo, ResultTypes
  <2>4. OneResultEach'
    BY <1>2, <2>1, <2>2, <2>3 DEF OneResultEach
  <2>5. \A g \in Frame : Fresh(g) => Fresh(g)'
    BY <1>2, <2>2, <2>3 DEF Fresh
  <2> QED
    BY <1>2, <2>3, <2>4, <2>5 DEF ResultTypes
<1> QED
  BY <1>1, <1>2 DEF Track

-----------------------------------------------------------------------------
\* What the types say of the variables the steps below change.
LEMMA Types ==
    ASSUME TypeOK
    PROVE  /\ ring \in Seq(Byte) /\ chunk \in Seq(Byte) /\ asm \in Seq(Byte)
           /\ frames \in 0 .. MaxFrames /\ position \in 0 .. FrameLen + 1
           /\ inflight \in 0 .. frames /\ ResultTypes
  BY DEF TypeOK, ResultTypes

\* Before the first byte nothing is held, sent or answered.
LEMMA IntakeInit_Inv ==
    ASSUME Init PROVE IntakeInv
<1>1. TypeOK
  <2>1. /\ frames \in 0 .. MaxFrames /\ position \in 0 .. FrameLen + 1
        /\ inflight \in 0 .. frames
    BY DEF Init
  <2>2. /\ {ring, chunk, asm} \subseteq Seq(Byte) /\ events \in Seq({"data", "gap"})
        /\ Len(ring) <= RingBytes /\ Len(chunk) <= ChunkBytes /\ Len(events) <= EventDepth
    BY DEF Init
  <2>3. {accepted, final} \subseteq [Frame -> Nat]
    BY DEF Init
  <2>4. /\ again = FALSE /\ expired = FALSE /\ spoilt = {} /\ cut = {}
        /\ turn = "interrupts"
    BY DEF Init
  <2>5. again \in BOOLEAN /\ expired \in BOOLEAN
    BY <2>4
  <2> QED
    BY <2>1, <2>2, <2>3, <2>4, <2>5 DEF TypeOK
<1>2. StreamInv
  BY EmptyHolds DEF Init, StreamInv, Apart
<1>3. \A f \in Frame : Fresh(f) /\ f # 0
  BY DEF Init, Fresh, Frame
<1>4. HeldInv
  BY EmptyHolds DEF Init, HeldInv, Held
<1>5. FreshInv
  BY <1>3 DEF FreshInv
<1>6. OneResultEach
  BY <1>3 DEF Init, OneResultEach, Fresh
<1>7. LineInv
  BY DEF Init, LineInv
<1> QED
  BY <1>1, <1>2, <1>4, <1>5, <1>6, <1>7 DEF IntakeInv

\* A step that sends nothing, answers nothing and at most abandons what is assembled.
LEMMA QuietStep ==
    ASSUME IntakeInv, asm' = asm \/ asm' = <<>>, chunk' = chunk, ring' = ring,
           frames' = frames, position' = position,
           accepted' = accepted, final' = final, inflight' = inflight
    PROVE  LineInv' /\ StreamInv' /\ HeldInv' /\ FreshInv' /\ OneResultEach'
<1>1. LineInv /\ StreamInv /\ HeldInv /\ FreshInv /\ OneResultEach
  BY DEF IntakeInv
<1>2. StreamInv'
  BY <1>1, EmptyHolds DEF StreamInv, Apart
<1>3. \A f \in Frame : (Held(f)' => Held(f)) /\ (Fresh(f)' <=> Fresh(f)) /\ (Sent(f)' <=> Sent(f))
  BY EmptyHolds DEF Held, Fresh, Sent, OnTheLine
<1>4. HeldInv' /\ FreshInv'
  BY <1>1, <1>3 DEF HeldInv, FreshInv
<1>5. OneResultEach'
  BY <1>1 DEF OneResultEach
<1>6. LineInv'
  BY <1>1 DEF LineInv
<1> QED
  BY <1>2, <1>4, <1>5, <1>6

\* The steps of the loop and the clock that move no byte and answer no command.
LEMMA QuietSteps ==
    ASSUME IntakeInv,
           TakeEvent \/ EventsTaken \/ CommsDone \/ ReadDone \/ AssembleDone \/ BudgetElapses
    PROVE  IntakeInv'
<1>1. TypeOK
  BY DEF IntakeInv
<1>2. CASE TakeEvent
  <2>1. /\ asm' = asm \/ asm' = <<>>
        /\ chunk' = chunk /\ ring' = ring /\ frames' = frames /\ position' = position
        /\ accepted' = accepted /\ final' = final /\ inflight' = inflight
    BY <1>2 DEF TakeEvent, cmdVars
  <2>2. {b.frame : b \in ToSet(asm)} \subseteq Frame
    <3>1. asm \in Seq(Byte)
      BY <1>1, Types
    <3>2. ASSUME NEW b \in ToSet(asm)
          PROVE  b.frame \in Frame
      <4>1. PICK i \in DOMAIN asm : b = asm[i]
        BY DEF ToSet
      <4>2. b \in Byte
        BY <3>1, <4>1
      <4> QED
        BY <4>2 DEF Byte
    <3> QED
      BY <3>2
  <2>3. events' \in Seq({"data", "gap"}) /\ Len(events') <= EventDepth
    BY <1>1, <1>2 DEF TypeOK, TakeEvent
  <2>4. cut' \subseteq Frame /\ asm' \in Seq(Byte)
    <3>1. cut \subseteq Frame /\ asm \in Seq(Byte) /\ <<>> \in Seq(Byte)
      BY <1>1 DEF TypeOK
    <3>2. \/ asm' = <<>> /\ cut' = cut \cup {b.frame : b \in ToSet(asm)}
          \/ asm' = asm /\ cut' = cut
      BY <1>2 DEF TakeEvent
    <3> QED
      BY <2>2, <3>1, <3>2
  <2>5. TypeOK'
    BY <1>1, <1>2, <2>1, <2>3, <2>4 DEF TypeOK, TakeEvent, cmdVars
  <2> QED
    BY <2>1, <2>5, QuietStep DEF IntakeInv
<1>3. CASE EventsTaken \/ CommsDone \/ ReadDone \/ AssembleDone
  <2>1. /\ asm' = asm /\ chunk' = chunk /\ ring' = ring /\ frames' = frames
        /\ position' = position /\ events' = events /\ spoilt' = spoilt /\ cut' = cut
        /\ accepted' = accepted /\ final' = final /\ inflight' = inflight
        /\ expired' = expired
    BY <1>3 DEF EventsTaken, CommsDone, ReadDone, AssembleDone, uartVars, cmdVars
  <2>2. turn' \in {"interrupts", "comms", "track", "read", "bytes"}
    BY <1>3 DEF EventsTaken, CommsDone, ReadDone, AssembleDone
  <2>3. again' \in BOOLEAN
    <3>1. again \in BOOLEAN
      BY <1>1 DEF TypeOK
    <3>2. again' = again \/ again' = (Len(chunk) = ChunkBytes)
      BY <1>3 DEF EventsTaken, CommsDone, ReadDone, AssembleDone
    <3>3. (Len(chunk) = ChunkBytes) \in BOOLEAN
      OBVIOUS
    <3> QED
      BY <3>1, <3>2, <3>3
  <2>4. TypeOK'
    BY <1>1, <2>1, <2>2, <2>3 DEF TypeOK
  <2> QED
    BY <2>1, <2>4, QuietStep DEF IntakeInv
<1>4. CASE BudgetElapses
  <2>1. /\ asm' = asm /\ chunk' = chunk /\ ring' = ring /\ frames' = frames
        /\ position' = position /\ events' = events /\ spoilt' = spoilt /\ cut' = cut
        /\ accepted' = accepted /\ final' = final /\ inflight' = inflight
        /\ turn' = turn /\ again' = again /\ expired' = TRUE
    BY <1>4 DEF BudgetElapses, uartVars, asmVars
  <2>2. TypeOK'
    BY <1>1, <2>1 DEF TypeOK
  <2> QED
    BY <2>1, <2>2, QuietStep DEF IntakeInv
<1> QED
  BY <1>2, <1>3, <1>4

-----------------------------------------------------------------------------
\* What was sent stays sent; a byte that enters the ring completes, if any, the frame
\* that it makes a sent one.
LEMMA LineStep ==
    ASSUME IntakeInv, asm' = asm, chunk' = chunk,
           accepted' = accepted, final' = final, inflight' = inflight,
           \A f \in Frame : Sent(f) => Sent(f)',
           \/ ring' = ring
           \/ \E b \in Byte :
                  /\ ring' = Append(ring, b)
                  /\ \A f \in Frame : IsLast(b, f) => ~Sent(f) /\ Sent(f)'
    PROVE  StreamInv' /\ HeldInv' /\ FreshInv' /\ OneResultEach'
<1>1. TypeOK /\ StreamInv /\ HeldInv /\ FreshInv /\ OneResultEach
  BY DEF IntakeInv
<1>2. ring \in Seq(Byte)
  BY <1>1, Types
<1>3. \A f \in Frame : Fresh(f)' <=> Fresh(f)
  BY DEF Fresh
<1>4. FreshInv'
  BY <1>1, <1>3 DEF FreshInv
<1>5. OneResultEach'
  BY <1>1 DEF OneResultEach
<1>6. CASE ring' = ring
  <2>1. StreamInv' /\ \A f \in Frame : Held(f)' => Held(f)
    BY <1>1, <1>6 DEF StreamInv, Held
  <2>2. HeldInv'
    BY <1>1, <1>3, <2>1 DEF HeldInv
  <2> QED
    BY <1>4, <1>5, <2>1, <2>2
<1>7. ASSUME NEW b \in Byte, ring' = Append(ring, b),
             \A f \in Frame : IsLast(b, f) => ~Sent(f) /\ Sent(f)'
      PROVE  StreamInv' /\ HeldInv'
  <2>1. \A f \in Frame : Completes(ring', f) <=> Completes(ring, f) \/ IsLast(b, f)
    BY <1>2, <1>7, AppendCompletes
  <2>2. \A f \in Frame : IsLast(b, f) => ~Held(f) /\ Fresh(f)
    BY <1>1, <1>7 DEF HeldInv, FreshInv
  <2>3. Once(ring')
    BY <1>1, <1>2, <1>7, <2>2, AppendOnce DEF Held, StreamInv, Apart
  <2>4. StreamInv'
    BY <1>1, <2>1, <2>2, <2>3 DEF StreamInv, Apart, Held
  <2>5. \A f \in Frame : Held(f)' => Held(f) \/ IsLast(b, f)
    BY <2>1 DEF Held
  <2>6. HeldInv'
    BY <1>1, <1>3, <1>7, <2>2, <2>5 DEF HeldInv
  <2> QED
    BY <2>4, <2>6
<1> QED
  BY <1>4, <1>5, <1>6, <1>7

\* The steps of the line and of the interrupt: only a frame whose last byte was not
\* yet sent is completed by what enters the ring.
LEMMA LineSteps ==
    ASSUME IntakeInv, Line
    PROVE  IntakeInv'
<1>1. TypeOK
  BY DEF IntakeInv
<1>2. /\ frames \in 0 .. MaxFrames /\ position \in 0 .. FrameLen + 1
      /\ inflight \in 0 .. frames /\ ring \in Seq(Byte) /\ Len(ring) <= RingBytes
      /\ events \in Seq({"data", "gap"}) /\ Len(events) <= EventDepth
      /\ spoilt \subseteq Frame /\ FrameLen \in Nat /\ FrameLen > 1
      /\ MaxFrames \in Nat /\ EventDepth \in Nat
  BY <1>1 DEF TypeOK
<1>8. position <= FrameLen => frames > 0
  BY DEF IntakeInv, LineInv
<1>3. ASSUME asm' = asm, chunk' = chunk, turn' = turn, again' = again, cut' = cut,
             accepted' = accepted, final' = final, inflight' = inflight, expired' = expired,
             frames' \in 0 .. MaxFrames, frames' >= frames, position' \in 0 .. FrameLen + 1,
             ring' \in Seq(Byte), Len(ring') <= RingBytes,
             events' \in Seq({"data", "gap"}), Len(events') <= EventDepth,
             spoilt' \subseteq Frame
      PROVE  TypeOK'
  <2>1. inflight' \in 0 .. frames'
    BY <1>2, <1>3
  <2> QED
    BY <1>1, <1>3, <2>1 DEF TypeOK
<1>4. ASSUME NEW kind \in {"data", "gap"}, Publish(kind)
      PROVE  events' \in Seq({"data", "gap"}) /\ Len(events') <= EventDepth
  BY <1>2, <1>4 DEF Publish
<1>5. CASE BeginFrame
  <2>1. /\ asm' = asm /\ chunk' = chunk /\ turn' = turn /\ again' = again /\ cut' = cut
        /\ accepted' = accepted /\ final' = final /\ inflight' = inflight
        /\ expired' = expired /\ frames' = frames + 1 /\ position' = 0 /\ ring' = ring
        /\ events' = events /\ spoilt' = spoilt /\ frames < MaxFrames
    BY <1>5 DEF BeginFrame, RoomForFrame, asmVars, cmdVars
  <2>2. \A f \in Frame : Sent(f) => Sent(f)'
    BY <1>2, <2>1 DEF Sent, OnTheLine, Frame
  <2>3. TypeOK'
    BY <1>2, <1>3, <2>1
  <2>4. LineInv'
    BY <1>2, <2>1 DEF LineInv
  <2> QED
    BY <2>1, <2>2, <2>3, <2>4, LineStep DEF IntakeInv
<1>6. CASE LoseByte \/ IdleGap
  <2>1. /\ asm' = asm /\ chunk' = chunk /\ turn' = turn /\ again' = again /\ cut' = cut
        /\ accepted' = accepted /\ final' = final /\ inflight' = inflight
        /\ expired' = expired /\ frames' = frames /\ ring' = ring
    BY <1>6 DEF LoseByte, IdleGap, asmVars, cmdVars
  <2>2. position' = position + 1 /\ position <= FrameLen
    BY <1>2, <1>6 DEF LoseByte, IdleGap, OnTheLine
  <2>3. events' \in Seq({"data", "gap"}) /\ Len(events') <= EventDepth
    BY <1>2, <1>4, <1>6 DEF LoseByte, IdleGap
  <2>4. spoilt' \subseteq Frame
    <3>1. CASE IdleGap
      BY <1>2, <3>1 DEF IdleGap
    <3>2. CASE LoseByte
      <4>1. spoilt' = spoilt \cup {frames} /\ frames \in Frame
        BY <1>2, <1>8, <3>2 DEF LoseByte, OnTheLine, Frame
      <4> QED
        BY <1>2, <4>1
    <3> QED
      BY <1>6, <3>1, <3>2
  <2>5. \A f \in Frame : Sent(f) => Sent(f)'
    BY <1>2, <2>1, <2>2 DEF Sent, OnTheLine, Frame
  <2>6. position' \in 0 .. FrameLen + 1
    BY <1>2, <2>2
  <2>7. TypeOK'
    BY <1>2, <1>3, <2>1, <2>3, <2>4, <2>6
  <2>8. LineInv'
    BY <1>8, <1>2, <2>1, <2>2 DEF LineInv
  <2> QED
    BY <2>1, <2>5, <2>7, <2>8, LineStep DEF IntakeInv
<1>7. ASSUME NEW marker \in BOOLEAN, ReceiveByte(marker)
      PROVE  IntakeInv'
  <2> DEFINE b == [frame |-> frames, at |-> position + 1, marker |-> marker]
  <2>1. /\ asm' = asm /\ chunk' = chunk /\ turn' = turn /\ again' = again /\ cut' = cut
        /\ accepted' = accepted /\ final' = final /\ inflight' = inflight
        /\ expired' = expired /\ frames' = frames
    BY <1>7 DEF ReceiveByte, asmVars, cmdVars
  <2>2. position' = position + 1 /\ position < FrameLen /\ frames \in Frame
    BY <1>2, <1>8, <1>7 DEF ReceiveByte, OnTheLine, Frame
  <2>3. events' \in Seq({"data", "gap"}) /\ Len(events') <= EventDepth
    BY <1>4, <1>7 DEF ReceiveByte
  <2>4. position + 1 \in 1 .. FrameLen /\ position' \in 0 .. FrameLen + 1
    BY <1>2, <2>2
  <2>5. b \in Byte /\ b.frame = frames /\ b.at = position + 1
    BY <2>2, <2>4 DEF Byte
  <2> HIDE DEF b
  <2>6. \/ ring' = ring /\ spoilt' = spoilt \cup {frames}
        \/ ring' = Append(ring, b) /\ Len(ring) < RingBytes /\ spoilt' = spoilt
    BY <1>7 DEF ReceiveByte, RingHasRoom, b
  <2>7. spoilt' \subseteq Frame
    BY <1>2, <2>2, <2>6
  <2>8. ring' \in Seq(Byte) /\ Len(ring') <= RingBytes
    <3>1. /\ ring \in Seq(Byte) /\ Len(ring) \in Nat /\ Len(ring) <= RingBytes
          /\ RingBytes \in Nat
      BY <1>2, RingAssumption
    <3>2. Append(ring, b) \in Seq(Byte) /\ Len(Append(ring, b)) = Len(ring) + 1
      BY <2>5, <3>1, AppendHolds
    <3>3. CASE ring' = ring
      BY <3>1, <3>3
    <3>4. CASE ring' = Append(ring, b) /\ Len(ring) < RingBytes
      <4>1. Len(ring') = Len(ring) + 1
        BY <3>2, <3>4
      <4> QED
        BY <3>1, <3>2, <3>4, <4>1
    <3> QED
      BY <2>6, <3>3, <3>4
  <2>9. TypeOK'
    BY <1>2, <1>3, <2>1, <2>3, <2>4, <2>7, <2>8
  <2>10. \A f \in Frame : Sent(f) => Sent(f)'
    BY <1>2, <2>1, <2>2 DEF Sent, OnTheLine, Frame
  <2>11. \A f \in Frame : IsLast(b, f) => ~Sent(f) /\ Sent(f)'
    BY <1>2, <2>1, <2>2, <2>5 DEF IsLast, Sent, OnTheLine, Frame
  <2>12. LineInv'
    BY <1>8, <1>2, <2>1, <2>2 DEF LineInv
  <2> QED
    BY <2>1, <2>5, <2>6, <2>9, <2>10, <2>11, <2>12, LineStep DEF IntakeInv
<1> QED
  BY <1>5, <1>6, <1>7 DEF Line

-----------------------------------------------------------------------------
\* A command inside a packet takes the next number, which nothing was sent under.
LEMMA SubmitStep ==
    ASSUME IntakeInv, frames < MaxFrames, ~OnTheLine, frames' = frames + 1,
           position' = position, ring' = ring, events' = events, spoilt' = spoilt,
           chunk' = chunk, again' = again, asm' = asm, cut' = cut, turn' = "track",
           Process(frames + 1)
    PROVE  IntakeInv'
<1>1. TypeOK /\ LineInv /\ StreamInv /\ HeldInv /\ FreshInv /\ OneResultEach
  BY DEF IntakeInv
<1>2. /\ frames \in 0 .. MaxFrames /\ MaxFrames \in Nat /\ inflight \in 0 .. frames
      /\ ResultTypes
  BY <1>1, Types
<1>3. frames + 1 \in Frame /\ ~Sent(frames + 1)
  BY <1>2 DEF Frame, Sent
<1>4. Fresh(frames + 1)
  BY <1>1, <1>3 DEF FreshInv
<1>5. /\ OneResultEach' /\ ResultTypes' /\ inflight' \in {inflight, frames + 1}
      /\ expired' \in {expired, FALSE}
      /\ \A g \in Frame \ {frames + 1} : Fresh(g) => Fresh(g)'
  BY <1>1, <1>2, <1>3, <1>4, ProcessKeeps
<1>6. TypeOK'
  <2>1. frames' \in 0 .. MaxFrames /\ inflight' \in 0 .. frames'
    BY <1>2, <1>5
  <2>2. expired' \in BOOLEAN
    BY <1>1, <1>5 DEF TypeOK
  <2> QED
    BY <1>1, <1>5, <2>1, <2>2 DEF TypeOK, ResultTypes
<1>7. StreamInv' /\ \A f \in Frame : Held(f)' => Held(f)
  BY <1>1 DEF StreamInv, Held
<1>8. \A f \in Frame : Sent(f)' <=> Sent(f) \/ f = frames + 1
  BY <1>2 DEF Sent, OnTheLine, Frame
<1>9. HeldInv' /\ FreshInv'
  BY <1>1, <1>3, <1>5, <1>7, <1>8 DEF HeldInv, FreshInv
<1>10. LineInv'
  BY <1>1, <1>2 DEF LineInv
<1> QED
  BY <1>5, <1>6, <1>7, <1>9, <1>10 DEF IntakeInv

\* A packet is submitted as a command or refused.
LEMMA PacketSteps ==
    ASSUME IntakeInv, ReceivePacket
    PROVE  IntakeInv'
<1>1. /\ position' = position /\ ring' = ring /\ events' = events /\ spoilt' = spoilt
      /\ chunk' = chunk /\ again' = again /\ asm' = asm /\ cut' = cut
  BY DEF ReceivePacket
<1>2. CASE SubmitFromPacket
  <2>1. /\ ~OnTheLine /\ frames < MaxFrames /\ frames' = frames + 1 /\ turn' = "track"
        /\ Process(frames + 1)
    BY <1>2 DEF SubmitFromPacket, RoomForFrame
  <2> QED
    BY <1>1, <2>1, SubmitStep
<1>3. CASE RefusePacket
  <2>1. /\ frames' = frames /\ accepted' = accepted /\ final' = final
        /\ inflight' = inflight /\ expired' = expired /\ turn' \in {"comms", "track"}
    BY <1>3 DEF RefusePacket, cmdVars
  <2>2. TypeOK'
    BY <1>1, <2>1 DEF IntakeInv, TypeOK
  <2> QED
    BY <1>1, <2>1, <2>2, QuietStep DEF IntakeInv
<1> QED
  BY <1>2, <1>3 DEF ReceivePacket

\* track() answers the command in flight, which is no frame held anywhere.
LEMMA TrackStep ==
    ASSUME IntakeInv, Track
    PROVE  IntakeInv'
<1>1. TypeOK /\ LineInv /\ StreamInv /\ HeldInv /\ FreshInv /\ OneResultEach
  BY DEF IntakeInv
<1>2. frames \in 0 .. MaxFrames /\ inflight \in 0 .. frames /\ ResultTypes
  BY <1>1, Types
<1>3. /\ OneResultEach' /\ ResultTypes' /\ inflight' \in {inflight, 0}
      /\ expired' = expired /\ \A g \in Frame : Fresh(g) => Fresh(g)'
  BY <1>1, <1>2, TrackKeeps
<1>4. /\ frames' = frames /\ position' = position /\ ring' = ring /\ events' = events
      /\ spoilt' = spoilt /\ chunk' = chunk /\ again' = again /\ asm' = asm /\ cut' = cut
      /\ turn' = "read"
  BY DEF Track, uartVars
<1>5. TypeOK'
  <2>1. inflight' \in 0 .. frames'
    BY <1>2, <1>3, <1>4
  <2> QED
    BY <1>1, <1>3, <1>4, <2>1 DEF TypeOK, ResultTypes
<1>6. /\ StreamInv' /\ LineInv'
      /\ \A f \in Frame : (Held(f)' => Held(f)) /\ (Sent(f)' <=> Sent(f))
  BY <1>1, <1>4 DEF StreamInv, LineInv, Held, Sent, OnTheLine
<1>7. HeldInv' /\ FreshInv'
  BY <1>1, <1>3, <1>6 DEF HeldInv, FreshInv
<1> QED
  BY <1>3, <1>5, <1>6, <1>7 DEF IntakeInv

-----------------------------------------------------------------------------
\* A byte moves from the ring to the chunk, and is held once as before.
LEMMA ReadStep ==
    ASSUME IntakeInv, ReadByte
    PROVE  IntakeInv'
<1>1. TypeOK /\ LineInv /\ StreamInv /\ HeldInv /\ FreshInv /\ OneResultEach
  BY DEF IntakeInv
<1>2. /\ ring \in Seq(Byte) /\ chunk \in Seq(Byte) /\ ring # <<>>
      /\ Len(chunk) < ChunkBytes /\ Len(ring) <= RingBytes
      /\ chunk' = Append(chunk, Head(ring)) /\ ring' = Tail(ring)
  BY <1>1 DEF ReadByte, TypeOK
<1>3. /\ frames' = frames /\ position' = position /\ events' = events /\ spoilt' = spoilt
      /\ turn' = turn /\ again' = again /\ asm' = asm /\ cut' = cut
      /\ inflight' = inflight /\ expired' = expired /\ accepted' = accepted /\ final' = final
  BY DEF ReadByte, cmdVars
<1>4. /\ Head(ring) \in Byte /\ ring' \in Seq(Byte) /\ chunk' \in Seq(Byte)
      /\ Len(ring') = Len(ring) - 1 /\ Len(chunk') = Len(chunk) + 1
  BY <1>2, TailHolds, AppendHolds
<1>5. Len(ring') <= RingBytes /\ Len(chunk') <= ChunkBytes
  BY <1>2, <1>4
<1>6. TypeOK'
  BY <1>1, <1>3, <1>4, <1>5 DEF TypeOK
<1>7. Once(ring) /\ Once(chunk) /\ Once(asm)
  BY <1>1 DEF StreamInv, Apart
<1>8. \A f \in Frame : /\ Completes(ring', f) => Completes(ring, f)
                       /\ IsLast(Head(ring), f) => Completes(ring, f) /\ ~Completes(ring', f)
                       /\ Completes(chunk', f) <=> Completes(chunk, f) \/ IsLast(Head(ring), f)
  BY <1>2, <1>4, <1>7, TailCompletes, AppendCompletes
<1>9. Once(ring')
  BY <1>2, <1>7, TailOnce
<1>10. Once(chunk')
  BY <1>1, <1>2, <1>4, <1>7, <1>8, AppendOnce DEF StreamInv, Apart
<1>11. StreamInv'
  BY <1>1, <1>3, <1>8, <1>9, <1>10 DEF StreamInv, Apart
<1>12. \A f \in Frame : (Held(f)' => Held(f)) /\ (Fresh(f)' <=> Fresh(f)) /\ (Sent(f)' <=> Sent(f))
  BY <1>3, <1>8 DEF Held, Fresh, Sent, OnTheLine
<1>13. HeldInv' /\ FreshInv'
  BY <1>1, <1>12 DEF HeldInv, FreshInv
<1>14. LineInv' /\ OneResultEach'
  BY <1>1, <1>3 DEF LineInv, OneResultEach
<1> QED
  BY <1>6, <1>11, <1>13, <1>14 DEF IntakeInv

\* A set of positions that is not empty has a least one.
LEMMA LeastExists ==
    ASSUME NEW S \in SUBSET Nat, S # {}
    PROVE  Min(S) \in S /\ \A y \in S : Min(S) <= y
<1> DEFINE R == OpToRel(<, Nat)
<1>1. IsWellFoundedOn(R, Nat)
  BY NatLessThanWellFounded
<1>2. PICK x \in S : \A y \in S : ~(<<y, x>> \in R)
  <2> HIDE DEF R
  <2> QED
    BY <1>1, WFMin
<1>3. \A y \in S : ~(y < x)
  BY <1>2 DEF OpToRel
<1>4. \E z \in S : \A y \in S : z <= y
  BY <1>3
<1> QED
  BY <1>4 DEF Min

\* What resync() keeps is shorter than what it was given, and was part of it.
LEMMA ResyncHolds ==
    ASSUME NEW bytes \in Seq(Byte), bytes # <<>>, Once(bytes)
    PROVE  /\ Resync(bytes) \in Seq(Byte) /\ Len(Resync(bytes)) < Len(bytes)
           /\ Once(Resync(bytes))
           /\ \A f \in Frame : Completes(Resync(bytes), f) => Completes(bytes, f)
<1>1. Len(bytes) \in Nat /\ Len(bytes) > 0
  BY TailHolds
<1>2. CASE Markers(bytes) = {}
  BY <1>1, <1>2, EmptyHolds DEF Resync
<1>3. CASE Markers(bytes) # {}
  <2> DEFINE k == Min(Markers(bytes))
  <2>1. Markers(bytes) \subseteq 2 .. Len(bytes)
    BY DEF Markers
  <2>2. k \in 2 .. Len(bytes)
    BY <1>1, <1>3, <2>1, LeastExists
  <2> HIDE DEF k
  <2>3. k \in 1 .. Len(bytes) /\ Len(bytes) - k + 1 < Len(bytes)
    BY <1>1, <2>2
  <2>4. Resync(bytes) = SubSeq(bytes, k, Len(bytes))
    BY <1>3 DEF Resync, k
  <2> QED
    BY <2>3, <2>4, SuffixHolds
<1> QED
  BY <1>2, <1>3

-----------------------------------------------------------------------------
\* The byte at the head of the chunk is dropped, kept or made to complete a frame,
\* and nothing else is answered.
LEMMA AssembleQuiet ==
    ASSUME IntakeInv, turn = "bytes", chunk # <<>>, chunk' = Tail(chunk),
           UNCHANGED <<uartVars, turn, again, cut, cmdVars>>,
           asm' \in Seq(Byte), Len(asm') < FrameLen, Once(asm'),
           \A f \in Frame : Completes(asm', f) => Completes(asm, f) \/ IsLast(Head(chunk), f)
    PROVE  IntakeInv'
<1>1. TypeOK /\ LineInv /\ StreamInv /\ HeldInv /\ FreshInv /\ OneResultEach
  BY DEF IntakeInv
<1>2. chunk \in Seq(Byte) /\ Len(chunk) <= ChunkBytes
  BY <1>1 DEF TypeOK
<1>3. /\ frames' = frames /\ position' = position /\ events' = events /\ spoilt' = spoilt
      /\ ring' = ring /\ turn' = turn /\ again' = again /\ cut' = cut
      /\ inflight' = inflight /\ expired' = expired /\ accepted' = accepted /\ final' = final
  BY DEF uartVars, cmdVars
<1>4. chunk' \in Seq(Byte) /\ Len(chunk') = Len(chunk) - 1
  BY <1>2, TailHolds
<1>5. Len(chunk') <= ChunkBytes
  BY <1>2, <1>4
<1>6. TypeOK'
  BY <1>1, <1>3, <1>4, <1>5 DEF TypeOK
<1>7. Once(chunk)
  BY <1>1 DEF StreamInv, Apart
<1>8. \A f \in Frame : /\ Completes(chunk', f) => Completes(chunk, f)
                       /\ IsLast(Head(chunk), f) => Completes(chunk, f) /\ ~Completes(chunk', f)
  BY <1>2, <1>7, TailCompletes
<1>9. Once(chunk')
  BY <1>2, <1>7, TailOnce
<1>10. StreamInv'
  BY <1>1, <1>3, <1>8, <1>9 DEF StreamInv, Apart
<1>11. \A f \in Frame : (Held(f)' => Held(f)) /\ (Fresh(f)' <=> Fresh(f)) /\ (Sent(f)' <=> Sent(f))
  BY <1>3, <1>8 DEF Held, Fresh, Sent, OnTheLine
<1>12. HeldInv' /\ FreshInv'
  BY <1>1, <1>11 DEF HeldInv, FreshInv
<1>13. LineInv' /\ OneResultEach'
  BY <1>1, <1>3 DEF LineInv, OneResultEach
<1> QED
  BY <1>6, <1>10, <1>12, <1>13 DEF IntakeInv

\* The byte at the head of the chunk completes a frame: it is the last of it held
\* anywhere, so the frame had no result, and once answered nothing completes it again.
LEMMA AssembleWhole ==
    ASSUME IntakeInv, turn = "bytes", chunk # <<>>, chunk' = Tail(chunk), asm' = <<>>,
           UNCHANGED <<uartVars, turn, again, cut>>,
           NEW f \in Frame, IsLast(Head(chunk), f), Process(f)
    PROVE  IntakeInv'
<1>1. TypeOK /\ LineInv /\ StreamInv /\ HeldInv /\ FreshInv /\ OneResultEach
  BY DEF IntakeInv
<1>2. /\ chunk \in Seq(Byte) /\ Len(chunk) <= ChunkBytes /\ ResultTypes
      /\ frames \in 0 .. MaxFrames /\ inflight \in 0 .. frames
  BY <1>1, Types DEF TypeOK
<1>3. /\ frames' = frames /\ position' = position /\ events' = events /\ spoilt' = spoilt
      /\ ring' = ring /\ turn' = turn /\ again' = again /\ cut' = cut
  BY DEF uartVars
<1>4. chunk' \in Seq(Byte) /\ Len(chunk') = Len(chunk) - 1
  BY <1>2, TailHolds
<1>5. Len(chunk') <= ChunkBytes
  BY <1>2, <1>4
<1>6. Once(chunk) /\ Once(chunk')
  BY <1>1, <1>2, TailOnce DEF StreamInv, Apart
<1>7. /\ \A g \in Frame : Completes(chunk', g) => Completes(chunk, g)
      /\ Completes(chunk, f) /\ ~Completes(chunk', f)
  BY <1>2, <1>6, TailCompletes
<1>8. Fresh(f) /\ Sent(f)
  BY <1>1, <1>7 DEF HeldInv, Held
<1>9. /\ OneResultEach' /\ ResultTypes' /\ inflight' \in {inflight, f}
      /\ expired' \in {expired, FALSE}
      /\ \A g \in Frame \ {f} : Fresh(g) => Fresh(g)'
  BY <1>1, <1>2, <1>8, ProcessKeeps
<1>10. TypeOK'
  <2>1. f \in 0 .. frames
    BY <1>2, <1>8 DEF Sent, Frame
  <2>2. inflight' \in 0 .. frames'
    BY <1>2, <1>3, <1>9, <2>1
  <2>3. expired' \in BOOLEAN
    BY <1>1, <1>9 DEF TypeOK
  <2>4. asm' \in Seq(Byte)
    BY EmptyHolds
  <2> QED
    BY <1>1, <1>3, <1>4, <1>5, <1>9, <2>2, <2>3, <2>4 DEF TypeOK, ResultTypes
<1>11. StreamInv'
  <2>1. Len(asm') < FrameLen /\ Once(asm') /\ \A g \in Frame : ~Completes(asm', g)
    BY EmptyHolds
  <2> QED
    BY <1>1, <1>3, <1>6, <1>7, <2>1 DEF StreamInv, Apart
<1>12. \A g \in Frame : Held(g)' => Held(g) /\ g # f
  <2>1. ~Completes(ring, f)
    BY <1>1, <1>7 DEF StreamInv, Apart
  <2> QED
    BY <1>3, <1>7, <2>1, EmptyHolds DEF Held
<1>13. \A g \in Frame : Sent(g)' <=> Sent(g)
  BY <1>3 DEF Sent, OnTheLine
<1>14. HeldInv'
  BY <1>1, <1>9, <1>12, <1>13 DEF HeldInv
<1>15. FreshInv'
  BY <1>1, <1>8, <1>9, <1>13 DEF FreshInv
<1>16. LineInv'
  BY <1>1, <1>3 DEF LineInv
<1> QED
  BY <1>9, <1>10, <1>11, <1>14, <1>15, <1>16 DEF IntakeInv

\* One byte of the chunk, whatever becomes of it.
LEMMA AssembleStep ==
    ASSUME IntakeInv, AssembleByte
    PROVE  IntakeInv'
<1> DEFINE bytes == Append(asm, Head(chunk))
<1>1. TypeOK /\ StreamInv
  BY DEF IntakeInv
<1>2. /\ asm \in Seq(Byte) /\ chunk \in Seq(Byte) /\ chunk # <<>> /\ turn = "bytes"
      /\ chunk' = Tail(chunk) /\ UNCHANGED <<uartVars, turn, again, cut>>
  BY <1>1, Types DEF AssembleByte
<1>3. Head(chunk) \in Byte /\ bytes \in Seq(Byte) /\ Len(bytes) = Len(asm) + 1
      /\ bytes[Len(asm) + 1] = Head(chunk) /\ Len(asm) \in Nat
  BY <1>2, TailHolds, AppendHolds
<1>4. Once(asm) /\ Once(chunk) /\ Len(asm) < FrameLen
  BY <1>1 DEF StreamInv, Apart
<1>5. \A f \in Frame : Completes(bytes, f) <=> Completes(asm, f) \/ IsLast(Head(chunk), f)
  BY <1>2, <1>3, AppendCompletes
<1>6. Once(bytes)
  <2>1. \A f \in Frame : IsLast(Head(chunk), f) => ~Completes(asm, f)
    BY <1>1, <1>2, <1>4, TailCompletes DEF StreamInv, Apart
  <2> QED
    BY <1>2, <1>3, <1>4, <2>1, AppendOnce
<1> HIDE DEF bytes
<1>7. CASE asm' = asm /\ UNCHANGED cmdVars
  BY <1>2, <1>4, <1>7, AssembleQuiet
<1>8. CASE Len(bytes) < FrameLen /\ asm' = bytes /\ UNCHANGED cmdVars
  BY <1>2, <1>3, <1>5, <1>6, <1>8, AssembleQuiet
<1>9. CASE /\ ~(Len(bytes) < FrameLen) /\ ChecksumHolds(bytes) /\ asm' = <<>>
           /\ Process(bytes[1].frame)
  <2>1. Len(bytes) = FrameLen /\ Len(asm) + 1 = FrameLen
    BY <1>3, <1>4, <1>9
  <2>2. bytes[1] \in Byte /\ FrameLen \in 1 .. FrameLen
    BY <1>3, <2>1
  <2>3. bytes[1].frame \in Frame
    BY <2>2 DEF Byte
  <2>4. IsLast(Head(chunk), bytes[1].frame)
    BY <1>3, <1>9, <2>1, <2>2 DEF ChecksumHolds, IsLast
  <2> QED
    BY <1>2, <1>9, <2>3, <2>4, AssembleWhole
<1>10. CASE /\ ~(Len(bytes) < FrameLen) /\ asm' = Resync(bytes) /\ UNCHANGED cmdVars
  <2>1. bytes # <<>>
    BY <1>3
  <2>2. /\ asm' \in Seq(Byte) /\ Len(asm') < Len(bytes) /\ Once(asm')
        /\ \A f \in Frame : Completes(asm', f) => Completes(bytes, f)
    BY <1>3, <1>6, <1>10, <2>1, ResyncHolds
  <2>3. Len(asm') < FrameLen
    BY <1>3, <1>4, <2>2
  <2> QED
    BY <1>2, <1>5, <1>10, <2>2, <2>3, AssembleQuiet
<1> QED
  BY <1>7, <1>8, <1>9, <1>10 DEF AssembleByte, bytes

-----------------------------------------------------------------------------
\* Whatever the loop, the clock, the line and the ground do, the invariant stays.
LEMMA IntakeStep_Inv ==
    ASSUME IntakeInv, [Next]_vars
    PROVE  IntakeInv'
<1>1. CASE ReceivePacket
  BY <1>1, PacketSteps
<1>2. CASE Bytes
  BY <1>2, QuietSteps, TrackStep, ReadStep, AssembleStep DEF Bytes
<1>3. CASE BudgetElapses
  BY <1>3, QuietSteps
<1>4. CASE Line
  BY <1>4, LineSteps
<1>5. CASE UNCHANGED vars
  <2>1. /\ frames' = frames /\ position' = position /\ ring' = ring /\ events' = events
        /\ spoilt' = spoilt /\ turn' = turn /\ chunk' = chunk /\ again' = again
        /\ asm' = asm /\ cut' = cut /\ inflight' = inflight /\ expired' = expired
        /\ accepted' = accepted /\ final' = final
    BY <1>5 DEF vars, uartVars, asmVars, cmdVars
  <2>2. TypeOK'
    BY <2>1 DEF IntakeInv, TypeOK
  <2> QED
    BY <2>1, <2>2, QuietStep DEF IntakeInv
<1> QED
  BY <1>1, <1>2, <1>3, <1>4, <1>5 DEF Next, Loop

\* A packet step of the intake is one of the packet layer alone, and no other step
\* touches its state.
LEMMA PacketLayerStep ==
    ASSUME [Next]_vars
    PROVE  [PacketNext]_packetVars
<1>1. CASE ReceivePacket
  BY <1>1 DEF ReceivePacket, SubmitFromPacket, RefusePacket, PacketNext
<1>2. CASE UNCHANGED packetVars
  BY <1>2
<1> QED
  BY <1>1, <1>2 DEF Next, Loop, BudgetElapses, vars

\* The types, the frames held, and the results, in every reachable state.
THEOREM IntakeInvariant == Spec => []IntakeInv
<1>1. Init => IntakeInv
  BY IntakeInit_Inv
<1>2. IntakeInv /\ [Next]_vars => IntakeInv'
  BY IntakeStep_Inv
<1> QED
  BY <1>1, <1>2, PTL DEF Spec

\* comm_cmd.c keeps every buffer, index and phase in its range.
THEOREM IntakeTypeCorrect == Spec => []TypeOK
<1>1. IntakeInv => TypeOK
  BY DEF IntakeInv
<1> QED
  BY <1>1, IntakeInvariant, PTL

\* A result always refers to an unambiguous command: process() and track() give a
\* command one final result and one acceptance at most, over either link.
THEOREM ResultsUnambiguous == Spec => []OneResultEach
<1>1. IntakeInv => OneResultEach
  BY DEF IntakeInv
<1> QED
  BY <1>1, IntakeInvariant, PTL

\* The intake, as far as the packets go, is the packet layer: composing the two
\* links changes nothing of what comm_ccsds_receive() does.
THEOREM PacketLayerUndisturbed == Spec => PacketSpec
<1>1. Init => PacketInit
  BY DEF Init
<1>2. [Next]_vars => [PacketNext]_packetVars
  BY PacketLayerStep
<1> QED
  BY <1>1, <1>2, PTL DEF Spec, PacketSpec

\* What the packet layer expects and has counted, in every reachable state.
THEOREM PacketInvariant == Spec => []PacketInv
<1>1. PacketInit => PacketInv
  BY PacketInit_Inv
<1>2. PacketInv /\ [PacketNext]_packetVars => PacketInv'
  BY PacketStep_Inv
<1> QED
  BY <1>1, <1>2, PacketLayerUndisturbed, PTL DEF PacketSpec

\* FW-40: while no header is damaged, the gaps comm_ccsds_receive() counts are the
\* runs of missing packets.
THEOREM GapsAreLosses == Spec => []OneGapPerLoss
<1>1. PacketInv => OneGapPerLoss
  BY PacketInv_Properties
<1> QED
  BY <1>1, PacketInvariant, PTL

\* A packet under a wrong count costs two false or hidden reports at most: adopting
\* the count ends the disturbance.
THEOREM DisturbancesEnd == Spec => []DisturbanceEnds
<1>1. PacketInv => DisturbanceEnds
  BY PacketInv_Properties
<1> QED
  BY <1>1, PacketInvariant, PTL

-----------------------------------------------------------------------------
\* Where the first byte of a frame is held.
Starts(s, f) == \E i \in 1 .. Len(s) : s[i].frame = f /\ s[i].at = 1

\* A byte after which anything may come: the last of its frame, or of a frame of
\* which bytes were lost.
Breaks(b, lost) == b.frame \in lost \/ b.at = FrameLen

\* Bytes follow each other in the order they were sent.
Contiguous(s, lost) ==
    \A i \in 1 .. Len(s) - 1 :
        Breaks(s[i], lost) \/ (s[i + 1].frame = s[i].frame /\ s[i + 1].at = s[i].at + 1)

\* The last of them is the one the line sent last: byte p of frame f.
OpenAt(s, lost, f, p) ==
    s # <<>> => Breaks(s[Len(s)], lost) \/ (s[Len(s)].frame = f /\ s[Len(s)].at = p)

Marked(s) == \A i \in 1 .. Len(s) : s[i].at = 1 => s[i].marker

\* t is what is left of s when bytes are dropped from its front.
Suffix(t, s) ==
    \E k \in 0 .. Len(s) :
        Len(t) = Len(s) - k /\ \A i \in 1 .. Len(t) : t[i] = s[i + k]

\* The bytes held, from the one received first.
Stream == (asm \o chunk) \o ring

StreamSound ==
    /\ Contiguous(Stream, spoilt)
    /\ OpenAt(Stream, spoilt, frames, position)
    /\ Marked(Stream)

Accounted(f) == ~Fresh(f) \/ f \in spoilt \/ f \in cut \/ Starts(Stream, f)

KeptInv == StreamSound /\ \A f \in Frame : Begun(f) => Accounted(f)

\* What is left when bytes are dropped from the front is as sound as all of them were.
LEMMA SuffixSound ==
    ASSUME NEW s \in Seq(Byte), NEW t \in Seq(Byte), Suffix(t, s), NEW lost, NEW f, NEW p
    PROVE  /\ Contiguous(s, lost) => Contiguous(t, lost)
           /\ OpenAt(s, lost, f, p) => OpenAt(t, lost, f, p)
           /\ Marked(s) => Marked(t)
<1>1. PICK k \in 0 .. Len(s) :
          Len(t) = Len(s) - k /\ \A i \in 1 .. Len(t) : t[i] = s[i + k]
  BY DEF Suffix
<1>2. Len(s) \in Nat /\ Len(t) \in Nat /\ k \in Nat
  OBVIOUS
<1>3. ASSUME Contiguous(s, lost), NEW i \in 1 .. Len(t) - 1
      PROVE  Breaks(t[i], lost) \/ (t[i + 1].frame = t[i].frame /\ t[i + 1].at = t[i].at + 1)
  <2>1. i + k \in 1 .. Len(s) - 1 /\ i \in 1 .. Len(t) /\ i + 1 \in 1 .. Len(t)
        /\ (i + 1) + k = (i + k) + 1
    BY <1>1, <1>2
  <2>2. t[i] = s[i + k] /\ t[i + 1] = s[(i + k) + 1]
    BY <1>1, <2>1
  <2>3. \/ Breaks(s[i + k], lost)
        \/ /\ s[(i + k) + 1].frame = s[i + k].frame
           /\ s[(i + k) + 1].at = s[i + k].at + 1
    BY <1>3, <2>1 DEF Contiguous
  <2> QED
    BY <2>2, <2>3
<1>4. ASSUME OpenAt(s, lost, f, p), t # <<>>
      PROVE  Breaks(t[Len(t)], lost) \/ (t[Len(t)].frame = f /\ t[Len(t)].at = p)
  <2>1. Len(t) > 0
    BY <1>4
  <2>2. Len(t) \in 1 .. Len(t) /\ Len(t) + k = Len(s) /\ Len(s) > 0
    BY <1>1, <1>2, <2>1
  <2>3. t[Len(t)] = s[Len(s)] /\ s # <<>>
    BY <1>1, <2>2
  <2> QED
    BY <1>4, <2>3 DEF OpenAt
<1>5. ASSUME Marked(s), NEW i \in 1 .. Len(t), t[i].at = 1
      PROVE  t[i].marker
  <2>1. i + k \in 1 .. Len(s) /\ t[i] = s[i + k]
    BY <1>1, <1>2
  <2> QED
    BY <1>5, <2>1 DEF Marked
<1> QED
  BY <1>3, <1>4, <1>5 DEF Contiguous, OpenAt, Marked

\* What follows the bytes dropped from stays behind what is left of them.
LEMMA SuffixConcat ==
    ASSUME NEW s \in Seq(Byte), NEW t \in Seq(Byte), NEW u \in Seq(Byte), Suffix(t, s)
    PROVE  Suffix(t \o u, s \o u)
<1>1. PICK k \in 0 .. Len(s) :
          Len(t) = Len(s) - k /\ \A i \in 1 .. Len(t) : t[i] = s[i + k]
  BY DEF Suffix
<1>2. Len(s) \in Nat /\ Len(t) \in Nat /\ Len(u) \in Nat /\ k \in Nat
  OBVIOUS
<1>3. /\ Len(s \o u) = Len(s) + Len(u) /\ Len(t \o u) = Len(t) + Len(u)
      /\ \A i \in 1 .. Len(s) + Len(u) :
             (s \o u)[i] = IF i <= Len(s) THEN s[i] ELSE u[i - Len(s)]
      /\ \A i \in 1 .. Len(t) + Len(u) :
             (t \o u)[i] = IF i <= Len(t) THEN t[i] ELSE u[i - Len(t)]
  BY ConcatProperties
<1>4. k \in 0 .. Len(s \o u) /\ Len(t \o u) = Len(s \o u) - k
  BY <1>1, <1>2, <1>3
<1>5. ASSUME NEW i \in 1 .. Len(t \o u)
      PROVE  (t \o u)[i] = (s \o u)[i + k]
  <2>1. i \in 1 .. Len(t) + Len(u) /\ i + k \in 1 .. Len(s) + Len(u)
    BY <1>1, <1>2, <1>3
  <2>2. CASE i <= Len(t)
    <3>1. i + k <= Len(s) /\ i \in 1 .. Len(t)
      BY <1>1, <1>2, <2>1, <2>2
    <3> QED
      BY <1>1, <1>3, <2>1, <2>2, <3>1
  <2>3. CASE ~(i <= Len(t))
    <3>1. ~(i + k <= Len(s)) /\ (i + k) - Len(s) = i - Len(t)
      BY <1>1, <1>2, <2>1, <2>3
    <3> QED
      BY <1>3, <2>1, <2>3, <3>1
  <2> QED
    BY <2>2, <2>3
<1> QED
  BY <1>4, <1>5 DEF Suffix

\* All of a sequence, and nothing of it, are left of it.
LEMMA SuffixEnds ==
    ASSUME NEW s \in Seq(Byte)
    PROVE  Suffix(s, s) /\ Suffix(<<>>, s)
<1>1. Len(s) \in Nat /\ 0 \in 0 .. Len(s) /\ Len(s) \in 0 .. Len(s)
  OBVIOUS
<1>2. Len(s) = Len(s) - 0 /\ \A i \in 1 .. Len(s) : s[i] = s[i + 0]
  BY <1>1
<1>3. Len(<<>>) = Len(s) - Len(s) /\ \A i \in 1 .. Len(<<>>) : <<>>[i] = s[i + Len(s)]
  BY <1>1
<1> QED
  BY <1>1, <1>2, <1>3 DEF Suffix

\* The first byte of a frame is held by one part or the other.
LEMMA ConcatStarts ==
    ASSUME NEW s \in Seq(Byte), NEW t \in Seq(Byte), NEW f
    PROVE  Starts(s \o t, f) <=> Starts(s, f) \/ Starts(t, f)
<1>1. /\ Len(s) \in Nat /\ Len(t) \in Nat /\ Len(s \o t) = Len(s) + Len(t)
      /\ \A i \in 1 .. Len(s) + Len(t) :
             (s \o t)[i] = IF i <= Len(s) THEN s[i] ELSE t[i - Len(s)]
  BY ConcatProperties
<1>2. ASSUME Starts(s \o t, f)
      PROVE  Starts(s, f) \/ Starts(t, f)
  <2>1. PICK i \in 1 .. Len(s) + Len(t) : (s \o t)[i].frame = f /\ (s \o t)[i].at = 1
    BY <1>1, <1>2 DEF Starts
  <2>2. CASE i <= Len(s)
    <3>1. i \in 1 .. Len(s) /\ (s \o t)[i] = s[i]
      BY <1>1, <2>2
    <3> QED
      BY <2>1, <3>1 DEF Starts
  <2>3. CASE ~(i <= Len(s))
    <3>1. i - Len(s) \in 1 .. Len(t) /\ (s \o t)[i] = t[i - Len(s)]
      BY <1>1, <2>3
    <3> QED
      BY <2>1, <3>1 DEF Starts
  <2> QED
    BY <2>2, <2>3
<1>3. ASSUME NEW i \in 1 .. Len(s), s[i].frame = f, s[i].at = 1
      PROVE  Starts(s \o t, f)
  <2>1. i \in 1 .. Len(s) + Len(t) /\ i <= Len(s)
    BY <1>1
  <2>2. (s \o t)[i] = s[i]
    BY <1>1, <2>1
  <2> QED
    BY <1>1, <1>3, <2>1, <2>2 DEF Starts
<1>4. ASSUME NEW i \in 1 .. Len(t), t[i].frame = f, t[i].at = 1
      PROVE  Starts(s \o t, f)
  <2>1. i + Len(s) \in 1 .. Len(s) + Len(t) /\ ~(i + Len(s) <= Len(s))
        /\ (i + Len(s)) - Len(s) = i
    BY <1>1
  <2>2. (s \o t)[i + Len(s)] = t[i]
    BY <1>1, <2>1
  <2> QED
    BY <1>1, <1>4, <2>1, <2>2 DEF Starts
<1> QED
  BY <1>2, <1>3, <1>4 DEF Starts

\* A byte that moves from the head of one part to the end of the part before it
\* leaves the whole as it is.
LEMMA MoveKeeps ==
    ASSUME NEW s \in Seq(Byte), NEW t \in Seq(Byte), t # <<>>
    PROVE  Append(s, Head(t)) \o Tail(t) = s \o t
<1>1. /\ Head(t) \in Byte /\ Tail(t) \in Seq(Byte) /\ Len(Tail(t)) = Len(t) - 1
      /\ Head(t) = t[1] /\ Len(t) > 0
      /\ \A i \in 1 .. Len(Tail(t)) : Tail(t)[i] = t[i + 1]
  BY TailHolds
<1>2. t = <<Head(t)>> \o Tail(t)
  BY <1>1
<1>3. Append(s, Head(t)) = s \o <<Head(t)>>
  BY <1>1, AppendIsConcat
<1>4. <<Head(t)>> \in Seq(Byte)
  BY <1>1
<1> QED
  BY <1>1, <1>2, <1>3, <1>4, ConcatAssociative

\* What the whole is when a byte is appended to its last part.
LEMMA AppendToEnd ==
    ASSUME NEW s \in Seq(Byte), NEW t \in Seq(Byte), NEW b \in Byte
    PROVE  s \o Append(t, b) = Append(s \o t, b)
<1>1. <<b>> \in Seq(Byte) /\ s \o t \in Seq(Byte)
  BY ConcatProperties
<1>2. Append(t, b) = t \o <<b>> /\ Append(s \o t, b) = (s \o t) \o <<b>>
  BY <1>1, AppendIsConcat
<1> QED
  BY <1>1, <1>2, ConcatAssociative

\* The front of a sound sequence is sound.
LEMMA FrontSound ==
    ASSUME NEW s \in Seq(Byte), NEW t \in Seq(Byte), NEW lost
    PROVE  /\ Contiguous(s \o t, lost) => Contiguous(s, lost)
           /\ Marked(s \o t) => Marked(s)
<1>1. /\ Len(s) \in Nat /\ Len(t) \in Nat /\ Len(s \o t) = Len(s) + Len(t)
      /\ \A i \in 1 .. Len(s) + Len(t) :
             (s \o t)[i] = IF i <= Len(s) THEN s[i] ELSE t[i - Len(s)]
  BY ConcatProperties
<1>2. \A i \in 1 .. Len(s) : i \in 1 .. Len(s \o t) /\ (s \o t)[i] = s[i]
  BY <1>1
<1>3. \A i \in 1 .. Len(s) - 1 :
          i \in 1 .. Len(s \o t) - 1 /\ i \in 1 .. Len(s) /\ i + 1 \in 1 .. Len(s)
  BY <1>1
<1> QED
  BY <1>2, <1>3 DEF Contiguous, Marked

-----------------------------------------------------------------------------
\* A full buffer that begins with the first byte of a frame of which nothing is lost
\* holds that frame.
LEMMA WholeFrameChecks ==
    ASSUME NEW bytes \in Seq(Byte), Len(bytes) = FrameLen, NEW lost, Contiguous(bytes, lost),
           bytes[1].at = 1, bytes[1].frame \notin lost
    PROVE  ChecksumHolds(bytes)
<1> DEFINE Right(i) == bytes[i].frame = bytes[1].frame /\ bytes[i].at = i
           wrong == {i \in 1 .. FrameLen : ~Right(i)}
<1> SUFFICES ASSUME wrong # {} PROVE FALSE
  BY DEF ChecksumHolds
<1>1. wrong \in SUBSET Nat /\ FrameLen \in Nat /\ Right(1)
  OBVIOUS
<1>2. Min(wrong) \in wrong /\ \A y \in wrong : Min(wrong) <= y
  <2> HIDE DEF wrong
  <2> QED
    BY <1>1, LeastExists
<1>3. PICK m \in 1 .. FrameLen : ~Right(m) /\ \A y \in wrong : m <= y
  BY <1>2
<1>4. m # 1 /\ m - 1 \in 1 .. FrameLen - 1 /\ m - 1 \in 1 .. FrameLen /\ (m - 1) + 1 = m
      /\ ~(m <= m - 1)
  BY <1>1, <1>3
<1>5. Right(m - 1)
  BY <1>3, <1>4
<1>6. ~Breaks(bytes[m - 1], lost)
  <2>1. m - 1 # FrameLen
    BY <1>1, <1>4
  <2> QED
    BY <1>5, <2>1 DEF Breaks
<1>7. bytes[m].frame = bytes[m - 1].frame /\ bytes[m].at = (m - 1) + 1
  BY <1>4, <1>5, <1>6 DEF Contiguous
<1> QED
  BY <1>3, <1>4, <1>5, <1>7

\* What resync() drops of a full buffer whose checksum failed is no first byte of a
\* frame of which nothing is lost.
LEMMA ResyncKeepsStarts ==
    ASSUME NEW bytes \in Seq(Byte), Len(bytes) = FrameLen, NEW lost,
           Contiguous(bytes, lost), Marked(bytes), ~ChecksumHolds(bytes)
    PROVE  /\ Suffix(Resync(bytes), bytes)
           /\ \A f \in Frame : Starts(bytes, f) => f \in lost \/ Starts(Resync(bytes), f)
<1>1. Len(bytes) \in Nat /\ Len(bytes) > 1
  OBVIOUS
<1>2. ASSUME NEW f \in Frame, NEW i \in 1 .. Len(bytes),
             bytes[i].frame = f, bytes[i].at = 1, f \notin lost
      PROVE  i \in Markers(bytes)
  <2>1. i # 1
    BY <1>2, WholeFrameChecks
  <2>2. i \in 2 .. Len(bytes)
    BY <1>1, <2>1
  <2>3. bytes[i].marker
    BY <1>2 DEF Marked
  <2> QED
    BY <2>2, <2>3 DEF Markers
<1>3. CASE Markers(bytes) = {}
  <2>1. Resync(bytes) = <<>>
    BY <1>3 DEF Resync
  <2> QED
    BY <1>2, <1>3, <2>1, SuffixEnds DEF Starts
<1>4. CASE Markers(bytes) # {}
  <2> DEFINE k == Min(Markers(bytes))
             kept == SubSeq(bytes, k, Len(bytes))
  <2>1. Markers(bytes) \subseteq 2 .. Len(bytes)
    BY DEF Markers
  <2>2. k \in 2 .. Len(bytes) /\ \A i \in Markers(bytes) : k <= i
    BY <1>1, <1>4, <2>1, LeastExists
  <2>3. Resync(bytes) = kept
    BY <1>4 DEF Resync
  <2> HIDE DEF k
  <2>4. /\ Len(kept) = Len(bytes) - k + 1
        /\ \A i \in 1 .. Len(kept) : kept[i] = bytes[k + i - 1]
    BY <1>1, <2>2
  <2> HIDE DEF kept
  <2>5. Suffix(kept, bytes)
    <3>1. k - 1 \in 0 .. Len(bytes) /\ Len(kept) = Len(bytes) - (k - 1)
      BY <1>1, <2>2, <2>4
    <3>2. \A i \in 1 .. Len(kept) : kept[i] = bytes[i + (k - 1)]
      <4>1. \A i \in 1 .. Len(kept) : k + i - 1 = i + (k - 1)
        BY <2>2
      <4> QED
        BY <2>4, <4>1
    <3> QED
      BY <3>1, <3>2 DEF Suffix
  <2>6. ASSUME NEW f \in Frame, Starts(bytes, f), f \notin lost
        PROVE  Starts(kept, f)
    <3>1. PICK i \in 1 .. Len(bytes) : bytes[i].frame = f /\ bytes[i].at = 1
      BY <2>6 DEF Starts
    <3>2. k <= i
      BY <1>2, <2>2, <2>6, <3>1
    <3>3. i - k + 1 \in 1 .. Len(kept) /\ k + (i - k + 1) - 1 = i
      BY <1>1, <2>2, <2>4, <3>2
    <3>4. kept[i - k + 1] = bytes[i]
      BY <2>4, <3>3
    <3> QED
      BY <3>1, <3>3, <3>4 DEF Starts
  <2> QED
    BY <2>3, <2>5, <2>6
<1> QED
  BY <1>3, <1>4

-----------------------------------------------------------------------------
\* A command that is processed has a result, and none loses one.
LEMMA ProcessAnswers ==
    ASSUME ResultTypes, NEW f \in Frame, Process(f)
    PROVE  ~Fresh(f)' /\ \A g \in Frame : Fresh(g)' => Fresh(g)
<1>1. CASE final' = AddTo(final, f) /\ accepted' = accepted
  <2>1. final'[f] = final[f] + 1 /\ \A g \in Frame \ {f} : final'[g] = final[g]
    BY <1>1 DEF AddTo, ResultTypes
  <2>2. final[f] + 1 # 0
    BY DEF ResultTypes
  <2> QED
    BY <1>1, <2>1, <2>2 DEF Fresh
<1>2. CASE accepted' = AddTo(accepted, f) /\ final' = final
  <2>1. accepted'[f] = accepted[f] + 1 /\ \A g \in Frame \ {f} : accepted'[g] = accepted[g]
    BY <1>2 DEF AddTo, ResultTypes
  <2>2. accepted[f] + 1 # 0
    BY DEF ResultTypes
  <2> QED
    BY <1>2, <2>1, <2>2 DEF Fresh
<1> QED
  BY <1>1, <1>2 DEF Process, Refuse, Dispatch

\* track() only adds results.
LEMMA TrackAnswers ==
    ASSUME TypeOK, Track
    PROVE  \A g \in Frame : Fresh(g)' => Fresh(g)
<1>1. CASE UNCHANGED cmdVars
  BY <1>1 DEF cmdVars, Fresh
<1>2. CASE inflight # 0 /\ final' = AddTo(final, inflight) /\ accepted' = accepted
  <2>1. inflight \in Frame /\ ResultTypes
    BY <1>2, Types DEF Frame, TypeOK
  <2>2. /\ final'[inflight] = final[inflight] + 1
        /\ \A g \in Frame \ {inflight} : final'[g] = final[g]
    BY <1>2, <2>1 DEF AddTo, ResultTypes
  <2>3. final[inflight] + 1 # 0
    BY <2>1 DEF ResultTypes
  <2> QED
    BY <1>2, <2>2, <2>3 DEF Fresh
<1> QED
  BY <1>1, <1>2 DEF Track

\* The bytes held are bytes.
LEMMA StreamTypes ==
    ASSUME TypeOK
    PROVE  Stream \in Seq(Byte) /\ asm \o chunk \in Seq(Byte)
<1>1. ring \in Seq(Byte) /\ chunk \in Seq(Byte) /\ asm \in Seq(Byte)
  BY Types
<1>2. asm \o chunk \in Seq(Byte)
  BY <1>1, ConcatProperties
<1> QED
  BY <1>1, <1>2, ConcatProperties DEF Stream

\* Bytes at the front are dropped, and a first byte among them is answered for.
LEMMA DropKeeps ==
    ASSUME TypeOK, KeptInv, TypeOK', Suffix(Stream', Stream),
           frames' = frames, position' = position, spoilt' = spoilt,
           cut \subseteq cut', \A f \in Frame : Fresh(f)' => Fresh(f),
           \A f \in Frame : Starts(Stream, f) => Starts(Stream', f) \/ f \in spoilt
                                                \/ f \in cut' \/ ~Fresh(f)'
    PROVE  KeptInv'
<1>1. Stream \in Seq(Byte)
  BY StreamTypes
<1>2. Stream' \in Seq(Byte)
  <2>1. (TypeOK => Stream \in Seq(Byte))'
    BY StreamTypes, PTL
  <2> QED
    BY <2>1
<1>3. /\ Contiguous(Stream, spoilt) /\ OpenAt(Stream, spoilt, frames, position)
      /\ Marked(Stream)
  BY DEF KeptInv, StreamSound
<1>4. /\ Contiguous(Stream', spoilt) /\ OpenAt(Stream', spoilt, frames, position)
      /\ Marked(Stream')
  BY <1>1, <1>2, <1>3, SuffixSound
<1>5. StreamSound'
  BY <1>4 DEF StreamSound
<1>6. ASSUME NEW f \in Frame, Begun(f)'
      PROVE  Accounted(f)'
  <2>1. Accounted(f)
    BY <1>6 DEF Begun, KeptInv
  <2> QED
    BY <2>1 DEF Accounted
<1> QED
  BY <1>5, <1>6 DEF KeptInv

-----------------------------------------------------------------------------
\* A step that moves no byte and takes no result back.
LEMMA StillKeeps ==
    ASSUME TypeOK, KeptInv, TypeOK', Stream' = Stream,
           frames' = frames, position' = position, spoilt' = spoilt, cut' = cut,
           \A f \in Frame : Fresh(f)' => Fresh(f)
    PROVE  KeptInv'
<1>1. Suffix(Stream', Stream)
  BY StreamTypes, SuffixEnds
<1> QED
  BY <1>1, DropKeeps

\* The byte that goes from the ring to the chunk stays where it was among all.
LEMMA ReadKeeps ==
    ASSUME TypeOK, KeptInv, TypeOK', ReadByte
    PROVE  KeptInv'
<1>1. /\ ring \in Seq(Byte) /\ chunk \in Seq(Byte) /\ asm \in Seq(Byte)
      /\ asm \o chunk \in Seq(Byte) /\ ring # <<>>
  BY Types, StreamTypes DEF ReadByte
<1>2. /\ chunk' = Append(chunk, Head(ring)) /\ ring' = Tail(ring) /\ asm' = asm
      /\ frames' = frames /\ position' = position /\ spoilt' = spoilt /\ cut' = cut
      /\ accepted' = accepted /\ final' = final
  BY DEF ReadByte, cmdVars
<1>3. Stream' = Stream
  <2>1. Head(ring) \in Byte
    BY <1>1, TailHolds
  <2>2. asm \o Append(chunk, Head(ring)) = Append(asm \o chunk, Head(ring))
    BY <1>1, <2>1, AppendToEnd
  <2>3. Append(asm \o chunk, Head(ring)) \o Tail(ring) = (asm \o chunk) \o ring
    BY <1>1, MoveKeeps
  <2> QED
    BY <1>2, <2>2, <2>3 DEF Stream
<1>4. \A f \in Frame : Fresh(f)' => Fresh(f)
  BY <1>2 DEF Fresh
<1> QED
  BY <1>2, <1>3, <1>4, StillKeeps

\* The assembler drops bytes of those it held with the one it took, and answers for
\* the first bytes among them.
LEMMA AssemblerKeeps ==
    ASSUME TypeOK, KeptInv, TypeOK', ring' = ring,
           NEW held \in Seq(Byte), Stream = (held \o chunk') \o ring, Suffix(asm', held),
           frames' = frames, position' = position, spoilt' = spoilt,
           cut \subseteq cut', \A f \in Frame : Fresh(f)' => Fresh(f),
           \A f \in Frame : Starts(held, f) => Starts(asm', f) \/ f \in spoilt
                                              \/ f \in cut' \/ ~Fresh(f)'
    PROVE  KeptInv'
<1>1. /\ ring \in Seq(Byte) /\ asm' \in Seq(Byte) /\ chunk' \in Seq(Byte)
      /\ held \o chunk' \in Seq(Byte) /\ asm' \o chunk' \in Seq(Byte)
  <2>1. ring \in Seq(Byte) /\ asm' \in Seq(Byte) /\ chunk' \in Seq(Byte)
    BY DEF TypeOK
  <2> QED
    BY <2>1, ConcatProperties
<1>2. Stream' = (asm' \o chunk') \o ring
  BY DEF Stream
<1>3. Suffix(Stream', Stream)
  <2>1. Suffix(asm' \o chunk', held \o chunk')
    BY <1>1, SuffixConcat
  <2> QED
    BY <1>1, <1>2, <2>1, SuffixConcat
<1>4. \A f \in Frame : /\ Starts(Stream, f) <=> (Starts(held, f) \/ Starts(chunk', f)) \/ Starts(ring, f)
                       /\ Starts(Stream', f) <=> (Starts(asm', f) \/ Starts(chunk', f)) \/ Starts(ring, f)
  BY <1>1, <1>2, ConcatStarts
<1>5. \A f \in Frame : Starts(Stream, f) => Starts(Stream', f) \/ f \in spoilt
                                           \/ f \in cut' \/ ~Fresh(f)'
  BY <1>4
<1> QED
  BY <1>3, <1>5, DropKeeps

\* An idle gap abandons what is assembled, and those frames are marked.
LEMMA EventKeeps ==
    ASSUME TypeOK, KeptInv, TypeOK', TakeEvent
    PROVE  KeptInv'
<1>1. /\ ring' = ring /\ chunk' = chunk /\ frames' = frames /\ position' = position
      /\ spoilt' = spoilt /\ accepted' = accepted /\ final' = final
  BY DEF TakeEvent, cmdVars
<1>2. \A f \in Frame : Fresh(f)' => Fresh(f)
  BY <1>1 DEF Fresh
<1>3. asm \in Seq(Byte)
  BY Types
<1>4. CASE asm' = asm /\ cut' = cut
  BY <1>1, <1>2, <1>4, StillKeeps DEF Stream
<1>5. CASE asm' = <<>> /\ cut' = cut \cup {b.frame : b \in ToSet(asm)}
  <2>1. Suffix(asm', asm)
    BY <1>3, <1>5, SuffixEnds
  <2>2. ASSUME NEW f \in Frame, Starts(asm, f)
        PROVE  f \in cut'
    <3>1. PICK i \in 1 .. Len(asm) : asm[i].frame = f
      BY <2>2 DEF Starts
    <3>2. asm[i] \in ToSet(asm)
      BY <1>3 DEF ToSet
    <3> QED
      BY <1>5, <3>1, <3>2
  <2>3. Stream = (asm \o chunk') \o ring
    BY <1>1 DEF Stream
  <2>4. cut \subseteq cut'
    BY <1>5
  <2> QED
    BY <1>1, <1>2, <1>3, <2>1, <2>2, <2>3, <2>4, AssemblerKeeps
<1> QED
  BY <1>4, <1>5 DEF TakeEvent

\* One byte of the chunk: it is kept, no first byte, the last of a frame that gets its
\* result, or one that fills the buffer with wreckage.
LEMMA AssembleKeeps ==
    ASSUME IntakeInv, KeptInv, TypeOK', AssembleByte
    PROVE  KeptInv'
<1> DEFINE bytes == Append(asm, Head(chunk))
<1>1. TypeOK /\ Len(asm) < FrameLen /\ ResultTypes
  BY Types DEF IntakeInv, StreamInv
<1>2. /\ asm \in Seq(Byte) /\ chunk \in Seq(Byte) /\ ring \in Seq(Byte) /\ chunk # <<>>
      /\ chunk' = Tail(chunk) /\ ring' = ring /\ frames' = frames /\ position' = position
      /\ spoilt' = spoilt /\ cut' = cut
  BY <1>1, Types DEF AssembleByte, uartVars
<1>3. /\ Head(chunk) \in Byte /\ bytes \in Seq(Byte) /\ Len(bytes) = Len(asm) + 1
      /\ bytes[Len(asm) + 1] = Head(chunk) /\ Len(asm) \in Nat /\ Tail(chunk) \in Seq(Byte)
  BY <1>2, TailHolds, AppendHolds
<1>4. Stream = (bytes \o chunk') \o ring
  BY <1>2, MoveKeeps DEF Stream
<1> HIDE DEF bytes
<1>5. Contiguous(bytes, spoilt) /\ Marked(bytes)
  <2>1. bytes \o chunk' \in Seq(Byte)
    BY <1>2, <1>3, ConcatProperties
  <2>2. Contiguous(Stream, spoilt) /\ Marked(Stream)
    BY DEF KeptInv, StreamSound
  <2> QED
    BY <1>2, <1>3, <1>4, <2>1, <2>2, FrontSound
<1>6. UNCHANGED cmdVars => \A f \in Frame : Fresh(f)' => Fresh(f)
  BY DEF cmdVars, Fresh
<1>7. CASE asm = <<>> /\ ~Head(chunk).marker /\ asm' = asm /\ UNCHANGED cmdVars
  <2>1. Len(bytes) = 1 /\ bytes[1] = Head(chunk)
    BY <1>3, <1>7
  <2>2. bytes[1].at # 1
    BY <1>5, <1>7, <2>1 DEF Marked
  <2>3. \A f \in Frame : ~Starts(bytes, f)
    BY <2>1, <2>2 DEF Starts
  <2>4. Suffix(asm', bytes)
    BY <1>3, <1>7, SuffixEnds
  <2> QED
    BY <1>1, <1>2, <1>3, <1>4, <1>6, <1>7, <2>3, <2>4, AssemblerKeeps
<1>8. CASE asm' = bytes /\ UNCHANGED cmdVars
  <2>1. Stream' = Stream
    BY <1>2, <1>4, <1>8 DEF Stream
  <2> QED
    BY <1>1, <1>2, <1>6, <1>8, <2>1, StillKeeps
<1>9. CASE ~(Len(bytes) < FrameLen) /\ ChecksumHolds(bytes) /\ asm' = <<>> /\ Process(bytes[1].frame)
  <2>1. Len(bytes) = FrameLen /\ bytes[1] \in Byte
    BY <1>1, <1>3, <1>9
  <2>2. PICK g \in Frame : g = bytes[1].frame
    BY <2>1 DEF Byte
  <2>3. ~Fresh(g)' /\ \A f \in Frame : Fresh(f)' => Fresh(f)
    BY <1>1, <1>9, <2>2, ProcessAnswers
  <2>4. \A f \in Frame : Starts(bytes, f) => f = g
    BY <1>9, <2>1, <2>2 DEF ChecksumHolds, Starts
  <2>5. Suffix(asm', bytes)
    BY <1>3, <1>9, SuffixEnds
  <2> QED
    BY <1>1, <1>2, <1>3, <1>4, <2>3, <2>4, <2>5, AssemblerKeeps
<1>10. CASE ~(Len(bytes) < FrameLen) /\ ~ChecksumHolds(bytes) /\ asm' = Resync(bytes) /\ UNCHANGED cmdVars
  <2>1. Len(bytes) = FrameLen
    BY <1>1, <1>3, <1>10
  <2>2. /\ Suffix(asm', bytes)
        /\ \A f \in Frame : Starts(bytes, f) => f \in spoilt \/ Starts(asm', f)
    BY <1>3, <1>5, <1>10, <2>1, ResyncKeepsStarts
  <2> QED
    BY <1>1, <1>2, <1>3, <1>4, <1>6, <1>10, <2>2, AssemblerKeeps
<1> QED
  BY <1>7, <1>8, <1>9, <1>10 DEF AssembleByte, bytes

-----------------------------------------------------------------------------
\* A byte that follows the last of a sound sequence makes it one byte longer.
LEMMA AppendSound ==
    ASSUME NEW s \in Seq(Byte), NEW b \in Byte, NEW lost,
           Contiguous(s, lost), OpenAt(s, lost, b.frame, b.at - 1), Marked(s),
           b.at = 1 => b.marker
    PROVE  /\ Contiguous(Append(s, b), lost) /\ OpenAt(Append(s, b), lost, b.frame, b.at)
           /\ Marked(Append(s, b))
           /\ \A f \in Frame : Starts(s, f) => Starts(Append(s, b), f)
           /\ b.at = 1 => Starts(Append(s, b), b.frame)
<1> DEFINE t == Append(s, b)
<1>1. /\ t \in Seq(Byte) /\ Len(t) = Len(s) + 1 /\ t[Len(s) + 1] = b
      /\ Len(s) \in Nat /\ \A i \in 1 .. Len(s) : t[i] = s[i]
  BY AppendHolds
<1> HIDE DEF t
<1>2. ASSUME NEW i \in 1 .. Len(t) - 1
      PROVE  Breaks(t[i], lost) \/ (t[i + 1].frame = t[i].frame /\ t[i + 1].at = t[i].at + 1)
  <2>1. i \in 1 .. Len(s) /\ t[i] = s[i]
    BY <1>1
  <2>2. CASE i = Len(s)
    <3>1. s # <<>> /\ t[i + 1] = b
      BY <1>1, <2>1, <2>2
    <3>2. Breaks(s[i], lost) \/ (s[i].frame = b.frame /\ s[i].at = b.at - 1)
      BY <2>2, <3>1 DEF OpenAt
    <3>3. b.at \in Int
      BY DEF Byte
    <3> QED
      BY <2>1, <3>1, <3>2, <3>3
  <2>3. CASE i # Len(s)
    <3>1. i \in 1 .. Len(s) - 1 /\ i + 1 \in 1 .. Len(s)
      BY <1>1, <2>1, <2>3
    <3>2. t[i + 1] = s[i + 1]
      BY <1>1, <3>1
    <3> QED
      BY <2>1, <3>1, <3>2 DEF Contiguous
  <2> QED
    BY <2>2, <2>3
<1>3. Contiguous(t, lost)
  BY <1>2 DEF Contiguous
<1>4. OpenAt(t, lost, b.frame, b.at)
  BY <1>1 DEF OpenAt
<1>5. \A i \in 1 .. Len(t) : i \in 1 .. Len(s) \/ i = Len(s) + 1
  BY <1>1
<1>6. Marked(t)
  BY <1>1, <1>5 DEF Marked
<1>7. Len(s) + 1 \in 1 .. Len(t) /\ \A i \in 1 .. Len(s) : i \in 1 .. Len(t)
  BY <1>1
<1>8. \A f \in Frame : Starts(s, f) => Starts(t, f)
  BY <1>1, <1>7 DEF Starts
<1>9. b.at = 1 => Starts(t, b.frame)
  BY <1>1, <1>7 DEF Starts
<1> QED
  BY <1>3, <1>4, <1>6, <1>8, <1>9 DEF t

\* The last byte held, while no frame is on the line, is the last of its frame, or
\* bytes of its frame are lost; and it is so at once when the line loses a byte.
LEMMA LastBreaks ==
    ASSUME TypeOK, KeptInv, NEW f, NEW p
    PROVE  /\ ~OnTheLine => OpenAt(Stream, spoilt, f, p)
           /\ OpenAt(Stream, spoilt \cup {frames}, f, p)
<1>1. Stream \in Seq(Byte) /\ position \in Nat
  BY StreamTypes, Types
<1>2. SUFFICES ASSUME Stream # <<>>
               PROVE  /\ ~OnTheLine => Breaks(Stream[Len(Stream)], spoilt)
                      /\ Breaks(Stream[Len(Stream)], spoilt \cup {frames})
  BY DEF OpenAt
<1>3. Stream[Len(Stream)] \in Byte
  <2>1. Len(Stream) \in 1 .. Len(Stream)
    BY <1>1, <1>2
  <2> QED
    BY <1>1, <2>1
<1>4. PICK b \in Byte : b = Stream[Len(Stream)]
  BY <1>3
<1>5. Breaks(b, spoilt) \/ (b.frame = frames /\ b.at = position)
  BY <1>2, <1>4 DEF KeptInv, StreamSound, OpenAt
<1>6. b.at \in 1 .. FrameLen
  BY DEF Byte
<1>7. ~OnTheLine => Breaks(b, spoilt)
  BY <1>1, <1>5, <1>6 DEF OnTheLine, Breaks
<1>8. Breaks(b, spoilt \cup {frames})
  BY <1>5 DEF Breaks
<1> QED
  BY <1>4, <1>7, <1>8

\* More bytes lost ask less of the order.
LEMMA ContiguousMore ==
    ASSUME NEW s, NEW lost, NEW more, lost \subseteq more, Contiguous(s, lost)
    PROVE  Contiguous(s, more)
  BY DEF Contiguous, Breaks

\* A step of the line that gives the ring no byte: the frame it begins to lose is lost.
LEMMA QuietLineKeeps ==
    ASSUME TypeOK, KeptInv, Stream' = Stream, spoilt \subseteq spoilt', cut' = cut,
           OpenAt(Stream, spoilt', frames', position'),
           \A f \in Frame : Fresh(f)' => Fresh(f),
           \A f \in Frame : Begun(f)' => Begun(f) \/ f \in spoilt' \/ ~Fresh(f)'
    PROVE  KeptInv'
<1>1. Contiguous(Stream', spoilt') /\ Marked(Stream')
  BY ContiguousMore DEF KeptInv, StreamSound
<1>2. StreamSound'
  BY <1>1 DEF StreamSound
<1>3. ASSUME NEW f \in Frame, Begun(f)'
      PROVE  Accounted(f)'
  <2>1. CASE Begun(f)
    <3>1. Accounted(f)
      BY <2>1 DEF KeptInv
    <3> QED
      BY <3>1 DEF Accounted
  <2>2. CASE f \in spoilt' \/ ~Fresh(f)'
    BY <2>2 DEF Accounted
  <2> QED
    BY <1>3, <2>1, <2>2
<1> QED
  BY <1>2, <1>3 DEF KeptInv

\* A command inside a packet, which no byte belongs to, has its result at once.
LEMMA SubmitKeeps ==
    ASSUME TypeOK, KeptInv, ~OnTheLine, frames < MaxFrames, frames' = frames + 1,
           UNCHANGED <<position, ring, events, spoilt, chunk, again, asm, cut>>,
           Process(frames + 1)
    PROVE  KeptInv'
<1>1. frames \in Nat /\ position \in Nat /\ ResultTypes /\ MaxFrames \in Nat
  BY Types
<1>2. PICK g \in Frame : g = frames + 1
  BY <1>1 DEF Frame
<1>3. ~Fresh(g)' /\ \A f \in Frame : Fresh(f)' => Fresh(f)
  BY <1>1, <1>2, ProcessAnswers
<1>4. Stream' = Stream
  BY DEF Stream
<1>5. \A f \in Frame : Begun(f)' => Begun(f) \/ ~Fresh(f)'
  <2>1. \A f \in Frame : f < frames + 1 => f < frames \/ f = frames
    BY <1>1 DEF Frame
  <2>2. position > 0
    BY <1>1 DEF OnTheLine
  <2> QED
    BY <1>2, <1>3, <2>1, <2>2 DEF Begun
<1>6. OpenAt(Stream, spoilt', frames', position')
  BY LastBreaks
<1> QED
  BY <1>3, <1>4, <1>5, <1>6, QuietLineKeeps

-----------------------------------------------------------------------------
\* The line and the interrupt: a byte goes behind the one sent before it, or its
\* frame is spoilt.
LEMMA LineKeeps ==
    ASSUME TypeOK, LineInv, KeptInv, TypeOK', Line
    PROVE  KeptInv'
<1>1. /\ frames \in Nat /\ position \in Nat /\ ring \in Seq(Byte) /\ Stream \in Seq(Byte)
      /\ asm \o chunk \in Seq(Byte) /\ FrameLen \in Nat /\ FrameLen > 1
  BY Types, StreamTypes
<1>2. asm' = asm /\ chunk' = chunk /\ cut' = cut /\ accepted' = accepted /\ final' = final
  BY DEF Line, BeginFrame, ReceiveByte, LoseByte, IdleGap, asmVars, cmdVars
<1>3. \A f \in Frame : Fresh(f)' => Fresh(f)
  BY <1>2 DEF Fresh
<1>4. CASE BeginFrame
  <2>1. /\ ~OnTheLine /\ frames' = frames + 1 /\ position' = 0 /\ ring' = ring
        /\ spoilt' = spoilt
    BY <1>4 DEF BeginFrame
  <2>2. \A f \in Frame : Begun(f)' => Begun(f)
    <3>1. position > 0
      BY <1>1, <2>1 DEF OnTheLine
    <3>2. \A f \in Frame : f < frames + 1 => f < frames \/ f = frames
      BY <1>1 DEF Frame
    <3> QED
      BY <2>1, <3>1, <3>2 DEF Begun
  <2>3. OpenAt(Stream, spoilt', frames', position') /\ Stream' = Stream
    BY <1>2, <2>1, LastBreaks DEF Stream
  <2> QED
    BY <1>2, <1>3, <2>1, <2>2, <2>3, QuietLineKeeps
<1>5. ASSUME frames' = frames, position' = position + 1, ring' = ring,
             spoilt' = spoilt \cup {frames}
      PROVE  KeptInv'
  <2>1. \A f \in Frame : Begun(f)' => Begun(f) \/ f \in spoilt'
    BY <1>5 DEF Begun
  <2>2. OpenAt(Stream, spoilt', frames', position') /\ Stream' = Stream
    BY <1>2, <1>5, LastBreaks DEF Stream
  <2> QED
    BY <1>2, <1>3, <1>5, <2>1, <2>2, QuietLineKeeps
<1>6. CASE IdleGap
  <2>1. /\ ~OnTheLine /\ position > 0 /\ frames' = frames /\ ring' = ring
        /\ spoilt' = spoilt
    BY <1>1, <1>6 DEF IdleGap, OnTheLine
  <2>2. \A f \in Frame : Begun(f)' => Begun(f)
    BY <2>1 DEF Begun
  <2>3. OpenAt(Stream, spoilt', frames', position') /\ Stream' = Stream
    BY <1>2, <2>1, LastBreaks DEF Stream
  <2> QED
    BY <1>2, <1>3, <2>1, <2>2, <2>3, QuietLineKeeps
<1>7. ASSUME NEW marker \in BOOLEAN, ReceiveByte(marker)
      PROVE  KeptInv'
  <2> DEFINE b == [frame |-> frames, at |-> position + 1, marker |-> marker]
  <2>1. /\ frames' = frames /\ position' = position + 1 /\ position < FrameLen
        /\ position = 0 => marker
    BY <1>7 DEF ReceiveByte, OnTheLine
  <2>2. b \in Byte /\ b.frame = frames /\ b.at = position + 1
    <3>1. frames \in Frame
      BY <1>1, <2>1, Types DEF LineInv, Frame
    <3>2. position + 1 \in 1 .. FrameLen
      BY <1>1, <2>1
    <3> QED
      BY <3>1, <3>2 DEF Byte
  <2>3. b.at = 1 => b.marker
    <3>1. b.at = 1 => position = 0
      BY <1>1, <2>2
    <3>2. b.marker = marker
      OBVIOUS
    <3> QED
      BY <2>1, <3>1, <3>2
  <2> HIDE DEF b
  <2>4. CASE ring' = ring /\ spoilt' = spoilt \cup {frames}
    BY <1>5, <2>1, <2>4
  <2>5. CASE ring' = Append(ring, b) /\ spoilt' = spoilt
    <3>1. Stream' = Append(Stream, b)
      BY <1>1, <1>2, <2>2, <2>5, AppendToEnd DEF Stream
    <3>2. /\ Contiguous(Stream, spoilt) /\ Marked(Stream)
          /\ OpenAt(Stream, spoilt, b.frame, b.at - 1)
      <4>1. b.at - 1 = position
        BY <1>1, <2>2
      <4> QED
        BY <2>2, <4>1 DEF KeptInv, StreamSound
    <3>3. /\ Contiguous(Stream', spoilt) /\ OpenAt(Stream', spoilt, b.frame, b.at)
          /\ Marked(Stream')
          /\ \A f \in Frame : Starts(Stream, f) => Starts(Stream', f)
          /\ b.at = 1 => Starts(Stream', b.frame)
      BY <1>1, <2>2, <2>3, <3>1, <3>2, AppendSound
    <3>4. StreamSound'
      BY <2>1, <2>2, <2>5, <3>3 DEF StreamSound
    <3>5. ASSUME NEW f \in Frame, Begun(f)'
          PROVE  Accounted(f)'
      <4>1. CASE Begun(f)
        <5>1. Accounted(f)
          BY <4>1 DEF KeptInv
        <5> QED
          BY <1>2, <1>3, <2>5, <3>3, <5>1 DEF Accounted
      <4>2. CASE ~Begun(f)
        <5>1. f = frames /\ position = 0
          BY <1>1, <2>1, <3>5, <4>2 DEF Begun, Frame
        <5>2. Starts(Stream', f)
          BY <2>2, <3>3, <5>1
        <5> QED
          BY <5>2 DEF Accounted
      <4> QED
        BY <4>1, <4>2
    <3> QED
      BY <3>4, <3>5 DEF KeptInv
  <2> QED
    BY <1>7, <2>4, <2>5 DEF ReceiveByte, b
<1>8. LoseByte => /\ frames' = frames /\ position' = position + 1 /\ ring' = ring
                  /\ spoilt' = spoilt \cup {frames}
  BY DEF LoseByte
<1> QED
  BY <1>4, <1>5, <1>6, <1>7, <1>8 DEF Line

\* Before the first byte no frame is begun.
LEMMA KeptInit_Inv ==
    ASSUME Init PROVE KeptInv
<1>1. Stream = <<>>
  BY DEF Init, Stream
<1>2. StreamSound
  BY <1>1 DEF StreamSound, Contiguous, OpenAt, Marked
<1>3. \A f \in Frame : ~Begun(f)
  BY DEF Init, Begun, Frame
<1> QED
  BY <1>2, <1>3 DEF KeptInv

\* Whatever the loop, the clock, the line and the ground do, a first byte is kept.
LEMMA KeptStep_Inv ==
    ASSUME IntakeInv, KeptInv, [Next]_vars
    PROVE  KeptInv'
<1>1. TypeOK /\ LineInv
  BY DEF IntakeInv
<1>2. TypeOK'
  BY IntakeStep_Inv DEF IntakeInv
<1>3. CASE ReceivePacket
  <2>1. UNCHANGED <<position, ring, events, spoilt, chunk, again, asm, cut>>
    BY <1>3 DEF ReceivePacket
  <2>2. CASE SubmitFromPacket
    <3>1. ~OnTheLine /\ frames < MaxFrames /\ frames' = frames + 1 /\ Process(frames + 1)
      BY <2>2 DEF SubmitFromPacket, RoomForFrame
    <3> QED
      BY <1>1, <2>1, <3>1, SubmitKeeps
  <2>3. CASE RefusePacket
    <3>1. frames' = frames /\ accepted' = accepted /\ final' = final
      BY <2>3 DEF RefusePacket, cmdVars
    <3> QED
      BY <1>1, <1>2, <2>1, <3>1, StillKeeps DEF Stream, Fresh
  <2> QED
    BY <1>3, <2>2, <2>3 DEF ReceivePacket
<1>4. CASE \/ EventsTaken \/ CommsDone \/ ReadDone \/ AssembleDone \/ BudgetElapses
           \/ UNCHANGED vars
  <2>1. /\ asm' = asm /\ chunk' = chunk /\ ring' = ring /\ frames' = frames
        /\ position' = position /\ spoilt' = spoilt /\ cut' = cut
        /\ accepted' = accepted /\ final' = final
    BY <1>4 DEF EventsTaken, CommsDone, ReadDone, AssembleDone, BudgetElapses,
                vars, uartVars, asmVars, cmdVars
  <2> QED
    BY <1>1, <1>2, <2>1, StillKeeps DEF Stream, Fresh
<1>5. CASE Track
  <2>1. /\ asm' = asm /\ chunk' = chunk /\ ring' = ring /\ frames' = frames
        /\ position' = position /\ spoilt' = spoilt /\ cut' = cut
    BY <1>5 DEF Track, uartVars
  <2> QED
    BY <1>1, <1>2, <1>5, <2>1, TrackAnswers, StillKeeps DEF Stream
<1>6. CASE TakeEvent \/ ReadByte \/ AssembleByte
  BY <1>1, <1>2, <1>6, EventKeeps, ReadKeeps, AssembleKeeps
<1>7. CASE Line
  BY <1>1, <1>2, <1>7, LineKeeps
<1> QED
  BY <1>3, <1>4, <1>5, <1>6, <1>7 DEF Next, Loop, Bytes

\* What is held, and in which order, in every reachable state.
THEOREM StreamInvariant == Spec => [](IntakeInv /\ KeptInv)
<1>1. Init => IntakeInv /\ KeptInv
  BY IntakeInit_Inv, KeptInit_Inv
<1>2. IntakeInv /\ KeptInv /\ [Next]_vars => (IntakeInv /\ KeptInv)'
  BY IntakeStep_Inv, KeptStep_Inv
<1> QED
  BY <1>1, <1>2, PTL DEF Spec

\* FW-38: no corruption desynchronises the stream: the first byte of a frame that
\* arrived intact is held until the frame has its result, unless a gap abandons it.
THEOREM IntactFramesKept == Spec => []IntactKept
<1>1. IntakeInv /\ KeptInv => IntactKept
  <2> SUFFICES ASSUME TypeOK, KeptInv, NEW f \in Frame, Begun(f),
                      ~Answered(f), f \notin spoilt, f \notin cut
               PROVE  Underway(f)
    BY DEF IntakeInv, IntactKept
  <2>1. ring \in Seq(Byte) /\ chunk \in Seq(Byte) /\ asm \in Seq(Byte) /\ ResultTypes
        /\ asm \o chunk \in Seq(Byte)
    BY Types, StreamTypes
  <2>2. Fresh(f)
    <3>1. accepted[f] \in Nat /\ final[f] \in Nat
      BY <2>1 DEF ResultTypes
    <3> QED
      BY <3>1 DEF Fresh, Answered
  <2>3. Starts(Stream, f)
    BY <2>2 DEF KeptInv, Accounted
  <2>4. Starts(asm, f) \/ Starts(chunk, f) \/ Starts(ring, f)
    BY <2>1, <2>3, ConcatStarts DEF Stream
  <2> QED
    BY <2>4 DEF Starts, Underway
<1> QED
  BY <1>1, StreamInvariant, PTL

-----------------------------------------------------------------------------
\* A command without a result that is processed is answered, or accepted while no
\* other runs.
LEMMA ProcessServes ==
    ASSUME ResultTypes, OneResultEach, NEW f \in Frame, Fresh(f), Process(f)
    PROVE  Service!Answer(f) \/ Service!Accept(f)
<1>1. accepted[f] = 0 /\ final[f] = 0 /\ Service!New(f)
  BY DEF Fresh, Service!New
<1>2. CASE final' = AddTo(final, f) /\ accepted' = accepted
  <2>1. final' = [final EXCEPT ![f] = 1]
    BY <1>1, <1>2 DEF AddTo, ResultTypes
  <2> QED
    BY <1>1, <1>2, <2>1 DEF Service!Answer
<1>3. CASE Dispatches /\ accepted' = AddTo(accepted, f) /\ final' = final
  <2>1. accepted' = [accepted EXCEPT ![f] = 1]
    BY <1>1, <1>3 DEF AddTo, ResultTypes
  <2>2. \A g \in Frame : ~Service!Running(g)
    <3>1. \A g \in Frame : inflight # g
      BY <1>3 DEF Dispatches, Frame
    <3> QED
      BY <3>1 DEF OneResultEach, Service!Running
  <2> QED
    BY <1>1, <1>3, <2>1, <2>2 DEF Service!Accept
<1> QED
  BY <1>2, <1>3 DEF Process, Refuse, Dispatch

\* The result track() sends finishes the command that runs.
LEMMA TrackServes ==
    ASSUME IntakeInv, Track
    PROVE  Service!Next \/ UNCHANGED <<accepted, final>>
<1>1. CASE UNCHANGED cmdVars
  BY <1>1 DEF cmdVars
<1>2. CASE inflight # 0 /\ final' = AddTo(final, inflight) /\ accepted' = accepted
  <2>1. inflight \in Frame /\ ResultTypes /\ OneResultEach
    BY <1>2, Types DEF IntakeInv, Frame, TypeOK
  <2>2. PICK f \in Frame : f = inflight
    BY <2>1
  <2>3. accepted[f] = 1 /\ final[f] = 0
    BY <2>1, <2>2 DEF OneResultEach
  <2>4. final' = [final EXCEPT ![f] = 1]
    BY <1>2, <2>1, <2>2, <2>3 DEF AddTo, ResultTypes
  <2>5. Service!Finish(f)
    BY <1>2, <2>3, <2>4 DEF Service!Finish, Service!Running
  <2> QED
    BY <2>5 DEF Service!Next
<1> QED
  BY <1>1, <1>2 DEF Track

\* A byte that completes a frame is the last of it held anywhere, so the command
\* served had no result.
LEMMA AssembleServes ==
    ASSUME IntakeInv, AssembleByte
    PROVE  Service!Next \/ UNCHANGED <<accepted, final>>
<1> DEFINE bytes == Append(asm, Head(chunk))
<1>1. /\ asm \in Seq(Byte) /\ chunk \in Seq(Byte) /\ chunk # <<>> /\ ResultTypes
      /\ Len(asm) < FrameLen /\ OneResultEach /\ HeldInv /\ Once(chunk)
  BY Types DEF IntakeInv, StreamInv, Apart, AssembleByte
<1>2. /\ Head(chunk) \in Byte /\ bytes \in Seq(Byte) /\ Len(bytes) = Len(asm) + 1
      /\ bytes[Len(asm) + 1] = Head(chunk) /\ Len(asm) \in Nat
  BY <1>1, TailHolds, AppendHolds
<1> HIDE DEF bytes
<1>3. CASE UNCHANGED cmdVars
  BY <1>3 DEF cmdVars
<1>4. CASE ~(Len(bytes) < FrameLen) /\ ChecksumHolds(bytes) /\ Process(bytes[1].frame)
  <2>1. Len(bytes) = FrameLen /\ Len(asm) + 1 = FrameLen /\ bytes[1] \in Byte
    BY <1>1, <1>2, <1>4
  <2>2. PICK f \in Frame : f = bytes[1].frame
    BY <2>1 DEF Byte
  <2>3. IsLast(Head(chunk), f)
    <3>1. FrameLen \in 1 .. FrameLen
      OBVIOUS
    <3> QED
      BY <1>2, <1>4, <2>1, <2>2, <3>1 DEF ChecksumHolds, IsLast
  <2>4. Fresh(f)
    BY <1>1, <2>3, TailCompletes DEF HeldInv, Held
  <2>5. Service!Answer(f) \/ Service!Accept(f)
    BY <1>1, <1>4, <2>2, <2>4, ProcessServes
  <2> QED
    BY <2>5 DEF Service!Next
<1> QED
  BY <1>3, <1>4 DEF AssembleByte, bytes

\* A packet is a command that had no number yet, or changes no result.
LEMMA PacketServes ==
    ASSUME IntakeInv, ReceivePacket
    PROVE  Service!Next \/ UNCHANGED <<accepted, final>>
<1>1. CASE SubmitFromPacket
  <2>1. frames \in Nat /\ frames < MaxFrames /\ ResultTypes /\ OneResultEach /\ FreshInv
    BY <1>1, Types DEF IntakeInv, SubmitFromPacket, RoomForFrame
  <2>2. PICK f \in Frame : f = frames + 1
    BY <2>1 DEF Frame
  <2>3. Fresh(f)
    BY <2>1, <2>2 DEF FreshInv, Sent
  <2>4. Service!Answer(f) \/ Service!Accept(f)
    BY <1>1, <2>1, <2>2, <2>3, ProcessServes DEF SubmitFromPacket
  <2> QED
    BY <2>4 DEF Service!Next
<1>2. CASE RefusePacket
  BY <1>2 DEF RefusePacket, cmdVars
<1> QED
  BY <1>1, <1>2 DEF ReceivePacket

\* Both links together implement the abstract service: commands start without
\* results, and each step answers, accepts or finishes one, or is invisible (safety;
\* that a running command ends is left to the runs).
THEOREM IntakeRefines == Spec => Service!Init /\ [][Service!Next]_(Service!vars)
<1>1. Init => Service!Init
  BY DEF Init, Service!Init
<1>2. IntakeInv /\ [Next]_vars => [Service!Next]_(Service!vars)
  <2> SUFFICES ASSUME IntakeInv, [Next]_vars
               PROVE  Service!Next \/ UNCHANGED <<accepted, final>>
    BY DEF Service!vars
  <2>1. CASE ReceivePacket
    BY <2>1, PacketServes
  <2>2. CASE Bytes
    <3>1. CASE TakeEvent \/ EventsTaken \/ CommsDone \/ ReadByte \/ ReadDone \/ AssembleDone
      BY <3>1 DEF TakeEvent, EventsTaken, CommsDone, ReadByte, ReadDone, AssembleDone, cmdVars
    <3> QED
      BY <2>2, <3>1, TrackServes, AssembleServes DEF Bytes
  <2>3. CASE BudgetElapses \/ Line \/ UNCHANGED vars
    BY <2>3 DEF BudgetElapses, Line, BeginFrame, ReceiveByte, LoseByte, IdleGap, vars, cmdVars
  <2> QED
    BY <2>1, <2>2, <2>3 DEF Next, Loop
<1> QED
  BY <1>1, <1>2, IntakeInvariant, PTL DEF Spec
=============================================================================
