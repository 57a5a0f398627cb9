------------------------- MODULE NasSecurityProofs -------------------------
(***************************************************************************)
(* Proofs about NasSecurity, for every octet width, COUNT width and number *)
(* of messages below the last block of COUNT.                              *)
(***************************************************************************)
EXTENDS NasSecurity, TLAPS

(* Division with a remainder, for a modulus that is not a literal. *)

\* A remainder is smaller than the modulus.
LEMMA RemainderBound ==
    ASSUME NEW n \in Nat, NEW s \in Nat \ {0}
    PROVE  n % s \in 0 .. s - 1
OBVIOUS

\* A number smaller than the modulus is its own remainder: wrapping_add does not wrap.
LEMMA RemainderOfSmall ==
    ASSUME NEW n \in Nat, NEW s \in Nat, n < s
    PROVE  n % s = n
OBVIOUS

\* Quotient and remainder give the number back.
LEMMA Division ==
    ASSUME NEW n \in Nat, NEW s \in Nat \ {0}
    PROVE  /\ n \div s \in Int
           /\ n = s * (n \div s) + (n % s)
OBVIOUS

\* Multiples of s are at least s apart.
LEMMA Apart ==
    ASSUME NEW a \in Int, NEW b \in Int, NEW s \in Nat \ {0}, a < b
    PROVE  s * b >= s * a + s
OBVIOUS

\* A number has one way only to be a multiple of s and something below s.
LEMMA RemainderUnique ==
    ASSUME NEW q \in Int, NEW k \in Nat, NEW n \in Nat, NEW s \in Nat \ {0},
           k < s, n = s * q + k
    PROVE  n % s = k
<1> DEFINE p == n \div s
<1>1. p \in Int /\ n = s * p + (n % s)
  BY Division
<1>2. n % s \in 0 .. s - 1
  BY RemainderBound
<1> HIDE DEF p
<1>3. s * p \in Int /\ s * q \in Int
  BY <1>1
<1>4. ~(p < q)
  BY <1>1, <1>2, <1>3, Apart
<1>5. ~(q < p)
  <2>1. SUFFICES ASSUME q < p PROVE FALSE
    OBVIOUS
  <2>2. s * p >= s * q + s
    BY <2>1, <1>1, Apart
  <2> QED
    BY <2>2, <1>1, <1>2, <1>3
<1>6. p = q
  BY <1>1, <1>4, <1>5
<1> QED
  BY <1>1, <1>2, <1>3, <1>6

\* Two numbers less than s apart with the same remainder are the same.
LEMMA SameRemainder ==
    ASSUME NEW m \in Nat, NEW n \in Nat, NEW s \in Nat \ {0},
           m <= n, n < m + s, m % s = n % s
    PROVE  m = n
<1> DEFINE p == m \div s
           q == n \div s
<1>1. p \in Int /\ m = s * p + (m % s)
  BY Division
<1>2. q \in Int /\ n = s * q + (n % s)
  BY Division
<1>3. m % s \in 0 .. s - 1
  BY RemainderBound
<1> HIDE DEF p, q
<1>4. s * p \in Int /\ s * q \in Int
  BY <1>1, <1>2
<1>5. ~(p < q)
  <2>1. SUFFICES ASSUME p < q PROVE FALSE
    OBVIOUS
  <2>2. s * q >= s * p + s
    BY <2>1, <1>1, <1>2, Apart
  <2> QED
    BY <2>2, <1>1, <1>2, <1>3, <1>4
<1>6. ~(q < p)
  <2>1. SUFFICES ASSUME q < p PROVE FALSE
    OBVIOUS
  <2>2. s * p >= s * q + s
    BY <2>1, <1>1, <1>2, Apart
  <2> QED
    BY <2>2, <1>1, <1>2, <1>3, <1>4
<1>7. p = q
  BY <1>1, <1>2, <1>5, <1>6
<1> QED
  BY <1>1, <1>2, <1>3, <1>4, <1>7

-----------------------------------------------------------------------------
(* reconstruct_count *)

\* Below the last block, reconstruct_count returns a COUNT that is not behind the
\* receiver's, less than one turn of the octet ahead of it, and has that octet.
LEMMA Reconstructs ==
    ASSUME NEW last \in Nat, NEW seq \in 0 .. SeqSpace - 1, last < MaxSent
    PROVE  /\ reconstruct_count(last, seq) \in last .. last + SeqSpace - 1
           /\ reconstruct_count(last, seq) % SeqSpace = seq
<1> DEFINE low == last % SeqSpace
           q == last \div SeqSpace
           high == last - low
           r == reconstruct_count(last, seq)
<1>1. /\ SeqSpace \in Nat \ {0}
      /\ CountSpace \in Nat
      /\ MaxSent \in Nat
      /\ MaxSent + SeqSpace <= CountSpace
  BY NasAssumption DEF NasAssumption
<1>2. low \in 0 .. SeqSpace - 1
  BY <1>1, RemainderBound
<1>3. q \in Int /\ last = SeqSpace * q + low
  BY <1>1, Division
<1>4. r = IF high + seq >= last THEN high + seq
          ELSE ((high + SeqSpace) % CountSpace) + seq
  BY DEF reconstruct_count
<1> HIDE DEF low, q, r
<1>5. high \in Nat /\ high <= last
  BY <1>1, <1>2, <1>3, SMT
<1>6. high + SeqSpace \in Nat /\ high + SeqSpace < CountSpace
  BY <1>1, <1>5
<1>7. (high + SeqSpace) % CountSpace = high + SeqSpace
  BY <1>1, <1>6, RemainderOfSmall
<1>8. r = IF high + seq >= last THEN high + seq ELSE high + SeqSpace + seq
  BY <1>4, <1>7
<1>9. r \in last .. last + SeqSpace - 1
  BY <1>1, <1>2, <1>5, <1>8
<1>10. r % SeqSpace = seq
  <2>1. high = SeqSpace * q
    BY <1>1, <1>2, <1>3
  <2>4. r \in Nat /\ seq \in Nat /\ seq < SeqSpace
    BY <1>1, <1>9
  <2>2. CASE high + seq >= last
    <3>1. r = SeqSpace * q + seq
      BY <2>1, <2>2, <1>8
    <3> QED
      BY ONLY <3>1, <2>4, <1>1, <1>3, RemainderUnique
  <2>3. CASE ~(high + seq >= last)
    <3>1. r = SeqSpace * (q + 1) + seq
      BY <2>1, <2>3, <1>1, <1>3, <1>8
    <3>2. q + 1 \in Int
      BY <1>3
    <3> QED
      BY ONLY <3>1, <3>2, <2>4, <1>1, RemainderUnique
  <2> QED
    BY <2>2, <2>3
<1> QED
  BY <1>9, <1>10 DEF r

-----------------------------------------------------------------------------
(* The inductive invariant *)

\* With integrity protection, the receiver's COUNT is the one after the last accepted
\* message: the link between `rcv', which reconstruct_count starts from, and `got'.
\* It is not ahead of the sender's.
InStep ==
    eia => \A d \in Direction : /\ got[d].last = rcv[d] - 1
                                /\ ~got[d].replayed
                                /\ rcv[d] <= snd[d]

NasInv == NasTypeOK /\ InStep

\* The COUNT that an envelope's octet is rebuilt to.
LEMMA RebuiltInWindow ==
    ASSUME NasTypeOK, NEW d \in Direction, NEW e \in Sent, rcv[d] < MaxSent
    PROVE  /\ Rebuilt(d, e) \in rcv[d] .. rcv[d] + SeqSpace - 1
           /\ Rebuilt(d, e) % SeqSpace = e.count % SeqSpace
<1>1. SeqSpace \in Nat \ {0} /\ CountSpace \in Nat /\ MaxSent \in Nat
  BY NasAssumption DEF NasAssumption
<1>2. e.count \in Nat
  BY <1>1 DEF Sent, Envelope
<1>3. e.count % SeqSpace \in 0 .. SeqSpace - 1
  BY <1>1, <1>2, RemainderBound
<1>4. rcv[d] \in Nat
  BY <1>1 DEF NasTypeOK
<1> QED
  BY <1>3, <1>4, Reconstructs DEF Rebuilt

\* What verifies is of this direction and among the next SeqSpace messages, and all
\* of those do.
LEMMA AcceptedInWindow ==
    ASSUME NasTypeOK, eia, NEW d \in Direction, NEW e \in Sent, rcv[d] < MaxSent
    PROVE  Accepts(d, e) <=> /\ e.dir = d
                             /\ e.count \in rcv[d] .. rcv[d] + SeqSpace - 1
<1>1. SeqSpace \in Nat \ {0} /\ CountSpace \in Nat /\ MaxSent \in Nat
  BY NasAssumption DEF NasAssumption
<1>2. rcv[d] \in Nat /\ e.count \in Nat
  BY <1>1 DEF NasTypeOK, Sent, Envelope
<1>3. /\ Rebuilt(d, e) \in rcv[d] .. rcv[d] + SeqSpace - 1
      /\ Rebuilt(d, e) % SeqSpace = e.count % SeqSpace
  BY RebuiltInWindow
<1>4. Rebuilt(d, e) \in Nat
  BY <1>2, <1>3
<1>5. ASSUME Accepts(d, e)
      PROVE  e.dir = d /\ e.count \in rcv[d] .. rcv[d] + SeqSpace - 1
  BY <1>3, <1>5 DEF Accepts, Matches
<1>6. ASSUME e.dir = d, e.count \in rcv[d] .. rcv[d] + SeqSpace - 1
      PROVE  Accepts(d, e)
  <2>1. CASE e.count <= Rebuilt(d, e)
    <3>1. Rebuilt(d, e) < e.count + SeqSpace
      BY <1>1, <1>2, <1>3, <1>6
    <3>2. e.count = Rebuilt(d, e)
      BY ONLY <2>1, <3>1, <1>1, <1>2, <1>3, <1>4, SameRemainder
    <3> QED
      BY <3>2, <1>6 DEF Accepts, Matches
  <2>2. CASE Rebuilt(d, e) <= e.count
    <3>1. e.count < Rebuilt(d, e) + SeqSpace
      BY <1>1, <1>2, <1>3, <1>6
    <3>2. Rebuilt(d, e) = e.count
      BY ONLY <2>2, <3>1, <1>1, <1>2, <1>3, <1>4, SameRemainder
    <3> QED
      BY <3>2, <1>6 DEF Accepts, Matches
  <2> QED
    BY <2>1, <2>2, <1>2, <1>4
<1> QED
  BY <1>5, <1>6

\* Accepting an envelope moves the receiver's COUNT forward and does not wrap it.
LEMMA StepsPast ==
    ASSUME NasTypeOK, NEW d \in Direction, NEW e \in Sent, rcv[d] < MaxSent
    PROVE  /\ Rebuilt(d, e) \in Nat
           /\ Rebuilt(d, e) >= rcv[d]
           /\ (Rebuilt(d, e) + 1) % CountSpace = Rebuilt(d, e) + 1
           /\ Rebuilt(d, e) + 1 \in 0 .. CountSpace - 1
<1>1. /\ SeqSpace \in Nat \ {0}
      /\ CountSpace \in Nat
      /\ MaxSent \in Nat
      /\ MaxSent + SeqSpace <= CountSpace
  BY NasAssumption DEF NasAssumption
<1>2. rcv[d] \in Nat
  BY <1>1 DEF NasTypeOK
<1>3. Rebuilt(d, e) \in rcv[d] .. rcv[d] + SeqSpace - 1
  BY RebuiltInWindow
<1>4. Rebuilt(d, e) \in Nat /\ Rebuilt(d, e) >= rcv[d] /\ Rebuilt(d, e) + 1 < CountSpace
  BY <1>1, <1>2, <1>3
<1>5. (Rebuilt(d, e) + 1) % CountSpace = Rebuilt(d, e) + 1
  BY <1>1, <1>4, RemainderOfSmall
<1> QED
  BY <1>1, <1>4, <1>5

\* Fresh contexts satisfy the invariant (NasSecurityContext::new).
LEMMA NasInitInv == NasInit => NasInv
<1> SUFFICES ASSUME NasInit PROVE NasInv
  OBVIOUS
<1>1. /\ SeqSpace \in Nat \ {0}
      /\ CountSpace \in Nat
      /\ MaxSent \in Nat
      /\ MaxSent + SeqSpace <= CountSpace
  BY NasAssumption DEF NasAssumption
<1>2. NasTypeOK
  BY <1>1 DEF NasInit, NasTypeOK
<1>3. InStep
  BY DEF NasInit, InStep
<1> QED
  BY <1>2, <1>3 DEF NasInv

\* protect consumes the sender's next COUNT.
LEMMA ProtectStep ==
    ASSUME NasTypeOK, NEW d \in Direction, protect(d)
    PROVE  /\ snd[d] \in Nat
           /\ snd' = [snd EXCEPT ![d] = snd[d] + 1]
           /\ snd[d] + 1 \in 0 .. MaxSent
<1>1. /\ SeqSpace \in Nat \ {0}
      /\ CountSpace \in Nat
      /\ MaxSent \in Nat
      /\ MaxSent + SeqSpace <= CountSpace
  BY NasAssumption DEF NasAssumption
<1>2. snd[d] \in Nat /\ snd[d] < MaxSent
  BY <1>1 DEF NasTypeOK, protect
<1>3. (snd[d] + 1) % CountSpace = snd[d] + 1
  BY <1>1, <1>2, RemainderOfSmall
<1>4. snd' = [snd EXCEPT ![d] = (snd[d] + 1) % CountSpace]
  BY DEF protect
<1>5. snd' = [snd EXCEPT ![d] = snd[d] + 1]
  BY ONLY <1>3, <1>4, Zenon
<1>6. snd[d] + 1 \in 0 .. MaxSent
  BY <1>1, <1>2
<1> QED
  BY <1>2, <1>5, <1>6

\* Every protect and every unprotect, accepted or refused, preserves the invariant.
LEMMA NasNextInv == NasInv /\ [NasNext]_nasVars => NasInv'
<1> SUFFICES ASSUME NasInv, [NasNext]_nasVars PROVE NasInv'
  OBVIOUS
<1> USE DEF NasInv
<1>1. CASE UNCHANGED nasVars
  BY <1>1 DEF nasVars, NasTypeOK, InStep
<1>2. ASSUME NEW d \in Direction, protect(d) PROVE NasInv'
  <2>1. snd' = [snd EXCEPT ![d] = snd[d] + 1] /\ snd[d] + 1 \in 0 .. MaxSent
    BY <1>2, ProtectStep
  <2>2. UNCHANGED <<eia, rcv, got>>
    BY <1>2 DEF protect
  <2>3. NasTypeOK'
    BY <2>1, <2>2 DEF NasTypeOK
  <2>4. InStep'
    BY <2>1, <2>2 DEF InStep, NasTypeOK
  <2> QED
    BY <2>3, <2>4
<1>3. ASSUME NEW d \in Direction, NEW e \in Sent, unprotect(d, e) PROVE NasInv'
  <2>1. UNCHANGED <<eia, snd>> /\ rcv[d] < MaxSent /\ e \in InFlight
    BY <1>3 DEF unprotect
  <2>2. CASE ~Accepts(d, e) /\ UNCHANGED <<rcv, got>>
    BY <2>1, <2>2 DEF NasTypeOK, InStep
  <2>3. CASE /\ Accepts(d, e)
             /\ rcv' = [rcv EXCEPT ![d] = (Rebuilt(d, e) + 1) % CountSpace]
             /\ got' = [got EXCEPT ![d] =
                          [last     |-> e.count,
                           replayed |-> got[d].replayed \/ e.count <= got[d].last]]
    <3>1. /\ Rebuilt(d, e) \in Nat
          /\ Rebuilt(d, e) >= rcv[d]
          /\ rcv' = [rcv EXCEPT ![d] = Rebuilt(d, e) + 1]
          /\ Rebuilt(d, e) + 1 \in 0 .. CountSpace - 1
      BY <2>1, <2>3, StepsPast
    <3>2. e.count \in 0 .. MaxSent - 1
      BY DEF Sent, Envelope
    <3>3. NasTypeOK'
      <4>1. rcv' \in [Direction -> 0 .. CountSpace - 1]
        BY <3>1 DEF NasTypeOK
      <4>2. MaxSent \in Nat
        BY NasAssumption DEF NasAssumption
      <4>3. e.count \in -1 .. MaxSent - 1
        BY <3>2, <4>2
      <4>4. got' \in [Direction -> [last : -1 .. MaxSent - 1, replayed : BOOLEAN]]
        BY <2>3, <4>3 DEF NasTypeOK
      <4> QED
        BY <2>1, <4>1, <4>4 DEF NasTypeOK
    <3>4. InStep'
      <4>1. SUFFICES ASSUME eia', NEW c \in Direction
                     PROVE  /\ got'[c].last = rcv'[c] - 1
                            /\ ~got'[c].replayed
                            /\ rcv'[c] <= snd'[c]
        BY DEF InStep
      <4>2. /\ got[c].last = rcv[c] - 1
            /\ ~got[c].replayed
            /\ rcv[c] <= snd[c]
        BY <4>1, <2>1 DEF InStep
      <4>3. CASE c # d
        BY <4>2, <4>3, <2>1, <2>3, <3>1 DEF NasTypeOK
      <4>4. CASE c = d
        <5>1. Matches(d, e) /\ e.dir = d /\ e.count = Rebuilt(d, e)
          BY <4>1, <2>1, <2>3 DEF Accepts, Matches
        <5>2. got'[d] = [last     |-> e.count,
                         replayed |-> got[d].replayed \/ e.count <= got[d].last]
          BY <2>3 DEF NasTypeOK
        <5>3. rcv'[d] = e.count + 1
          BY <3>1, <5>1 DEF NasTypeOK
        <5>4. ~(e.count <= got[d].last)
          <6>1. rcv[d] \in Int
            BY DEF NasTypeOK
          <6> QED
            BY <6>1, <3>1, <5>1, <4>2, <4>4
        <5>5. got'[d].last = rcv'[d] - 1
          BY <5>2, <5>3, <3>1, <5>1
        <5>6. got'[d].replayed = (got[d].replayed \/ e.count <= got[d].last)
          BY ONLY <5>2
        <5>7. ~got[d].replayed
          BY ONLY <4>2, <4>4
        <5>8. ~got'[d].replayed
          BY ONLY <5>6, <5>4, <5>7
        <5>9. rcv'[d] <= snd'[d]
          <6>1. snd' = snd /\ snd[d] \in Int /\ e.count < snd[d]
            BY <2>1, <5>1 DEF InFlight, NasTypeOK
          <6> QED
            BY <6>1, <3>2, <5>3
        <5> QED
          BY <5>5, <5>8, <5>9, <4>4
      <4> QED
        BY <4>3, <4>4
    <3> QED
      BY <3>3, <3>4
  <2> QED
    BY <1>3, <2>2, <2>3 DEF unprotect
<1> QED
  BY <1>1, <1>2, <1>3 DEF NasNext

-----------------------------------------------------------------------------
(* Theorems *)

\* The inductive invariant: under integrity protection the receiver's COUNT is always
\* just past the message it last accepted (unprotect).
THEOREM NasInvariant == NasSpec => []NasInv
BY NasInitInv, NasNextInv, PTL DEF NasSpec

\* The contexts keep their types, and COUNT its width.
THEOREM NasTypeCorrect == NasSpec => []NasTypeOK
BY NasInvariant, PTL DEF NasInv

\* Under integrity protection unprotect_uplink and unprotect_downlink hand over no
\* message twice or out of order, for every loss, delay, repetition and reordering.
THEOREM NasNoReplay == NasSpec => []NoReplay
<1>1. NasInv => NoReplay
  BY DEF NasInv, InStep, NoReplay
<1> QED
  BY <1>1, NasInvariant, PTL

\* Under integrity protection no arrival puts a receiver out of reach of its sender:
\* the next message verifies unless SeqSpace messages in a row were missed.
THEOREM NasInTouch == NasSpec => []InTouch
<1>1. NasInv => InTouch
  <2>1. SUFFICES ASSUME NasInv, eia, NEW d \in Direction, snd[d] < MaxSent,
                        snd[d] - rcv[d] < SeqSpace
                 PROVE  Accepts(d, Envelope(d, snd[d]))
    BY DEF InTouch
  <2>2. SeqSpace \in Nat \ {0} /\ MaxSent \in Nat
    BY NasAssumption DEF NasAssumption
  <2>3. snd[d] \in 0 .. MaxSent - 1 /\ rcv[d] \in Nat /\ rcv[d] <= snd[d]
    BY <2>1, <2>2 DEF NasInv, NasTypeOK, InStep
  <2>4. PICK e \in Sent : e = Envelope(d, snd[d]) /\ e.dir = d /\ e.count = snd[d]
    <3>1. Envelope(d, snd[d]) \in Sent
      BY <2>3 DEF Sent
    <3>2. Envelope(d, snd[d]).dir = d /\ Envelope(d, snd[d]).count = snd[d]
      BY DEF Envelope
    <3> QED
      BY <3>1, <3>2
  <2>5. rcv[d] < MaxSent /\ e.count \in rcv[d] .. rcv[d] + SeqSpace - 1
    BY <2>1, <2>2, <2>3, <2>4
  <2> QED
    BY <2>1, <2>4, <2>5, AcceptedInWindow DEF NasInv
<1> QED
  BY <1>1, NasInvariant, PTL

\* The receiver accepts exactly the next SeqSpace messages: reconstruct_count rebuilds
\* the COUNT of each of those and of no other.
THEOREM NasWindow == NasSpec => []Window
<1>1. NasInv => Window
  <2>1. SUFFICES ASSUME NasTypeOK, eia, NEW d \in Direction, NEW e \in InFlight,
                        rcv[d] < MaxSent
                 PROVE  Accepts(d, e) <=> /\ e.dir = d
                                          /\ e.count \in rcv[d] .. rcv[d] + SeqSpace - 1
    BY DEF NasInv, Window
  <2>2. e \in Sent
    BY DEF InFlight
  <2> QED
    BY <2>1, <2>2, AcceptedInWindow
<1> QED
  BY <1>1, NasInvariant, PTL

\* No COUNT ever moves backwards, with and without integrity protection.
THEOREM NasCountsForward == NasSpec => CountsForward
<1> DEFINE Forward == \A d \in Direction : snd'[d] >= snd[d] /\ rcv'[d] >= rcv[d]
<1>1. NasTypeOK /\ [NasNext]_nasVars => [Forward]_nasVars
  <2>1. SUFFICES ASSUME NasTypeOK, NasNext PROVE Forward
    OBVIOUS
  <2>2. \A c \in Direction : snd[c] \in Int /\ rcv[c] \in Int
    BY <2>1 DEF NasTypeOK
  <2>3. ASSUME NEW d \in Direction, protect(d) PROVE Forward
    <3>1. snd[d] \in Nat /\ snd' = [snd EXCEPT ![d] = snd[d] + 1] /\ rcv' = rcv
      BY <2>1, <2>3, ProtectStep DEF protect
    <3> QED
      BY <2>1, <2>2, <3>1 DEF NasTypeOK
  <2>4. ASSUME NEW d \in Direction, NEW e \in Sent, unprotect(d, e) PROVE Forward
    <3>1. snd' = snd /\ rcv[d] < MaxSent
      BY <2>4 DEF unprotect
    <3>2. \/ rcv' = rcv
          \/ rcv' = [rcv EXCEPT ![d] = (Rebuilt(d, e) + 1) % CountSpace]
      BY <2>4 DEF unprotect
    <3>3. /\ (Rebuilt(d, e) + 1) % CountSpace = Rebuilt(d, e) + 1
          /\ Rebuilt(d, e) \in Nat
          /\ Rebuilt(d, e) >= rcv[d]
      BY <2>1, <3>1, StepsPast
    <3> QED
      BY <2>1, <2>2, <3>1, <3>2, <3>3 DEF NasTypeOK
  <2> QED
    BY <2>1, <2>3, <2>4 DEF NasNext
<1> QED
  BY <1>1, NasTypeCorrect, PTL DEF NasSpec, CountsForward
=============================================================================
