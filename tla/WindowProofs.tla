---------------------------- MODULE WindowProofs ----------------------------
(***************************************************************************)
(* What is proved of the window and of recorded input, for every script,   *)
(* every keyboard and every order of key presses: a recording replays to   *)
(* the delivery it records, the keys a program sees held are the host's,   *)
(* and a run that passes has delivered what it was asked to.               *)
(***************************************************************************)
EXTENDS Window, Induction, FiniteSetTheorems, SequenceTheorems, TLAPS

-----------------------------------------------------------------------------
(* The input device (Window). *)

\* What can be recorded: the scripts' entries and the host's keys with their frame.
Scripted == UNION {{s[i] : i \in DOMAIN s} : s \in Scripts}

Typed == [frame : Nat, e : [press : BOOLEAN, code : Codes]]

Recs == Scripted \cup Typed

Evs == {x.e : x \in Recs}

Devices == [queue : Seq(Evs), keys : SUBSET {v.code : v \in Evs}, dropped : Nat, record : Seq(Recs)]

Offer(d, x) == emu_queue_event(d, x.frame, x.e)

KeyStep(k, e) == IF e.press THEN k \cup {e.code} ELSE k \ {e.code}

LEMMA RecsAreLines == \A x \in Recs : x = [frame |-> x.frame, e |-> x.e] /\ x.frame \in Nat /\ x.e \in Evs
<1> SUFFICES ASSUME NEW x \in Recs PROVE x = [frame |-> x.frame, e |-> x.e] /\ x.frame \in Nat
  BY Zenon DEF Evs
<1>1. CASE x \in Typed
  BY <1>1, Zenon DEF Typed
<1>2. CASE x \in Scripted
  <2>1. PICK s \in Scripts : x \in {s[i] : i \in DOMAIN s}
    BY <1>2, Zenon DEF Scripted
  <2>2. PICK i \in DOMAIN s : x = s[i]
    BY <2>1, Zenon
  <2> QED
    BY <2>2, WindowAssumption, Zenon
<1> QED
  BY <1>1, <1>2, Zenon DEF Recs

LEMMA EmptyDevice == Empty \in Devices
BY DEF Empty, Devices

\* One offer records the entry and drops it or takes it.
LEMMA OfferOne ==
    ASSUME NEW d \in Devices, NEW x \in Recs
    PROVE  /\ Offer(d, x) \in Devices
           /\ Offer(d, x).record = Append(d.record, x)
           /\ \/ Offer(d, x).dropped = d.dropped + 1
              \/ /\ Offer(d, x).dropped = d.dropped
                 /\ Offer(d, x).keys = KeyStep(d.keys, x.e)
<1>1. x = [frame |-> x.frame, e |-> x.e] /\ x.e \in Evs
  BY RecsAreLines, Zenon
<1>2. /\ d.queue \in Seq(Evs) /\ d.keys \in SUBSET {v.code : v \in Evs} /\ d.dropped \in Nat
      /\ d.record \in Seq(Recs)
  BY Zenon DEF Devices
<1>3. Append(d.record, x) \in Seq(Recs) /\ Append(d.queue, x.e) \in Seq(Evs)
  BY <1>1, <1>2
<1>4. CASE Len(d.queue) = QueueSize
  <2> DEFINE r == Append(d.record, x)
             m == d.dropped + 1
  <2>1. Offer(d, x) = [d EXCEPT !.record = r, !.dropped = m]
    BY <1>1, <1>4, Zenon DEF Offer, emu_queue_event
  <2>2. r \in Seq(Recs) /\ m \in Nat
    BY <1>2, <1>3
  <2> HIDE DEF r, m
  <2>3. Offer(d, x) \in Devices /\ Offer(d, x).record = r /\ Offer(d, x).dropped = m
    BY <1>2, <2>1, <2>2, Zenon DEF Devices
  <2> QED
    BY <2>3, Zenon DEF r, m
<1>5. CASE Len(d.queue) # QueueSize
  <2> DEFINE k == IF x.e.press THEN d.keys \cup {x.e.code} ELSE d.keys \ {x.e.code}
  <2>1. Offer(d, x) = [d EXCEPT !.record = Append(d.record, x), !.queue = Append(d.queue, x.e), !.keys = k]
    BY <1>1, <1>5, Zenon DEF Offer, emu_queue_event
  <2>2. k \in SUBSET {v.code : v \in Evs}
    BY <1>1, <1>2, Zenon
  <2> HIDE DEF k
  <2>3. /\ Offer(d, x) \in Devices /\ Offer(d, x).record = Append(d.record, x)
        /\ Offer(d, x).dropped = d.dropped /\ Offer(d, x).keys = k
    BY <1>2, <1>3, <2>1, <2>2, Zenon DEF Devices
  <2> QED
    BY <2>3, Zenon DEF k, KeyStep
<1> QED
  BY <1>4, <1>5, Zenon

\* The offers of a script, entry by entry.
LEMMA OfferedSteps ==
    ASSUME NEW d \in Devices, NEW s \in Seq(Recs), NEW i \in 1 .. Len(s) + 1
    PROVE  /\ Offered(d, s, i) \in [i - 1 .. Len(s) -> Devices]
           /\ Offered(d, s, i)[i - 1] = d
           /\ \A n \in i .. Len(s) : Offered(d, s, i)[n] = Offer(Offered(d, s, i)[n - 1], s[n])
<1> DEFINE a == i - 1
           b == Len(s)
           G == [n \in Int |-> [y \in Devices |-> IF n \in i .. b THEN Offer(y, s[n]) ELSE y]]
           P(f) == f = [n \in a .. b |-> IF n = a THEN d ELSE emu_queue_event(f[n - 1], s[n].frame, s[n].e)]
<1>1. a \in Int /\ b \in Int /\ a <= b /\ a + 1 = i /\ \A n \in i .. b : n \in a .. b /\ n - 1 \in a .. b /\ n # a
  OBVIOUS
<1>2. \A n \in i .. b : s[n] \in Recs
  OBVIOUS
<1>3. G \in [Int -> [Devices -> Devices]]
  BY <1>2, OfferOne, Zenon
<1>4. \A n \in i .. b : \A y \in Devices : G[n][y] = Offer(y, s[n])
  OBVIOUS
<1> HIDE DEF G, a, b
<1>4a. PICK f : IsRun(f, Devices, d, a, b, G)
  BY <1>1, <1>3, Iterate, Zenon
<1>5. f \in [a .. b -> Devices] /\ f[a] = d /\ \A n \in a + 1 .. b : f[n] = G[n][f[n - 1]]
  BY <1>4a, Zenon DEF IsRun
<1>6. \A n \in i .. b : f[n] = Offer(f[n - 1], s[n])
  BY <1>1, <1>4, <1>5, Zenon
<1>7. P(f)
  <2>1. \A n \in a .. b : f[n] = IF n = a THEN d ELSE emu_queue_event(f[n - 1], s[n].frame, s[n].e)
    BY <1>1, <1>5, <1>6 DEF Offer
  <2> QED
    BY <1>5, <2>1, Zenon
<1>8. Offered(d, s, i) = CHOOSE g : P(g)
  BY Zenon DEF Offered, a, b
<1>9. P(Offered(d, s, i))
  BY <1>7, <1>8, Zenon
<1> DEFINE g == Offered(d, s, i)
<1> HIDE DEF g
<1>10. \A n \in a .. b : g[n] = IF n = a THEN d ELSE Offer(g[n - 1], s[n])
  <2>1. g = [n \in a .. b |-> IF n = a THEN d ELSE emu_queue_event(g[n - 1], s[n].frame, s[n].e)]
    BY <1>9, Zenon DEF g
  <2> QED
    BY <2>1, Zenon DEF Offer
<1>11. DOMAIN g = a .. b /\ g = [n \in a .. b |-> g[n]]
  <2>1. g = [n \in a .. b |-> IF n = a THEN d ELSE emu_queue_event(g[n - 1], s[n].frame, s[n].e)]
    BY <1>9, Zenon DEF g
  <2> QED
    BY <2>1, Zenon
<1> DEFINE E(k) == a + k <= b => g[a + k] = f[a + k]
           T == {k \in Nat : E(k)}
<1>12. E(0)
  <2>1. a + 0 = a /\ a \in a .. b
    BY <1>1
  <2>2. g[a] = d
    BY <1>10, <2>1, Zenon
  <2> QED
    BY <1>5, <2>1, <2>2, Zenon
<1>13. ASSUME NEW k \in Nat, E(k) PROVE E(k + 1)
  <2> SUFFICES ASSUME a + (k + 1) <= b PROVE g[a + (k + 1)] = f[a + (k + 1)]
    BY Zenon
  <2>1. a + (k + 1) \in i .. b /\ (a + (k + 1)) - 1 = a + k /\ a + k <= b
    BY <1>1
  <2> QED
    BY <1>1, <1>6, <1>10, <1>13, <2>1
<1> HIDE DEF E
<1>13a. 0 \in T /\ \A k \in Nat : k \in T => k + 1 \in T
  BY <1>12, <1>13
<1>13b. \A k \in T : E(k)
  BY Zenon
<1> HIDE DEF T
<1>14. Nat \subseteq T
  BY <1>13a, InductiveSet, Zenon
<1>15. \A n \in a .. b : g[n] = f[n]
  <2> SUFFICES ASSUME NEW n \in a .. b PROVE g[n] = f[n]
    BY Zenon
  <2>1. n - a \in Nat /\ a + (n - a) = n /\ n <= b
    BY <1>1
  <2> QED
    BY <1>13b, <1>14, <2>1, Zenon DEF E
<1> QED
  BY <1>1, <1>5, <1>6, <1>11, <1>15 DEF g, a, b

\* Equal entries have equal effects, wherever they stand in their scripts.
LEMMA OfferedSame ==
    ASSUME NEW d \in Devices, NEW s \in Seq(Recs), NEW t \in Seq(Recs),
           NEW i \in 1 .. Len(s) + 1, NEW j \in 1 .. Len(t) + 1, NEW m \in Nat,
           i - 1 + m <= Len(s), j - 1 + m <= Len(t),
           \A k \in 1 .. m : s[i - 1 + k] = t[j - 1 + k]
    PROVE  Offered(d, s, i)[i - 1 + m] = Offered(d, t, j)[j - 1 + m]
<1> DEFINE f == Offered(d, s, i)
           g == Offered(d, t, j)
           E(k) == k <= m => f[i - 1 + k] = g[j - 1 + k]
           T == {k \in Nat : E(k)}
<1>1. f[i - 1] = d /\ \A n \in i .. Len(s) : f[n] = Offer(f[n - 1], s[n])
  BY OfferedSteps
<1>2. g[j - 1] = d /\ \A n \in j .. Len(t) : g[n] = Offer(g[n - 1], t[n])
  BY OfferedSteps
<1> HIDE DEF f, g
<1>3. E(0)
  BY <1>1, <1>2
<1>4. ASSUME NEW k \in Nat, E(k) PROVE E(k + 1)
  <2> SUFFICES ASSUME k + 1 <= m PROVE f[i - 1 + (k + 1)] = g[j - 1 + (k + 1)]
    BY Zenon
  <2>1. /\ i - 1 + (k + 1) \in i .. Len(s) /\ (i - 1 + (k + 1)) - 1 = i - 1 + k
        /\ j - 1 + (k + 1) \in j .. Len(t) /\ (j - 1 + (k + 1)) - 1 = j - 1 + k
        /\ k + 1 \in 1 .. m /\ k <= m
    OBVIOUS
  <2>2. f[i - 1 + k] = g[j - 1 + k] /\ s[i - 1 + (k + 1)] = t[j - 1 + (k + 1)]
    BY <1>4, <2>1, Zenon
  <2> QED
    BY <1>1, <1>2, <2>1, <2>2, Zenon
<1> HIDE DEF E
<1>4a. 0 \in T /\ \A k \in Nat : k \in T => k + 1 \in T
  BY <1>3, <1>4, 0 \in Nat, \A k \in Nat : k + 1 \in Nat, Zenon
<1>4b. \A k \in T : E(k)
  BY Zenon
<1> HIDE DEF T
<1>5. m \in T
  BY <1>4a, InductiveSet, Zenon
<1> QED
  BY <1>4b, <1>5 DEF E, f, g

\* Offers can be interrupted and resumed.
LEMMA OfferedOn ==
    ASSUME NEW d \in Devices, NEW s \in Seq(Recs), NEW i \in 1 .. Len(s) + 1,
           NEW j \in i .. Len(s) + 1, NEW n \in j - 1 .. Len(s)
    PROVE  Offered(Offered(d, s, i)[j - 1], s, j)[n] = Offered(d, s, i)[n]
<1> DEFINE f == Offered(d, s, i)
           g == Offered(f[j - 1], s, j)
           E(k) == j - 1 + k <= Len(s) => g[j - 1 + k] = f[j - 1 + k]
           T == {k \in Nat : E(k)}
<1>1. f \in [i - 1 .. Len(s) -> Devices] /\ \A k \in i .. Len(s) : f[k] = Offer(f[k - 1], s[k])
  BY OfferedSteps, Zenon
<1>2. f[j - 1] \in Devices /\ j \in 1 .. Len(s) + 1
  BY <1>1
<1>3. g[j - 1] = f[j - 1] /\ \A k \in j .. Len(s) : g[k] = Offer(g[k - 1], s[k])
  BY <1>2, OfferedSteps
<1> HIDE DEF f, g
<1>4. E(0)
  BY <1>3
<1>5. ASSUME NEW k \in Nat, E(k) PROVE E(k + 1)
  <2> SUFFICES ASSUME j - 1 + (k + 1) <= Len(s) PROVE g[j - 1 + (k + 1)] = f[j - 1 + (k + 1)]
    BY Zenon
  <2>1. /\ j - 1 + (k + 1) \in j .. Len(s) /\ j - 1 + (k + 1) \in i .. Len(s)
        /\ (j - 1 + (k + 1)) - 1 = j - 1 + k /\ j - 1 + k <= Len(s)
    OBVIOUS
  <2> QED
    BY <1>1, <1>3, <1>5, <2>1, Zenon
<1> HIDE DEF E
<1>6. n - (j - 1) \in Nat /\ j - 1 + (n - (j - 1)) = n /\ n <= Len(s)
  OBVIOUS
<1>6a. 0 \in T /\ \A k \in Nat : k \in T => k + 1 \in T
  BY <1>4, <1>5
<1>6b. \A k \in T : E(k)
  BY Zenon
<1> HIDE DEF T
<1>7. n - (j - 1) \in T
  BY <1>6, <1>6a, InductiveSet, Zenon
<1> QED
  BY <1>6, <1>6b, <1>7, Zenon DEF E, f, g

\* Offering entries i .. n adds exactly them to the record.
LEMMA OfferedRecord ==
    ASSUME NEW d \in Devices, NEW s \in Seq(Recs), NEW i \in 1 .. Len(s) + 1, NEW m \in Nat,
           i - 1 + m <= Len(s)
    PROVE  LET r == Offered(d, s, i)[i - 1 + m].record
           IN  /\ Len(r) = Len(d.record) + m
               /\ \A k \in 1 .. Len(d.record) : r[k] = d.record[k]
               /\ \A k \in 1 .. m : r[Len(d.record) + k] = s[i - 1 + k]
<1> DEFINE f == Offered(d, s, i)
           l == Len(d.record)
           Adds(r, k) == /\ Len(r) = l + k
                         /\ \A n \in 1 .. l : r[n] = d.record[n]
                         /\ \A n \in 1 .. k : r[l + n] = s[i - 1 + n]
           E(k) == i - 1 + k <= Len(s) => Adds(f[i - 1 + k].record, k)
           T == {k \in Nat : E(k)}
<1>1. /\ f \in [i - 1 .. Len(s) -> Devices] /\ f[i - 1] = d
      /\ \A n \in i .. Len(s) : f[n] = Offer(f[n - 1], s[n])
  BY OfferedSteps, Zenon
<1>2. \A e \in Devices : e.record \in Seq(Recs)
  BY Zenon DEF Devices
<1>3. l \in Nat /\ d.record \in Seq(Recs)
  BY <1>2
<1> HIDE DEF f
<1>4. E(0)
  BY <1>1, <1>3
<1> HIDE DEF l
<1>5. ASSUME NEW k \in Nat, E(k) PROVE E(k + 1)
  <2> SUFFICES ASSUME i - 1 + (k + 1) <= Len(s) PROVE Adds(f[i - 1 + (k + 1)].record, k + 1)
    BY Zenon
  <2>1. /\ i - 1 + (k + 1) \in i .. Len(s) /\ (i - 1 + (k + 1)) - 1 = i - 1 + k
        /\ i - 1 + k \in i - 1 .. Len(s) /\ i - 1 + k <= Len(s)
    OBVIOUS
  <2> DEFINE q == f[i - 1 + k].record
             x == s[i - 1 + (k + 1)]
  <2>2a. f[i - 1 + k] \in Devices
    BY <1>1, <2>1, Zenon
  <2>2b. x \in Recs
    BY <2>1
  <2>2. f[i - 1 + k] \in Devices /\ x \in Recs
    BY <2>2a, <2>2b, Zenon
  <2>3. q \in Seq(Recs) /\ Adds(q, k)
    BY <1>2, <1>5, <2>1, <2>2, Zenon
  <2>4a. f[i - 1 + (k + 1)] = Offer(f[i - 1 + k], x)
    BY <1>1, <2>1, Zenon
  <2> HIDE DEF x
  <2>4. f[i - 1 + (k + 1)].record = Append(q, x)
    BY <2>4a, <2>2, OfferOne, Zenon
  <2> HIDE DEF q
  <2>5a. Len(q) = l + k /\ Len(Append(q, x)) = Len(q) + 1 /\ Append(q, x)[Len(q) + 1] = x
         /\ \A n \in 1 .. Len(q) : Append(q, x)[n] = q[n]
    BY <2>2, <2>3
  <2>5. /\ Len(Append(q, x)) = l + (k + 1) /\ Append(q, x)[l + (k + 1)] = x
        /\ \A n \in 1 .. l + k : Append(q, x)[n] = q[n]
    BY <1>3, <2>5a, l + k + 1 = l + (k + 1), Zenon
  <2>6. \A n \in 1 .. l : n \in 1 .. l + k
    BY <1>3
  <2>7. \A n \in 1 .. k + 1 : n = k + 1 \/ (n \in 1 .. k /\ l + n \in 1 .. l + k)
    BY <1>3
  <2>8. \A n \in 1 .. k + 1 : Append(q, x)[l + n] = s[i - 1 + n]
    BY <2>3, <2>5, <2>7, Zenon DEF x
  <2>9. \A n \in 1 .. l : Append(q, x)[n] = d.record[n]
    BY <2>3, <2>5, <2>6, Zenon
  <2> QED
    BY <2>4, <2>5, <2>8, <2>9, Zenon
<1> HIDE DEF E
<1>5a. 0 \in T /\ \A k \in Nat : k \in T => k + 1 \in T
  BY <1>4, <1>5
<1>5b. \A k \in T : E(k)
  BY Zenon
<1> HIDE DEF T
<1>6. m \in T
  BY <1>5a, InductiveSet, Zenon
<1> QED
  BY <1>5b, <1>6, Zenon DEF E, f, l

\* The delivery loop stops at the first entry that is not due.
LEMMA DueEndStops ==
    ASSUME NEW s \in Seq(Recs), NEW i \in 1 .. Len(s) + 1, NEW frame \in Nat
    PROVE  /\ DueEnd(s, i, frame) \in i - 1 .. Len(s)
           /\ \A k \in i .. DueEnd(s, i, frame) : s[k].frame <= frame
           /\ DueEnd(s, i, frame) < Len(s) => s[DueEnd(s, i, frame) + 1].frame > frame
<1> DEFINE late == {k \in i .. Len(s) : s[k].frame > frame}
<1>1. \A k \in 1 .. Len(s) : s[k].frame \in Nat
  BY RecsAreLines
<1>2. CASE late = {}
  <2>1. DueEnd(s, i, frame) = Len(s)
    BY <1>2, Zenon DEF DueEnd
  <2>2. \A k \in i .. Len(s) : s[k].frame <= frame
    BY <1>1, <1>2
  <2> QED
    BY <2>1, <2>2
<1>3. CASE late # {}
  <2>1. late \subseteq Nat
    OBVIOUS
  <2>2. PICK m \in late : \A k \in late : m <= k
    BY <1>3, <2>1, LeastNat, Zenon
  <2>3. DueEnd(s, i, frame) = Min(late) - 1
    BY <1>3, Zenon DEF DueEnd
  <2>4. Min(late) = m
    <3> HIDE DEF late
    <3>1. Min(late) = CHOOSE k \in late : \A l \in late : k <= l
      BY Zenon DEF Min
    <3>2. Min(late) \in late /\ \A l \in late : Min(late) <= l
      BY <2>2, <3>1, Zenon
    <3>3. Min(late) <= m /\ m <= Min(late) /\ Min(late) \in Nat /\ m \in Nat
      BY <2>1, <2>2, <3>2, Zenon
    <3> DEFINE y == Min(late)
    <3> HIDE DEF y
    <3>4. y <= m /\ m <= y /\ y \in Nat /\ m \in Nat
      BY <3>3, Zenon DEF y
    <3> QED
      BY <3>4 DEF y
  <2>5. m \in i .. Len(s) /\ s[m].frame > frame
    BY Zenon
  <2>6. \A k \in i .. m - 1 : k \in i .. Len(s) /\ k \in 1 .. Len(s) /\ ~ (m <= k)
    BY <2>5
  <2>7. \A k \in i .. m - 1 : s[k].frame <= frame
    BY <1>1, <2>2, <2>6
  <2> HIDE DEF late
  <2>8. DueEnd(s, i, frame) = m - 1 /\ (m - 1) + 1 = m /\ m - 1 \in i - 1 .. Len(s)
    BY <2>3, <2>4, <2>5
  <2> QED
    BY <2>5, <2>7, <2>8, Zenon
<1> QED
  BY <1>2, <1>3, Zenon

LEMMA DueEndIs ==
    ASSUME NEW s \in Seq(Recs), NEW i \in 1 .. Len(s) + 1, NEW frame \in Nat, NEW m \in i - 1 .. Len(s),
           \A k \in i .. m : s[k].frame <= frame, m < Len(s) => s[m + 1].frame > frame
    PROVE  DueEnd(s, i, frame) = m
<1> DEFINE q == DueEnd(s, i, frame)
<1>1. /\ q \in i - 1 .. Len(s) /\ \A k \in i .. q : s[k].frame <= frame
      /\ q < Len(s) => s[q + 1].frame > frame
  BY DueEndStops, Zenon
<1> HIDE DEF q
<1>2. \A k \in 1 .. Len(s) : s[k].frame \in Nat
  BY RecsAreLines
<1>3. ~ (q < m)
  <2> SUFFICES ASSUME q < m PROVE FALSE
    BY Zenon
  <2>1. q + 1 \in i .. m /\ q + 1 \in 1 .. Len(s) /\ q < Len(s)
    BY <1>1
  <2> QED
    BY <1>1, <1>2, <2>1
<1>4. ~ (m < q)
  <2> SUFFICES ASSUME m < q PROVE FALSE
    BY Zenon
  <2>1. m + 1 \in i .. q /\ m + 1 \in 1 .. Len(s) /\ m < Len(s)
    BY <1>1
  <2> QED
    BY <1>1, <1>2, <2>1
<1> QED
  BY <1>1, <1>3, <1>4 DEF q

\* e is d after the entries by which its record is longer have been offered to it.
Prefix(r, t) == Len(r) <= Len(t) /\ \A k \in 1 .. Len(r) : r[k] = t[k]

Fed(d, e) ==
    /\ Prefix(d.record, e.record)
    /\ e = Offered(d, e.record, Len(d.record) + 1)[Len(e.record)]

LEMMA PrefixThrough ==
    ASSUME NEW r, NEW s, NEW t, Len(r) \in Nat, Len(s) \in Nat, Len(t) \in Nat, Prefix(r, s), Prefix(s, t)
    PROVE  Prefix(r, t)
<1>1. Len(r) <= Len(s) /\ Len(s) <= Len(t)
  BY Zenon DEF Prefix
<1>2. Len(r) <= Len(t) /\ \A k \in 1 .. Len(r) : k \in 1 .. Len(s)
  BY <1>1
<1> QED
  BY <1>2, Zenon DEF Prefix

LEMMA DeviceRecord == \A d \in Devices : d.record \in Seq(Recs) /\ Len(d.record) \in Nat
BY DEF Devices

LEMMA OfferFeeds ==
    ASSUME NEW d \in Devices, NEW s \in Seq(Recs), NEW i \in 1 .. Len(s) + 1, NEW n \in i - 1 .. Len(s)
    PROVE  /\ Offered(d, s, i)[n] \in Devices
           /\ Fed(d, Offered(d, s, i)[n])
           /\ \A k \in Len(d.record) + 1 .. Len(Offered(d, s, i)[n].record) :
                 \E j \in i .. n : Offered(d, s, i)[n].record[k] = s[j]
<1> DEFINE e == Offered(d, s, i)[n]
           l == Len(d.record)
           m == n - (i - 1)
<1>1. e \in Devices
  BY OfferedSteps, Zenon
<1>2. l \in Nat /\ e.record \in Seq(Recs) /\ d.record \in Seq(Recs)
  BY <1>1, DeviceRecord, Zenon
<1>3. m \in Nat /\ i - 1 + m = n /\ i - 1 + m <= Len(s)
  OBVIOUS
<1> HIDE DEF m
<1>4. /\ Len(e.record) = l + m /\ \A k \in 1 .. l : e.record[k] = d.record[k]
      /\ \A k \in 1 .. m : e.record[l + k] = s[i - 1 + k]
  BY <1>3, OfferedRecord, ZenonT(30)
<1>5. Offered(d, s, i)[i - 1 + m] = Offered(d, e.record, l + 1)[l + m]
  <2> HIDE DEF e, l
  <2>1. l + 1 \in 1 .. Len(e.record) + 1 /\ (l + 1) - 1 + m = l + m /\ l + m <= Len(e.record)
    BY <1>2, <1>3, <1>4
  <2>2. \A k \in 1 .. m : s[i - 1 + k] = e.record[(l + 1) - 1 + k]
    <3> SUFFICES ASSUME NEW k \in 1 .. m PROVE s[i - 1 + k] = e.record[(l + 1) - 1 + k]
      BY Zenon
    <3>1. (l + 1) - 1 + k = l + k
      BY <1>2, <1>3
    <3> QED
      BY <1>4, <3>1, Zenon
  <2>3. Offered(d, s, i)[i - 1 + m] = Offered(d, e.record, l + 1)[(l + 1) - 1 + m]
    BY <1>2, <1>3, <2>1, <2>2, OfferedSame, Zenon
  <2> QED
    BY <2>1, <2>3, Zenon
<1>6. Fed(d, e)
  BY <1>2, <1>3, <1>4, <1>5 DEF Fed, Prefix
<1>7. ASSUME NEW k \in l + 1 .. Len(e.record) PROVE \E j \in i .. n : e.record[k] = s[j]
  <2> HIDE DEF e, l
  <2>1. k - l \in 1 .. m /\ l + (k - l) = k /\ i - 1 + (k - l) \in i .. n
    BY <1>2, <1>3, <1>4
  <2> QED
    BY <1>4, <2>1, Zenon
<1> QED
  BY <1>1, <1>6, <1>7, Zenon

LEMMA FedOn ==
    ASSUME NEW d \in Devices, NEW e \in Devices, Fed(d, e), NEW r \in Seq(Recs), Prefix(e.record, r)
    PROVE  Offered(d, r, Len(d.record) + 1)[Len(e.record)] = e
<1> DEFINE l == Len(d.record)
           m == Len(e.record) - l
<1>1. /\ l \in Nat /\ Len(e.record) \in Nat /\ e.record \in Seq(Recs) /\ l <= Len(e.record)
      /\ Len(e.record) <= Len(r) /\ \A k \in 1 .. Len(e.record) : e.record[k] = r[k]
      /\ e = Offered(d, e.record, l + 1)[Len(e.record)]
  BY DeviceRecord, Zenon DEF Fed, Prefix
<1> HIDE DEF l
<1>2. /\ m \in Nat /\ (l + 1) - 1 + m = Len(e.record) /\ l + 1 \in 1 .. Len(e.record) + 1
      /\ (l + 1) - 1 + m <= Len(e.record) /\ (l + 1) - 1 + m <= Len(r)
      /\ l + 1 \in 1 .. Len(r) + 1
  BY <1>1
<1> HIDE DEF m
<1>3. \A k \in 1 .. m : (l + 1) - 1 + k \in 1 .. Len(e.record)
  BY <1>1, <1>2
<1>4. \A k \in 1 .. m : e.record[(l + 1) - 1 + k] = r[(l + 1) - 1 + k]
  BY <1>1, <1>3, Zenon
<1>5. Offered(d, e.record, l + 1)[(l + 1) - 1 + m] = Offered(d, r, l + 1)[(l + 1) - 1 + m]
  BY <1>1, <1>2, <1>4, OfferedSame, ZenonT(30)
<1> QED
  BY <1>1, <1>2, <1>5, Zenon DEF l

LEMMA FedTrans ==
    ASSUME NEW d \in Devices, NEW e \in Devices, NEW g \in Devices, Fed(d, e), Fed(e, g)
    PROVE  Fed(d, g)
<1>1. /\ d.record \in Seq(Recs) /\ e.record \in Seq(Recs) /\ g.record \in Seq(Recs)
      /\ Len(d.record) \in Nat /\ Len(e.record) \in Nat /\ Len(g.record) \in Nat
  BY DeviceRecord, Zenon
<1>2. Prefix(d.record, e.record) /\ Prefix(e.record, g.record)
  BY Zenon DEF Fed
<1>3. Prefix(d.record, g.record)
  BY <1>1, <1>2 DEF Prefix
<1>4. Offered(d, g.record, Len(d.record) + 1)[Len(e.record)] = e
  BY <1>1, <1>2, FedOn, Zenon
<1>5. /\ Len(d.record) + 1 \in 1 .. Len(g.record) + 1
      /\ Len(e.record) + 1 \in Len(d.record) + 1 .. Len(g.record) + 1
      /\ (Len(e.record) + 1) - 1 = Len(e.record) /\ Len(g.record) \in (Len(e.record) + 1) - 1 .. Len(g.record)
  BY <1>1, <1>2, <1>3 DEF Prefix
<1>6. Offered(Offered(d, g.record, Len(d.record) + 1)[(Len(e.record) + 1) - 1], g.record, Len(e.record) + 1)[Len(g.record)]
        = Offered(d, g.record, Len(d.record) + 1)[Len(g.record)]
  BY <1>1, <1>5, OfferedOn, Zenon
<1>7. g = Offered(e, g.record, Len(e.record) + 1)[Len(g.record)]
  BY Zenon DEF Fed
<1> QED
  BY <1>3, <1>4, <1>5, <1>6, <1>7, Zenon DEF Fed

\* A script that begins with what was fed delivers just that while only that is due.
LEMMA FedDelivers ==
    ASSUME NEW d \in Devices, NEW e \in Devices, Fed(d, e), NEW r \in Seq(Recs), Prefix(e.record, r),
           NEW n \in Nat, \A k \in 1 .. Len(r) : k <= Len(e.record) <=> r[k].frame <= n
    PROVE  Deliver(d, r, Len(d.record) + 1, n) = e
<1>1. /\ Len(d.record) \in Nat /\ Len(e.record) \in Nat /\ Len(d.record) <= Len(e.record)
      /\ Len(e.record) <= Len(r)
  BY DeviceRecord, Zenon DEF Fed, Prefix
<1>2. \A k \in 1 .. Len(r) : r[k].frame \in Nat
  BY RecsAreLines
<1> DEFINE i == Len(d.record) + 1
           m == Len(e.record)
<1>3. i \in 1 .. Len(r) + 1 /\ m \in i - 1 .. Len(r)
  BY <1>1
<1>4. \A k \in i .. m : r[k].frame <= n
  BY <1>1
<1>5. m < Len(r) => r[m + 1].frame > n
  <2> SUFFICES ASSUME m < Len(r) PROVE r[m + 1].frame > n
    BY Zenon
  <2>1. m + 1 \in 1 .. Len(r) /\ ~ (m + 1 <= m)
    BY <1>1
  <2> QED
    BY <1>2, <2>1
<1> HIDE DEF i, m
<1>6. DueEnd(r, i, n) = m
  BY <1>3, <1>4, <1>5, DueEndIs, Zenon
<1> QED
  BY <1>6, FedOn, Zenon DEF Deliver, i, m

-----------------------------------------------------------------------------
(* A recorded session replays. *)

\* The device as frame n begins, in a run whose devices after each present were a.
Base(a, p, n) == IF n = 0 THEN Empty ELSE Taken(a[n - 1], p[n])

\* a[0] .. a[m] are the devices after presents 0 .. m of a session with record r, in
\* which the guest took p[n + 1] events in frame n: each was fed the entries of its
\* frame, and those are the ones the record holds for that frame.
Past(a, m, r, p) ==
    /\ a \in [0 .. m -> Devices]
    /\ \A n \in 0 .. m :
          /\ Fed(Base(a, p, n), a[n])
          /\ Prefix(a[n].record, r)
          /\ \A k \in 1 .. Len(r) : k <= Len(a[n].record) <=> r[k].frame <= n

LEMMA TakenDevice ==
    ASSUME NEW d \in Devices, NEW n \in Nat
    PROVE  /\ Taken(d, n) \in Devices /\ Taken(d, n).record = d.record
           /\ Taken(d, n).keys = d.keys /\ Taken(d, n).dropped = d.dropped
           /\ Taken(d, n).queue = SubSeq(d.queue, n + 1, Len(d.queue))
<1> DEFINE q == SubSeq(d.queue, n + 1, Len(d.queue))
<1>1. d.queue \in Seq(Evs) /\ d.record \in Seq(Recs)
  BY Zenon DEF Devices
<1>2. q \in Seq(Evs)
  <2>1. Len(d.queue) \in Nat /\ \A k \in 1 .. Len(d.queue) : d.queue[k] \in Evs
    BY <1>1
  <2>2. \A k \in n + 1 .. Len(d.queue) : d.queue[k] \in Evs
    BY <2>1
  <2> QED
    BY <1>1, <2>1, <2>2
<1> HIDE DEF q
<1>3. Taken(d, n) = [d EXCEPT !.queue = q]
  BY Zenon DEF Taken, q
<1>4. Taken(d, n) \in Devices /\ Taken(d, n).record = d.record /\ Taken(d, n).queue = q
      /\ Taken(d, n).keys = d.keys /\ Taken(d, n).dropped = d.dropped
  BY <1>2, <1>3, Zenon DEF Devices
<1> QED
  BY <1>4, Zenon DEF q

LEMMA DevicesEqual ==
    ASSUME NEW d \in Devices, NEW e \in Devices,
           d.queue = e.queue, d.keys = e.keys, d.dropped = e.dropped, d.record = e.record
    PROVE  d = e
BY DEF Devices

LEMMA TakenNone == \A d \in Devices : Taken(d, 0) = d
<1> SUFFICES ASSUME NEW d \in Devices PROVE Taken(d, 0) = d
  BY Zenon
<1>1. d.queue \in Seq(Evs)
  BY Zenon DEF Devices
<1>2. SubSeq(d.queue, 0 + 1, Len(d.queue)) = d.queue
  BY <1>1
<1>3. /\ Taken(d, 0) \in Devices /\ Taken(d, 0).record = d.record
      /\ Taken(d, 0).keys = d.keys /\ Taken(d, 0).dropped = d.dropped
      /\ Taken(d, 0).queue = SubSeq(d.queue, 0 + 1, Len(d.queue))
  BY TakenDevice, 0 \in Nat, Zenon
<1> QED
  BY <1>2, <1>3, DevicesEqual, Zenon

LEMMA BaseDevice ==
    ASSUME NEW m \in Nat, NEW a \in [0 .. m -> Devices], NEW p \in Seq(Nat), NEW n \in 0 .. m + 1, n <= Len(p)
    PROVE  /\ Base(a, p, n) \in Devices
           /\ n = 0 => Base(a, p, n).record = <<>>
           /\ n # 0 => Base(a, p, n).record = a[n - 1].record
<1>1. CASE n = 0
  BY <1>1, EmptyDevice, Zenon DEF Base, Empty
<1>2. CASE n # 0
  <2>1. n - 1 \in 0 .. m /\ n \in 1 .. Len(p)
    BY <1>2
  <2>2. a[n - 1] \in Devices /\ p[n] \in Nat
    BY <2>1
  <2> QED
    BY <1>2, <2>2, TakenDevice, Zenon DEF Base
<1> QED
  BY <1>1, <1>2, Zenon

\* What is recorded later, for later frames, changes nothing about the past.
LEMMA PastGrows ==
    ASSUME NEW m \in Nat, NEW r \in Seq(Recs), NEW p \in Seq(Nat), NEW a, Past(a, m, r, p),
           NEW t \in Seq(Recs), Prefix(r, t), \A k \in Len(r) + 1 .. Len(t) : t[k].frame > m,
           NEW q \in Seq(Nat), \A n \in 1 .. m : p[n] = q[n]
    PROVE  Past(a, m, t, q)
<1>1. a \in [0 .. m -> Devices]
  BY Zenon DEF Past
<1>2. \A k \in 1 .. Len(t) : t[k].frame \in Nat
  BY RecsAreLines
<1>3. ASSUME NEW n \in 0 .. m PROVE Fed(Base(a, q, n), a[n])
  <2>1. Base(a, q, n) = Base(a, p, n)
    BY DEF Base
  <2> QED
    BY <2>1, Zenon DEF Past
<1>4. ASSUME NEW n \in 0 .. m
      PROVE  Prefix(a[n].record, t) /\ \A k \in 1 .. Len(t) : k <= Len(a[n].record) <=> t[k].frame <= n
  <2>1. /\ Prefix(a[n].record, r) /\ \A k \in 1 .. Len(r) : k <= Len(a[n].record) <=> r[k].frame <= n
    BY Zenon DEF Past
  <2>2. Len(a[n].record) \in Nat /\ Len(r) \in Nat /\ Len(t) \in Nat
    BY <1>1, DeviceRecord
  <2>3. Prefix(a[n].record, t)
    BY <2>1, <2>2, PrefixThrough, Zenon
  <2>4. ASSUME NEW k \in 1 .. Len(t) PROVE k <= Len(a[n].record) <=> t[k].frame <= n
    <3>1. CASE k <= Len(r)
      <4>1. k \in 1 .. Len(r)
        BY <3>1
      <4>2. t[k] = r[k]
        BY <4>1, Zenon DEF Prefix
      <4> QED
        BY <2>1, <4>1, <4>2, Zenon
    <3>2. CASE ~ (k <= Len(r))
      <4>1. k \in Len(r) + 1 .. Len(t)
        BY <2>2, <3>2
      <4>2. t[k].frame > m /\ ~ (k <= Len(a[n].record))
        BY <2>1, <2>2, <3>2, <4>1 DEF Prefix
      <4> QED
        BY <1>2, <4>2
    <3> QED
      BY <3>1, <3>2, Zenon
  <2> QED
    BY <2>3, <2>4, Zenon
<1> QED
  BY <1>1, <1>3, <1>4, Zenon DEF Past

\* The frame just completed joins the past.
LEMMA PastExtends ==
    ASSUME NEW m \in Nat, NEW r \in Seq(Recs), NEW p \in Seq(Nat), NEW a, Past(a, m, r, p),
           m + 1 <= Len(p), NEW d \in Devices, Fed(Base(a, p, m + 1), d), d.record = r,
           \A k \in 1 .. Len(r) : r[k].frame <= m + 1
    PROVE  Past([n \in 0 .. m + 1 |-> IF n = m + 1 THEN d ELSE a[n]], m + 1, r, p)
<1> DEFINE b == [n \in 0 .. m + 1 |-> IF n = m + 1 THEN d ELSE a[n]]
<1>1. a \in [0 .. m -> Devices]
  BY Zenon DEF Past
<1>2. \A n \in 0 .. m : n \in 0 .. m + 1 /\ n # m + 1
  OBVIOUS
<1>3. b[m + 1] = d /\ \A n \in 0 .. m : b[n] = a[n]
  BY <1>2
<1>4. b \in [0 .. m + 1 -> Devices]
  BY <1>1
<1> HIDE DEF b
<1>5. \A n \in 0 .. m + 1 : Base(b, p, n) = Base(a, p, n)
  <2> SUFFICES ASSUME NEW n \in 0 .. m + 1, n # 0 PROVE b[n - 1] = a[n - 1]
    BY Zenon DEF Base
  <2>1. n - 1 \in 0 .. m
    OBVIOUS
  <2> QED
    BY <1>3, <2>1, Zenon
<1>6. ASSUME NEW n \in 0 .. m + 1
      PROVE  /\ Fed(Base(b, p, n), b[n]) /\ Prefix(b[n].record, r)
             /\ \A k \in 1 .. Len(r) : k <= Len(b[n].record) <=> r[k].frame <= n
  <2>1. CASE n \in 0 .. m
    BY <1>3, <1>5, <2>1, Zenon DEF Past
  <2>2. CASE n = m + 1
    <3>1. Prefix(b[n].record, r)
      BY <1>3, <2>2 DEF Prefix
    <3>2. \A k \in 1 .. Len(r) : k <= Len(b[n].record) <=> r[k].frame <= n
      BY <1>3, <2>2
    <3> QED
      BY <1>3, <1>5, <2>2, <3>1, <3>2, Zenon
  <2> QED
    BY <2>1, <2>2
<1>7. Past(b, m + 1, r, p)
  BY <1>4, <1>6, Zenon DEF Past
<1> QED
  BY <1>7, Zenon DEF b

\* The equations of a replay.
ReplayEq(g, m, r, p) ==
    g = [n \in 0 .. m |->
            IF n = 0 THEN Deliver(Empty, r, 1, 0)
            ELSE Deliver(Taken(g[n - 1], p[n]), r, Len(g[n - 1].record) + 1, n)]

\* The devices of the past satisfy the replay's equations, and no others do.
LEMMA PastIsReplay ==
    ASSUME NEW m \in Nat, NEW r \in Seq(Recs), NEW p \in Seq(Nat), m <= Len(p), NEW a, Past(a, m, r, p)
    PROVE  ReplayEq(a, m, r, p)
<1>1. a \in [0 .. m -> Devices]
  BY Zenon DEF Past
<1>2. ASSUME NEW n \in 0 .. m
      PROVE  a[n] = IF n = 0 THEN Deliver(Empty, r, 1, 0)
                    ELSE Deliver(Taken(a[n - 1], p[n]), r, Len(a[n - 1].record) + 1, n)
  <2>1. n \in Nat /\ n <= Len(p) /\ n \in 0 .. m + 1
    OBVIOUS
  <2>2. /\ Base(a, p, n) \in Devices /\ a[n] \in Devices
        /\ n = 0 => Base(a, p, n).record = <<>>
        /\ n # 0 => Base(a, p, n).record = a[n - 1].record
    BY <1>1, <2>1, BaseDevice, Zenon
  <2>3. a[n] = Deliver(Base(a, p, n), r, Len(Base(a, p, n).record) + 1, n)
    <3>1. /\ Fed(Base(a, p, n), a[n]) /\ Prefix(a[n].record, r)
          /\ \A k \in 1 .. Len(r) : k <= Len(a[n].record) <=> r[k].frame <= n
      BY Zenon DEF Past
    <3> DEFINE d == Base(a, p, n)
               e == a[n]
    <3>2. /\ d \in Devices /\ e \in Devices /\ Fed(d, e) /\ Prefix(e.record, r)
          /\ \A k \in 1 .. Len(r) : k <= Len(e.record) <=> r[k].frame <= n
      BY <2>2, <3>1, Zenon
    <3> HIDE DEF d, e
    <3>3. Deliver(d, r, Len(d.record) + 1, n) = e
      BY <2>1, <3>2, FedDelivers, Zenon
    <3> QED
      BY <3>3, Zenon DEF d, e
  <2>4. CASE n = 0
    <3>1. Base(a, p, n) = Empty /\ Len(Empty.record) + 1 = 1
      BY <2>4 DEF Base, Empty
    <3> QED
      BY <2>3, <2>4, <3>1, Zenon
  <2>5. CASE n # 0
    <3>1. Base(a, p, n) = Taken(a[n - 1], p[n])
      BY <2>5, Zenon DEF Base
    <3> QED
      BY <2>2, <2>3, <2>5, <3>1, Zenon
  <2> QED
    BY <2>4, <2>5, Zenon
<1> QED
  BY <1>1, <1>2, Zenon DEF ReplayEq

LEMMA PastReplays ==
    ASSUME NEW m \in Nat, NEW r \in Seq(Recs), NEW p \in Seq(Nat), m <= Len(p), NEW a, Past(a, m, r, p),
           NEW g, ReplayEq(g, m, r, p)
    PROVE  g = a
<1> DEFINE D(y, n) == Deliver(Taken(y, p[n]), r, Len(y.record) + 1, n)
           E(k) == k <= m => g[k] = a[k]
           T == {k \in Nat : E(k)}
<1>1. a \in [0 .. m -> Devices]
  BY Zenon DEF Past
<1>2. g[0] = Deliver(Empty, r, 1, 0) /\ \A n \in 1 .. m : g[n] = D(g[n - 1], n)
  BY SMTT(30) DEF ReplayEq
<1>3. a = [n \in 0 .. m |-> IF n = 0 THEN Deliver(Empty, r, 1, 0) ELSE D(a[n - 1], n)]
  BY PastIsReplay, Zenon DEF ReplayEq
<1> HIDE DEF D
<1>4a. \A n \in 0 .. m : a[n] = IF n = 0 THEN Deliver(Empty, r, 1, 0) ELSE D(a[n - 1], n)
  BY <1>3, Zenon
<1>4. a[0] = Deliver(Empty, r, 1, 0) /\ \A n \in 1 .. m : a[n] = D(a[n - 1], n)
  BY <1>4a
<1>5. E(0)
  BY <1>2, <1>4, Zenon
<1>6. ASSUME NEW k \in Nat, E(k) PROVE E(k + 1)
  <2> SUFFICES ASSUME k + 1 <= m PROVE g[k + 1] = a[k + 1]
    BY Zenon
  <2>1. k + 1 \in 1 .. m /\ (k + 1) - 1 = k /\ k <= m
    OBVIOUS
  <2> QED
    BY <1>2, <1>4, <1>6, <2>1, Zenon
<1> HIDE DEF E
<1>7. 0 \in T /\ \A k \in Nat : k \in T => k + 1 \in T
  BY <1>5, <1>6, 0 \in Nat, \A k \in Nat : k + 1 \in Nat, Zenon
<1>8. \A k \in T : E(k)
  BY Zenon
<1> HIDE DEF T
<1>9. Nat \subseteq T
  BY <1>7, InductiveSet, Zenon
<1>10. \A n \in 0 .. m : n \in Nat /\ n <= m
  OBVIOUS
<1>11. \A n \in 0 .. m : g[n] = a[n]
  BY <1>8, <1>9, <1>10, Zenon DEF E
<1>12. DOMAIN g = 0 .. m /\ g = [n \in 0 .. m |-> g[n]]
  BY Zenon DEF ReplayEq
<1> QED
  BY <1>1, <1>11, <1>12, Zenon

\* The shape of a session: what is still scripted is for later frames, what is
\* recorded is for the frames presented.
KeyEvents == [press : BOOLEAN, code : Codes]

WinType ==
    /\ script \in Scripts
    /\ next_scripted \in 1 .. Len(script) + 1
    /\ frames \in Nat
    /\ device \in Devices
    /\ pops \in Seq(Nat) /\ Len(pops) = frames + 1
    /\ pending \in Seq(KeyEvents)
    /\ state \in {"pump", "slice", "presented", "over", "exit"}
    /\ state = "presented" => frames > 0
    /\ \A k \in next_scripted .. Len(script) : script[k].frame > frames
    /\ \A k \in 1 .. Len(record) : record[k].frame <= frames

ReplayInv ==
    \E a : IF state = "presented"
           THEN /\ Past(a, frames - 1, record, pops)
                /\ pops[frames + 1] = 0
                /\ Fed(Base(a, pops, frames), device)
           ELSE /\ Past(a, frames, record, pops)
                /\ device = Taken(a[frames], pops[frames + 1])

LEMMA DeviceFields ==
    /\ device.queue = queue /\ device.keys = keys /\ device.dropped = dropped /\ device.record = record
BY Zenon DEF device

LEMMA BecomesDevice ==
    ASSUME NEW d \in Devices, Becomes(d)
    PROVE  device' = d
BY Zenon DEF Becomes, device, Devices

LEMMA ScriptsAreRecs ==
    ASSUME NEW s \in Scripts
    PROVE  /\ s \in Seq(Recs)
           /\ \A i, j \in 1 .. Len(s) : i <= j => s[i].frame <= s[j].frame
<1> DEFINE S == {s[i] : i \in DOMAIN s}
<1>1. s \in Seq(S) /\ \A i, j \in DOMAIN s : i <= j => s[i].frame <= s[j].frame
  BY WindowAssumption, Zenon
<1>2. S \subseteq Recs
  BY Zenon DEF Recs, Scripted
<1> HIDE DEF S
<1>3. s \in Seq(Recs) /\ DOMAIN s = 1 .. Len(s)
  BY <1>1, <1>2
<1> QED
  BY <1>1, <1>3, Zenon

\* What a present delivers: the device, its record and what is left of the script.
LEMMA DeliverScript ==
    ASSUME NEW d \in Devices, NEW s \in Scripts, NEW i \in 1 .. Len(s) + 1, NEW n \in Nat,
           \A k \in i .. Len(s) : n <= s[k].frame
    PROVE  /\ Deliver(d, s, i, n) \in Devices
           /\ Fed(d, Deliver(d, s, i, n))
           /\ DueEnd(s, i, n) + 1 \in 1 .. Len(s) + 1
           /\ \A k \in DueEnd(s, i, n) + 1 .. Len(s) : s[k].frame > n
           /\ \A k \in Len(d.record) + 1 .. Len(Deliver(d, s, i, n).record) :
                 Deliver(d, s, i, n).record[k].frame = n
<1>1. s \in Seq(Recs) /\ \A k, j \in 1 .. Len(s) : k <= j => s[k].frame <= s[j].frame
  BY ScriptsAreRecs, Zenon
<1> DEFINE m == DueEnd(s, i, n)
<1>2. \A k \in 1 .. Len(s) : s[k].frame \in Nat
  BY <1>1, RecsAreLines
<1>3. m \in i - 1 .. Len(s) /\ (\A k \in i .. m : s[k].frame <= n) /\ (m < Len(s) => s[m + 1].frame > n)
  BY <1>1, DueEndStops, Zenon
<1> HIDE DEF m
<1>4. Len(s) \in Nat
  BY <1>1
<1>5. m + 1 \in 1 .. Len(s) + 1
  BY <1>3, <1>4
<1>6. ASSUME NEW k \in m + 1 .. Len(s) PROVE s[k].frame > n
  <2>1. m < Len(s) /\ m + 1 \in 1 .. Len(s) /\ k \in 1 .. Len(s) /\ m + 1 <= k
    BY <1>3, <1>4
  <2>2. s[m + 1].frame > n /\ s[m + 1].frame <= s[k].frame
    BY <1>1, <1>3, <2>1, Zenon
  <2> QED
    BY <1>2, <2>1, <2>2
<1>7. \A j \in i .. m : s[j].frame = n
  <2> SUFFICES ASSUME NEW j \in i .. m PROVE s[j].frame = n
    BY Zenon
  <2>1. j \in 1 .. Len(s) /\ j \in i .. Len(s)
    BY <1>3, <1>4
  <2> QED
    BY <1>2, <1>3, <2>1
<1> DEFINE e == Deliver(d, s, i, n)
<1>8. e = Offered(d, s, i)[m]
  BY Zenon DEF Deliver, m
<1> HIDE DEF e
<1>9. /\ e \in Devices /\ Fed(d, e)
      /\ \A k \in Len(d.record) + 1 .. Len(e.record) : \E j \in i .. m : e.record[k] = s[j]
  BY <1>1, <1>3, <1>8, OfferFeeds, Zenon
<1>10. \A k \in Len(d.record) + 1 .. Len(e.record) : e.record[k].frame = n
  BY <1>7, <1>9, Zenon
<1> QED
  BY <1>5, <1>6, <1>9, <1>10, Zenon DEF e, m

LEMMA LinesAreRecs ==
    ASSUME NEW p \in Seq(KeyEvents), NEW n \in Nat
    PROVE  /\ Lines(p, n) \in Seq(Recs) /\ Len(Lines(p, n)) = Len(p)
           /\ \A k \in 1 .. Len(p) : Lines(p, n)[k] = [frame |-> n, e |-> p[k]]
<1>1. \A k \in 1 .. Len(p) : [frame |-> n, e |-> p[k]] \in Recs
  <2> SUFFICES ASSUME NEW k \in 1 .. Len(p) PROVE [frame |-> n, e |-> p[k]] \in Typed
    BY Zenon DEF Recs
  <2>1. p[k] \in KeyEvents
    OBVIOUS
  <2> QED
    BY <2>1, Zenon DEF Typed, KeyEvents
<1>2. Lines(p, n) = [k \in 1 .. Len(p) |-> [frame |-> n, e |-> p[k]]] /\ Len(p) \in Nat
  BY DEF Lines
<1> QED
  BY <1>1, <1>2

LEMMA ReplayInit == WindowInit => WinType /\ ReplayInv
<1> SUFFICES ASSUME WindowInit PROVE WinType /\ ReplayInv
  BY Zenon
<1> DEFINE d == Deliver(Empty, script, 1, 0)
<1>1. /\ script \in Scripts /\ frames = 0 /\ pending = <<>> /\ pops = <<0>> /\ state = "pump"
      /\ next_scripted = DueEnd(script, 1, 0) + 1
      /\ queue = d.queue /\ keys = d.keys /\ dropped = d.dropped /\ record = d.record
  BY Zenon DEF WindowInit
<1>2. script \in Seq(Recs) /\ 1 \in 1 .. Len(script) + 1
  BY <1>1, ScriptsAreRecs
<1>3. \A k \in 1 .. Len(script) : 0 <= script[k].frame
  BY <1>2, RecsAreLines
<1>4. /\ d \in Devices /\ Fed(Empty, d) /\ DueEnd(script, 1, 0) + 1 \in 1 .. Len(script) + 1
      /\ \A k \in DueEnd(script, 1, 0) + 1 .. Len(script) : script[k].frame > 0
      /\ \A k \in Len(Empty.record) + 1 .. Len(d.record) : d.record[k].frame = 0
  BY <1>1, <1>2, <1>3, EmptyDevice, DeliverScript, 0 \in Nat, Zenon
<1> HIDE DEF d
<1>5. Len(Empty.record) + 1 = 1
  BY DEF Empty
<1>6. device = d
  BY <1>1, <1>4, Zenon DEF device, Devices
<1>7. d.record \in Seq(Recs)
  BY <1>4, DeviceRecord, Zenon
<1>8. WinType
  BY <1>1, <1>4, <1>5, <1>6 DEF WinType
<1> DEFINE a == [n \in 0 .. 0 |-> d]
<1>9. Past(a, 0, record, pops)
  <2>1. a \in [0 .. 0 -> Devices] /\ a[0] = d
    BY <1>4
  <2>2. Base(a, pops, 0) = Empty
    BY Zenon DEF Base
  <2> HIDE DEF a
  <2>3. ASSUME NEW n \in 0 .. 0
        PROVE  /\ Fed(Base(a, pops, n), a[n]) /\ Prefix(a[n].record, record)
               /\ \A k \in 1 .. Len(record) : k <= Len(a[n].record) <=> record[k].frame <= n
    <3>1. n = 0
      OBVIOUS
    <3>2. Prefix(d.record, d.record)
      BY <1>7 DEF Prefix
    <3>3. \A k \in 1 .. Len(record) : k <= Len(d.record) <=> record[k].frame <= 0
      BY <1>1, <1>4, <1>5, <1>7
    <3> QED
      BY <1>1, <1>4, <2>1, <2>2, <3>1, <3>2, <3>3, Zenon
  <2> QED
    BY <2>1, <2>3, Zenon DEF Past
<1>10. device = Taken(a[0], pops[1])
  <2>1. a[0] = d /\ pops[1] = 0
    BY <1>1
  <2> QED
    BY <1>4, <1>6, <2>1, TakenNone, Zenon
<1> HIDE DEF a
<1>11. ReplayInv
  <2>1. Past(a, frames, record, pops) /\ device = Taken(a[frames], pops[frames + 1])
    BY <1>1, <1>9, <1>10
  <2> QED
    BY <1>1, <2>1, Zenon DEF ReplayInv
<1> QED
  BY <1>8, <1>11, Zenon

\* Steps that leave the machine alone.
LEMMA QuietReplay ==
    ASSUME WinType, ReplayInv,
           UNCHANGED <<script, next_scripted, frames, queue, keys, dropped, record, pops>>,
           state # "presented", state' \in {"pump", "slice", "over", "exit"}, pending' \in Seq(KeyEvents)
    PROVE  WinType' /\ ReplayInv'
<1>1. device' = device
  BY Zenon DEF device
<1>2. WinType'
  BY <1>1, Zenon DEF WinType
<1>3. PICK a : Past(a, frames, record, pops) /\ device = Taken(a[frames], pops[frames + 1])
  BY Zenon DEF ReplayInv
<1>4. Past(a, frames', record', pops') /\ device' = Taken(a[frames'], pops'[frames' + 1])
  BY <1>1, <1>3, Zenon
<1>5. state' # "presented"
  BY Zenon
<1> QED
  BY <1>2, <1>4, <1>5, Zenon DEF ReplayInv

LEMMA TakesReplay == WinType /\ ReplayInv /\ GuestTakes => WinType' /\ ReplayInv'
<1> SUFFICES ASSUME WinType, ReplayInv, GuestTakes PROVE WinType' /\ ReplayInv'
  BY Zenon
<1>1. /\ state = "slice" /\ queue # <<>> /\ queue' = Tail(queue)
      /\ pops' = [pops EXCEPT ![frames + 1] = @ + 1]
      /\ UNCHANGED <<script, next_scripted, frames, keys, dropped, record, pending, state>>
  BY Zenon DEF GuestTakes
<1>2. frames \in Nat /\ pops \in Seq(Nat) /\ Len(pops) = frames + 1 /\ device \in Devices /\ record \in Seq(Recs)
  BY DeviceRecord, DeviceFields, Zenon DEF WinType
<1>3. queue \in Seq(Evs)
  BY <1>2, DeviceFields, Zenon DEF Devices
<1>4. /\ pops' \in Seq(Nat) /\ Len(pops') = frames + 1 /\ pops'[frames + 1] = pops[frames + 1] + 1
      /\ \A n \in 1 .. frames : pops[n] = pops'[n]
  BY <1>1, <1>2
<1>5. pops[frames + 1] \in Nat
  BY <1>2
<1>6. device' = [queue |-> Tail(queue), keys |-> keys, dropped |-> dropped, record |-> record]
  BY <1>1, Zenon DEF device
<1>7. Tail(queue) \in Seq(Evs)
  BY <1>1, <1>3
<1>8. device' \in Devices
  BY <1>2, <1>6, <1>7, DeviceFields, Zenon DEF Devices
<1>9. WinType'
  BY <1>1, <1>4, <1>8, Zenon DEF WinType
<1>10. PICK a : Past(a, frames, record, pops) /\ device = Taken(a[frames], pops[frames + 1])
  BY <1>1, Zenon DEF ReplayInv
<1> DEFINE d == a[frames]
           p == pops[frames + 1]
<1>11. d \in Devices
  BY <1>2, <1>10 DEF Past
<1>12. Past(a, frames, record, pops')
  <2>1. Prefix(record, record) /\ \A k \in Len(record) + 1 .. Len(record) : record[k].frame > frames
    BY <1>2 DEF Prefix
  <2> QED
    BY <1>2, <1>4, <1>10, <2>1, PastGrows, Zenon
<1>13. device' = Taken(d, p + 1)
  <2>1. queue = SubSeq(d.queue, p + 1, Len(d.queue)) /\ d.queue \in Seq(Evs)
    BY <1>5, <1>10, <1>11, TakenDevice, DeviceFields, Zenon DEF Devices
  <2> HIDE DEF d, p
  <2>2. p \in Nat /\ p + 1 \in Nat
    BY <1>5 DEF p
  <2>3. Tail(queue) = SubSeq(d.queue, (p + 1) + 1, Len(d.queue))
    <3> DEFINE q == d.queue
    <3> HIDE DEF q
    <3>1. q \in Seq(Evs) /\ queue = SubSeq(q, p + 1, Len(q)) /\ queue # <<>>
      BY <1>1, <2>1, Zenon DEF q
    <3>2. Tail(queue) = SubSeq(q, (p + 1) + 1, Len(q))
      BY <2>2, <3>1
    <3> QED
      BY <3>2, Zenon DEF q
  <2>4. /\ Taken(d, p + 1) \in Devices /\ Taken(d, p + 1).record = d.record
        /\ Taken(d, p + 1).keys = d.keys /\ Taken(d, p + 1).dropped = d.dropped
        /\ Taken(d, p + 1).queue = SubSeq(d.queue, (p + 1) + 1, Len(d.queue))
    BY <1>11, <2>2, TakenDevice, Zenon
  <2>5. device.record = d.record /\ device.keys = d.keys /\ device.dropped = d.dropped
    BY <1>10, <1>11, <2>2, TakenDevice, Zenon DEF p, d
  <2>6. /\ device'.record = device.record /\ device'.keys = device.keys /\ device'.dropped = device.dropped
        /\ device'.queue = Tail(queue)
    BY <1>6, Zenon DEF device
  <2> QED
    BY <1>8, <2>3, <2>4, <2>5, <2>6, DevicesEqual, Zenon
<1>14. Past(a, frames', record', pops') /\ device' = Taken(a[frames'], pops'[frames' + 1]) /\ state' # "presented"
  BY <1>1, <1>4, <1>12, <1>13, Zenon
<1> QED
  BY <1>9, <1>14, Zenon DEF ReplayInv

LEMMA PresentReplay == WinType /\ ReplayInv /\ Present => WinType' /\ ReplayInv'
<1> SUFFICES ASSUME WinType, ReplayInv, Present PROVE WinType' /\ ReplayInv'
  BY Zenon
<1> DEFINE n == frames + 1
           d == Deliver(device, script, next_scripted, n)
<1>1. /\ state = "slice" /\ frames' = n /\ Becomes(d)
      /\ next_scripted' = DueEnd(script, next_scripted, n) + 1
      /\ pops' = Append(pops, 0) /\ state' = "presented" /\ UNCHANGED <<script, pending>>
  BY Zenon DEF Present
<1>2. /\ frames \in Nat /\ n \in Nat /\ n - 1 = frames /\ pops \in Seq(Nat) /\ Len(pops) = frames + 1
      /\ device \in Devices /\ script \in Scripts /\ next_scripted \in 1 .. Len(script) + 1
      /\ \A k \in 1 .. Len(record) : record[k].frame <= frames
  BY DEF WinType
<1>3. record \in Seq(Recs) /\ device.record = record /\ Len(record) \in Nat
  BY <1>2, DeviceRecord, DeviceFields, Zenon
<1>4. \A k \in next_scripted .. Len(script) : n <= script[k].frame
  <2> SUFFICES ASSUME NEW k \in next_scripted .. Len(script) PROVE n <= script[k].frame
    BY Zenon
  <2>1. script \in Seq(Recs)
    BY <1>2, ScriptsAreRecs, Zenon
  <2>2. script[k] \in Recs
    BY <1>2, <2>1
  <2>3. script[k].frame \in Nat /\ script[k].frame > frames
    BY <2>2, RecsAreLines, Zenon DEF WinType
  <2> QED
    BY <1>2, <2>3
<1> HIDE DEF n
<1>5. /\ d \in Devices /\ Fed(device, d) /\ DueEnd(script, next_scripted, n) + 1 \in 1 .. Len(script) + 1
      /\ \A k \in DueEnd(script, next_scripted, n) + 1 .. Len(script) : script[k].frame > n
      /\ \A k \in Len(device.record) + 1 .. Len(d.record) : d.record[k].frame = n
  BY <1>2, <1>4, DeliverScript, Zenon
<1> HIDE DEF d
<1>6. device' = d /\ record' = d.record
  BY <1>1, <1>5, BecomesDevice, Zenon DEF Becomes
<1>7. Prefix(record, d.record) /\ d.record \in Seq(Recs) /\ Len(d.record) \in Nat
  BY <1>3, <1>5, DeviceRecord, Zenon DEF Fed
<1>8. \A k \in 1 .. Len(d.record) : d.record[k].frame <= n
  <2> SUFFICES ASSUME NEW k \in 1 .. Len(d.record) PROVE d.record[k].frame <= n
    BY Zenon
  <2>1. CASE k <= Len(record)
    <3>1. d.record[k] = record[k] /\ record[k].frame <= frames
      BY <1>2, <1>3, <1>7, <2>1 DEF Prefix
    <3>2. record[k].frame \in Nat
      BY <1>3, <2>1, RecsAreLines
    <3> QED
      BY <1>2, <3>1, <3>2
  <2>2. CASE ~ (k <= Len(record))
    <3>1. k \in Len(device.record) + 1 .. Len(d.record)
      BY <1>3, <1>7, <2>2
    <3> QED
      BY <1>2, <1>5, <3>1
  <2> QED
    BY <2>1, <2>2, Zenon
<1>9. /\ pops' \in Seq(Nat) /\ Len(pops') = n + 1 /\ pops'[n + 1] = 0 /\ pops'[n] = pops[n]
      /\ \A k \in 1 .. frames : pops[k] = pops'[k]
  BY <1>1, <1>2, SMTT(30) DEF n
<1>10. WinType'
  <2>1. /\ script' \in Scripts /\ next_scripted' \in 1 .. Len(script') + 1 /\ frames' \in Nat /\ frames' > 0
        /\ device' \in Devices /\ state' = "presented" /\ pending' \in Seq(KeyEvents)
    BY <1>1, <1>2, <1>5, <1>6 DEF WinType, n
  <2>2. \A k \in next_scripted' .. Len(script') : script'[k].frame > frames'
    BY <1>1, <1>5, Zenon
  <2>3. \A k \in 1 .. Len(record') : record'[k].frame <= frames'
    BY <1>1, <1>6, <1>8, Zenon
  <2> QED
    BY <1>1, <1>9, <2>1, <2>2, <2>3, Zenon DEF WinType
<1>11. PICK a : Past(a, frames, record, pops) /\ device = Taken(a[frames], pops[frames + 1])
  BY <1>1, Zenon DEF ReplayInv
<1>12. Past(a, frames, record', pops')
  <2>1. \A k \in Len(record) + 1 .. Len(d.record) : d.record[k].frame > frames
    BY <1>2, <1>3, <1>5, SMTT(30)
  <2> QED
    BY <1>2, <1>3, <1>6, <1>7, <1>9, <1>11, <2>1, PastGrows, Zenon
<1>13. Base(a, pops', n) = device
  <2>1. n # 0 /\ n = frames + 1
    BY <1>2 DEF n
  <2> QED
    BY <1>2, <1>9, <1>11, <2>1, Zenon DEF Base
<1>14. /\ Past(a, frames' - 1, record', pops') /\ pops'[frames' + 1] = 0
       /\ Fed(Base(a, pops', frames'), device') /\ state' = "presented"
  BY <1>1, <1>2, <1>5, <1>6, <1>9, <1>12, <1>13, Zenon
<1> QED
  BY <1>10, <1>14, Zenon DEF ReplayInv

LEMMA PresentedReplay == WinType /\ ReplayInv /\ Presented => WinType' /\ ReplayInv'
<1> SUFFICES ASSUME WinType, ReplayInv, Presented PROVE WinType' /\ ReplayInv'
  BY Zenon
<1> DEFINE s == Lines(pending, frames)
           d == Offered(device, s, 1)[Len(pending)]
<1>1. /\ state = "presented" /\ Becomes(d) /\ pending' = <<>> /\ state' = "pump"
      /\ UNCHANGED <<script, next_scripted, frames, pops>>
  BY Zenon DEF Presented, QueuePending
<1>2. /\ frames \in Nat /\ frames > 0 /\ pops \in Seq(Nat) /\ Len(pops) = frames + 1
      /\ device \in Devices /\ pending \in Seq(KeyEvents)
      /\ \A k \in 1 .. Len(record) : record[k].frame <= frames
  BY <1>1, Zenon DEF WinType
<1>3. record \in Seq(Recs) /\ device.record = record /\ Len(record) \in Nat /\ Len(pending) \in Nat
  BY <1>2, DeviceRecord, DeviceFields
<1>4a. /\ s \in Seq(Recs) /\ Len(s) = Len(pending)
       /\ \A k \in 1 .. Len(pending) : s[k] = [frame |-> frames, e |-> pending[k]]
  BY <1>2, LinesAreRecs, Zenon
<1> HIDE DEF s
<1>4b. ASSUME NEW k \in 1 .. Len(pending) PROVE s[k].frame = frames
  <2>1. s[k] = [frame |-> frames, e |-> pending[k]]
    BY <1>4a, Zenon
  <2>2. [frame |-> frames, e |-> pending[k]].frame = frames
    BY Zenon
  <2> QED
    BY <2>1, <2>2, Zenon
<1>4. /\ s \in Seq(Recs) /\ Len(s) = Len(pending) /\ \A k \in 1 .. Len(pending) : s[k].frame = frames
  BY <1>4a, <1>4b, Zenon
<1>5. 1 \in 1 .. Len(s) + 1 /\ Len(pending) \in 1 - 1 .. Len(s)
  BY <1>3, <1>4
<1>6. /\ d \in Devices /\ Fed(device, d)
      /\ \A k \in Len(device.record) + 1 .. Len(d.record) : \E j \in 1 .. Len(pending) : d.record[k] = s[j]
  BY <1>2, <1>4, <1>5, OfferFeeds, Zenon
<1> HIDE DEF d
<1>7. \A k \in Len(record) + 1 .. Len(d.record) : d.record[k].frame = frames
  BY <1>3, <1>4, <1>6, Zenon
<1>8. device' = d /\ record' = d.record
  BY <1>1, <1>6, BecomesDevice, Zenon DEF Becomes
<1>9. Prefix(record, d.record) /\ d.record \in Seq(Recs) /\ Len(d.record) \in Nat
  BY <1>3, <1>6, DeviceRecord, Zenon DEF Fed
<1>10. \A k \in 1 .. Len(d.record) : d.record[k].frame <= frames
  <2> SUFFICES ASSUME NEW k \in 1 .. Len(d.record) PROVE d.record[k].frame <= frames
    BY Zenon
  <2>1. CASE k <= Len(record)
    BY <1>2, <1>3, <1>9, <2>1 DEF Prefix
  <2>2. CASE ~ (k <= Len(record))
    <3>1. k \in Len(record) + 1 .. Len(d.record)
      BY <1>3, <1>9, <2>2
    <3> QED
      BY <1>2, <1>7, <3>1
  <2> QED
    BY <2>1, <2>2, Zenon
<1>11. WinType'
  BY <1>1, <1>2, <1>6, <1>8, <1>10 DEF WinType
<1>12. PICK a : /\ Past(a, frames - 1, record, pops) /\ pops[frames + 1] = 0
                /\ Fed(Base(a, pops, frames), device)
  BY <1>1, Zenon DEF ReplayInv
<1> DEFINE m == frames - 1
<1>13. m \in Nat /\ m + 1 = frames /\ m + 1 <= Len(pops) /\ m < frames
  BY <1>2
<1>14. a \in [0 .. m -> Devices]
  BY <1>12, Zenon DEF Past
<1> HIDE DEF m
<1>15. Past(a, m, d.record, pops)
  <2>1. \A k \in Len(record) + 1 .. Len(d.record) : d.record[k].frame > m
    BY <1>2, <1>7, <1>13, Zenon
  <2>2. Past(a, m, record, pops)
    BY <1>12, Zenon DEF m
  <2> QED
    BY <1>2, <1>3, <1>9, <1>13, <2>1, <2>2, PastGrows, Zenon
<1>16. Base(a, pops, m + 1) \in Devices
  <2>1. m + 1 \in 0 .. m + 1
    BY <1>13
  <2> QED
    BY <1>2, <1>13, <1>14, <2>1, BaseDevice, Zenon
<1>17. Fed(Base(a, pops, m + 1), d)
  BY <1>2, <1>6, <1>12, <1>13, <1>16, FedTrans, Zenon
<1> DEFINE b == [k \in 0 .. m + 1 |-> IF k = m + 1 THEN d ELSE a[k]]
<1>18. Past(b, m + 1, d.record, pops)
  BY <1>2, <1>6, <1>9, <1>10, <1>13, <1>15, <1>17, PastExtends, Zenon
<1>19. b[m + 1] = d
  BY <1>13
<1> HIDE DEF b
<1>20. Taken(b[m + 1], pops[frames + 1]) = d
  BY <1>6, <1>12, <1>19, TakenNone, Zenon
<1>21. Past(b, frames', record', pops') /\ device' = Taken(b[frames'], pops'[frames' + 1]) /\ state' # "presented"
  BY <1>1, <1>8, <1>13, <1>18, <1>20, Zenon
<1> QED
  BY <1>11, <1>21, Zenon DEF ReplayInv

LEMMA HostKeyPends ==
    ASSUME NEW h \in HostKeys, HostKey(h), pending \in Seq(KeyEvents)
    PROVE  pending' \in Seq(KeyEvents)
<1> DEFINE c == KeyOf[h]
           press == h \notin down
<1>1. pending' = IF HeldChanges(c, press) THEN Append(pending, Event(press, c)) ELSE pending
  BY Zenon DEF HostKey
<1>2. Event(press, c) \in KeyEvents
  BY Zenon DEF Event, KeyEvents, Codes
<1> QED
  BY <1>1, <1>2

LEMMA ReplayInductive == WinType /\ ReplayInv /\ [WindowNext]_winVars => WinType' /\ ReplayInv'
<1> SUFFICES ASSUME WinType, ReplayInv, [WindowNext]_winVars PROVE WinType' /\ ReplayInv'
  BY Zenon
<1>0. pending \in Seq(KeyEvents) /\ state \in {"pump", "slice", "presented", "over", "exit"}
  BY Zenon DEF WinType
<1>1. CASE \E h \in HostKeys : HostKey(h)
  <2>1. PICK h \in HostKeys : HostKey(h)
    BY <1>1, Zenon
  <2> QED
    BY <1>0, <2>1, HostKeyPends, QuietReplay, Zenon DEF HostKey, Machine
<1>2. CASE CloseRequested
  BY <1>0, <1>2, QuietReplay, Zenon DEF CloseRequested, Machine
<1>3. CASE EndPump
  BY <1>0, <1>3, QuietReplay, Zenon DEF EndPump
<1>4. CASE GuestTakes
  BY <1>4, TakesReplay, Zenon
<1>5. CASE SliceEnds
  BY <1>0, <1>5, QuietReplay, Zenon DEF SliceEnds, Machine
<1>6. CASE Present
  BY <1>6, PresentReplay, Zenon
<1>7. CASE Presented
  BY <1>7, PresentedReplay, Zenon
<1>8. CASE GuestDone
  BY <1>0, <1>8, QuietReplay, Zenon DEF GuestDone
<1>9. CASE FinishRun
  BY <1>0, <1>9, QuietReplay, Zenon DEF FinishRun
<1>10. CASE UNCHANGED winVars
  <2>1. CASE state = "presented"
    <3>1. device' = device /\ UNCHANGED <<script, next_scripted, frames, record, pops, pending, state>>
      BY <1>10, Zenon DEF winVars, device
    <3> QED
      BY <3>1, Zenon DEF WinType, ReplayInv
  <2>2. CASE state # "presented"
    <3>1. UNCHANGED <<script, next_scripted, frames, queue, keys, dropped, record, pops, pending, state>>
      BY <1>10, Zenon DEF winVars
    <3> QED
      BY <1>0, <2>2, <3>1, QuietReplay, Zenon
  <2> QED
    BY <2>1, <2>2, Zenon
<1>11. CASE WindowOver
  BY <1>10, <1>11, Zenon DEF WindowOver
<1> QED
  BY <1>1, <1>2, <1>3, <1>4, <1>5, <1>6, <1>7, <1>8, <1>9, <1>10, <1>11 DEF WindowNext

LEMMA ReplaySound == WinType /\ ReplayInv => RecordReplays
<1> SUFFICES ASSUME WinType, ReplayInv, state # "presented"
             PROVE  /\ \A i \in 1 .. Len(record) - 1 : record[i].frame <= record[i + 1].frame
                    /\ Replay = device
  BY Zenon DEF RecordReplays
<1>1. /\ frames \in Nat /\ pops \in Seq(Nat) /\ Len(pops) = frames + 1 /\ record \in Seq(Recs)
      /\ \A k \in 1 .. Len(record) : record[k].frame <= frames
  BY DeviceRecord, DeviceFields, Zenon DEF WinType
<1>2. PICK a : Past(a, frames, record, pops) /\ device = Taken(a[frames], pops[frames + 1])
  BY Zenon DEF ReplayInv
<1>3. \A k \in 1 .. Len(record) : record[k].frame \in Nat
  BY <1>1, RecsAreLines
<1>4. ASSUME NEW i \in 1 .. Len(record) - 1 PROVE record[i].frame <= record[i + 1].frame
  <2> DEFINE n == record[i + 1].frame
  <2>1. i \in 1 .. Len(record) /\ i + 1 \in 1 .. Len(record) /\ i \in Nat
    BY <1>1
  <2>2. n \in 0 .. frames
    BY <1>1, <1>3, <2>1
  <2>3. a[n] \in Devices /\ \A k \in 1 .. Len(record) : k <= Len(a[n].record) <=> record[k].frame <= n
    BY <1>2, <2>2, Zenon DEF Past
  <2>4. Len(a[n].record) \in Nat
    BY <2>3, DeviceRecord, Zenon
  <2>5. i + 1 <= Len(a[n].record)
    BY <2>1, <2>2, <2>3
  <2> HIDE DEF n
  <2>6. i <= Len(a[n].record)
    BY <2>1, <2>4, <2>5
  <2> QED
    BY <2>1, <2>3, <2>6, Zenon DEF n
<1>5. frames <= Len(pops)
  BY <1>1
<1>6. ReplayEq(a, frames, record, pops)
  BY <1>1, <1>2, <1>5, PastIsReplay, Zenon
<1>7. ReplayEq(Replayed, frames, record, pops)
  <2>1. Replayed = CHOOSE g : ReplayEq(g, frames, record, pops)
    BY Zenon DEF Replayed, ReplayEq
  <2> QED
    BY <1>6, <2>1, Zenon
<1>8. Replayed = a
  BY <1>1, <1>2, <1>5, <1>7, PastReplays, Zenon
<1> QED
  BY <1>2, <1>4, <1>8, Zenon DEF Replay

\* A recorded session replays, whatever the script, the keys and the queue's size
\* (rv32win.c main loop, emu_queue_event, emu_deliver_events, emu_read_input_script).
THEOREM RecordsReplay == WindowInit /\ [][WindowNext]_winVars => []RecordReplays
<1>1. WindowInit => WinType /\ ReplayInv
  BY ReplayInit, Zenon
<1>2. (WinType /\ ReplayInv) /\ [WindowNext]_winVars => (WinType /\ ReplayInv)'
  BY ReplayInductive, Zenon
<1>3. WinType /\ ReplayInv => RecordReplays
  BY ReplaySound, Zenon
<1> QED
  BY <1>1, <1>2, <1>3, PTL

-----------------------------------------------------------------------------
(* KEYS follows the host's keyboard. *)

KeyCodes == {v.code : v \in Evs}

KeysRun(g, k, p) ==
    /\ g \in [0 .. Len(p) -> SUBSET KeyCodes]
    /\ g[0] = k
    /\ \A n \in 1 .. Len(p) : g[n] = KeyStep(g[n - 1], p[n])

LEMMA KeyStepType == \A k \in SUBSET KeyCodes : \A e \in Evs : KeyStep(k, e) \in SUBSET KeyCodes
BY Zenon DEF KeyStep, KeyCodes

LEMMA KeyEventsAreEvs == KeyEvents \subseteq Evs
<1> SUFFICES ASSUME NEW e \in KeyEvents PROVE e \in Evs
  BY Zenon
<1> DEFINE x == [frame |-> 0, e |-> e]
<1>1. x \in Typed
  BY Zenon DEF Typed, KeyEvents
<1>2. x \in Recs
  BY <1>1, Zenon DEF Recs
<1>3. x.e = e
  BY Zenon
<1> QED
  BY <1>2, <1>3, Zenon DEF Evs

LEMMA KeysRunExists ==
    ASSUME NEW k \in SUBSET KeyCodes, NEW p \in Seq(Evs)
    PROVE  \E g : KeysRun(g, k, p)
<1> DEFINE S == SUBSET KeyCodes
           b == Len(p)
           G == [n \in Int |-> [y \in S |-> IF n \in 1 .. b THEN KeyStep(y, p[n]) ELSE y]]
<1>1. b \in Nat /\ \A n \in 1 .. b : p[n] \in Evs
  OBVIOUS
<1> HIDE DEF b
<1>2. G \in [Int -> [S -> S]]
  BY <1>1, KeyStepType, Zenon
<1>3. \A n \in 1 .. b : \A y \in S : G[n][y] = KeyStep(y, p[n])
  OBVIOUS
<1> HIDE DEF G
<1>4. 0 \in Int /\ b \in Int /\ 0 <= b /\ 0 + 1 = 1
  BY <1>1
<1>5. k \in S
  BY Zenon
<1> HIDE DEF S
<1>6. PICK g : IsRun(g, S, k, 0, b, G)
  BY <1>2, <1>4, <1>5, Iterate, Zenon
<1>7. g \in [0 .. b -> S] /\ g[0] = k /\ \A n \in 1 .. b : g[n] = G[n][g[n - 1]]
  BY <1>4, <1>6, Zenon DEF IsRun
<1>8. \A n \in 1 .. b : g[n - 1] \in S
  BY <1>1, <1>7
<1>9. \A n \in 1 .. b : g[n] = KeyStep(g[n - 1], p[n])
  BY <1>3, <1>7, <1>8, Zenon
<1> QED
  BY <1>7, <1>9, Zenon DEF KeysRun, S, b

LEMMA KeysAfterIs ==
    ASSUME NEW k \in SUBSET KeyCodes, NEW p \in Seq(Evs), NEW g, KeysRun(g, k, p)
    PROVE  KeysAfter(k, p) = g[Len(p)]
<1> DEFINE P(h) == h = [n \in 0 .. Len(p) |->
                          IF n = 0 THEN k
                          ELSE IF p[n].press THEN h[n - 1] \cup {p[n].code} ELSE h[n - 1] \ {p[n].code}]
           h == CHOOSE f : P(f)
<1>1. P(g)
  <2>1. \A n \in 0 .. Len(p) : g[n] = IF n = 0 THEN k ELSE KeyStep(g[n - 1], p[n])
    BY DEF KeysRun
  <2>2. g = [n \in 0 .. Len(p) |-> IF n = 0 THEN k ELSE KeyStep(g[n - 1], p[n])]
    BY <2>1, Zenon DEF KeysRun
  <2> QED
    BY <2>2, Zenon DEF KeyStep
<1>2. KeysAfter(k, p) = h[Len(p)]
  BY Zenon DEF KeysAfter
<1>3. P(h)
  BY <1>1, Zenon
<1> HIDE DEF h
<1>4a. h = [n \in 0 .. Len(p) |-> IF n = 0 THEN k ELSE KeyStep(h[n - 1], p[n])]
  BY <1>3, Zenon DEF KeyStep
<1>4b. \A n \in 0 .. Len(p) : h[n] = IF n = 0 THEN k ELSE KeyStep(h[n - 1], p[n])
  BY <1>4a, Zenon
<1>4. h[0] = k /\ \A n \in 1 .. Len(p) : h[n] = KeyStep(h[n - 1], p[n])
  BY <1>4b
<1>5. g[0] = k /\ \A n \in 1 .. Len(p) : g[n] = KeyStep(g[n - 1], p[n])
  BY Zenon DEF KeysRun
<1> DEFINE E(n) == n <= Len(p) => h[n] = g[n]
           T == {n \in Nat : E(n)}
<1>6. E(0)
  BY <1>4, <1>5, Zenon
<1>7. ASSUME NEW n \in Nat, E(n) PROVE E(n + 1)
  <2> SUFFICES ASSUME n + 1 <= Len(p) PROVE h[n + 1] = g[n + 1]
    BY Zenon
  <2>1. n + 1 \in 1 .. Len(p) /\ (n + 1) - 1 = n /\ n <= Len(p)
    OBVIOUS
  <2> QED
    BY <1>4, <1>5, <1>7, <2>1, Zenon
<1> HIDE DEF E
<1>8. 0 \in T /\ \A n \in Nat : n \in T => n + 1 \in T
  BY <1>6, <1>7, 0 \in Nat, \A n \in Nat : n + 1 \in Nat, Zenon
<1>9. \A n \in T : E(n)
  BY Zenon
<1> HIDE DEF T
<1>10. Len(p) \in T
  BY <1>8, InductiveSet
<1> QED
  BY <1>2, <1>9, <1>10 DEF E

LEMMA KeysAfterAppend ==
    ASSUME NEW k \in SUBSET KeyCodes, NEW p \in Seq(Evs), NEW e \in Evs
    PROVE  KeysAfter(k, Append(p, e)) = KeyStep(KeysAfter(k, p), e)
<1> DEFINE l == Len(p)
           q == Append(p, e)
<1>1. PICK g : KeysRun(g, k, p)
  BY KeysRunExists, Zenon
<1>2. /\ g \in [0 .. l -> SUBSET KeyCodes] /\ g[0] = k /\ l \in Nat
      /\ \A n \in 1 .. l : g[n] = KeyStep(g[n - 1], p[n])
  BY <1>1 DEF KeysRun
<1>3. q \in Seq(Evs) /\ Len(q) = l + 1 /\ q[l + 1] = e /\ \A n \in 1 .. l : q[n] = p[n]
  OBVIOUS
<1> DEFINE h == [n \in 0 .. l + 1 |-> IF n = l + 1 THEN KeyStep(g[l], e) ELSE g[n]]
<1>4. KeysAfter(k, p) = g[l]
  BY <1>1, KeysAfterIs, Zenon
<1> HIDE DEF l, q
<1>5. KeyStep(g[l], e) \in SUBSET KeyCodes
  BY <1>2, KeyStepType
<1>6. \A n \in 0 .. l : n # l + 1 /\ n \in 0 .. l + 1
  BY <1>2
<1>7. h[l + 1] = KeyStep(g[l], e) /\ \A n \in 0 .. l : h[n] = g[n]
  BY <1>2, <1>6
<1>8. h \in [0 .. l + 1 -> SUBSET KeyCodes]
  BY <1>2, <1>5
<1> HIDE DEF h
<1>9. ASSUME NEW n \in 1 .. l + 1 PROVE h[n] = KeyStep(h[n - 1], q[n])
  <2>1. CASE n = l + 1
    <3>1. n - 1 = l /\ l \in 0 .. l
      BY <1>2, <2>1
    <3> QED
      BY <1>3, <1>7, <2>1, <3>1, Zenon
  <2>2. CASE n # l + 1
    <3>1. n \in 1 .. l /\ n \in 0 .. l /\ n - 1 \in 0 .. l
      BY <1>2, <2>2
    <3> QED
      BY <1>2, <1>3, <1>7, <3>1, Zenon
  <2> QED
    BY <2>1, <2>2, Zenon
<1>10. h[0] = k
  BY <1>2, <1>7, 0 \in 0 .. l, Zenon
<1>11. KeysRun(h, k, q)
  BY <1>3, <1>8, <1>9, <1>10, Zenon DEF KeysRun
<1>12. KeysAfter(k, q) = h[Len(q)]
  BY <1>3, <1>11, KeysAfterIs, Zenon
<1> QED
  BY <1>3, <1>4, <1>7, <1>12, Zenon DEF q

\* While nothing is dropped, the offers change KEYS event by event.
LEMMA OfferedKeys ==
    ASSUME NEW d \in Devices, NEW p \in Seq(KeyEvents), NEW n \in Nat
    PROVE  LET e == Offered(d, Lines(p, n), 1)[Len(p)]
           IN  /\ e.dropped >= d.dropped
               /\ e.dropped = d.dropped => e.keys = KeysAfter(d.keys, p)
<1> DEFINE s == Lines(p, n)
           l == Len(p)
           f == Offered(d, s, 1)
<1>1. /\ s \in Seq(Recs) /\ Len(s) = l /\ l \in Nat
      /\ \A k \in 1 .. l : s[k] = [frame |-> n, e |-> p[k]]
  BY LinesAreRecs
<1>2. p \in Seq(Evs) /\ d.keys \in SUBSET KeyCodes /\ d.dropped \in Nat
  BY KeyEventsAreEvs DEF Devices, KeyCodes
<1> HIDE DEF s
<1>3. \A k \in 1 .. l : s[k].e = p[k] /\ s[k] \in Recs
  <2> SUFFICES ASSUME NEW k \in 1 .. l PROVE s[k].e = p[k] /\ s[k] \in Recs
    BY Zenon
  <2>1. s[k] = [frame |-> n, e |-> p[k]]
    BY <1>1, Zenon
  <2>2. [frame |-> n, e |-> p[k]].e = p[k]
    BY Zenon
  <2>3. s[k] \in Recs
    BY <1>1
  <2> QED
    BY <2>1, <2>2, <2>3, Zenon
<1>4. PICK g : KeysRun(g, d.keys, p)
  BY <1>2, KeysRunExists, Zenon
<1>5. KeysAfter(d.keys, p) = g[l] /\ g[0] = d.keys /\ \A k \in 1 .. l : g[k] = KeyStep(g[k - 1], p[k])
  BY <1>2, <1>4, KeysAfterIs, Zenon DEF KeysRun
<1>6. /\ f \in [1 - 1 .. Len(s) -> Devices] /\ f[1 - 1] = d
      /\ \A k \in 1 .. Len(s) : f[k] = Offer(f[k - 1], s[k])
  <2>1. 1 \in 1 .. Len(s) + 1
    BY <1>1
  <2> QED
    BY <1>1, <2>1, OfferedSteps
<1> HIDE DEF f, l
<1>7. f \in [0 .. l -> Devices] /\ f[0] = d /\ \A k \in 1 .. l : f[k] = Offer(f[k - 1], s[k])
  BY <1>1, <1>6
<1> DEFINE E(k) == k <= l => f[k].dropped >= d.dropped /\ (f[k].dropped = d.dropped => f[k].keys = g[k])
           T == {k \in Nat : E(k)}
<1>8. E(0)
  BY <1>2, <1>5, <1>7
<1>9. ASSUME NEW k \in Nat, E(k) PROVE E(k + 1)
  <2> SUFFICES ASSUME k + 1 <= l
               PROVE  /\ f[k + 1].dropped >= d.dropped
                      /\ f[k + 1].dropped = d.dropped => f[k + 1].keys = g[k + 1]
    BY Zenon
  <2>1. k + 1 \in 1 .. l /\ (k + 1) - 1 = k /\ k <= l /\ k \in 0 .. l
    BY <1>1
  <2>2. f[k] \in Devices /\ f[k].dropped \in Nat
    BY <1>7, <2>1, Zenon DEF Devices
  <2>3. f[k + 1] = Offer(f[k], s[k + 1]) /\ s[k + 1] \in Recs /\ s[k + 1].e = p[k + 1]
    BY <1>3, <1>7, <2>1, Zenon
  <2>4. \/ f[k + 1].dropped = f[k].dropped + 1
        \/ /\ f[k + 1].dropped = f[k].dropped
           /\ f[k + 1].keys = KeyStep(f[k].keys, p[k + 1])
    BY <2>2, <2>3, OfferOne, ZenonT(30)
  <2>5. f[k].dropped >= d.dropped /\ (f[k].dropped = d.dropped => f[k].keys = g[k])
    BY <1>9, <2>1, Zenon
  <2>6. g[k + 1] = KeyStep(g[k], p[k + 1])
    BY <1>5, <2>1, Zenon
  <2> QED
    BY <1>2, <2>2, <2>4, <2>5, <2>6
<1> HIDE DEF E
<1>10. 0 \in T /\ \A k \in Nat : k \in T => k + 1 \in T
  BY <1>8, <1>9, 0 \in Nat, \A k \in Nat : k + 1 \in Nat, Zenon
<1>11. \A k \in T : E(k)
  BY Zenon
<1> HIDE DEF T
<1>12. l \in T
  BY <1>1, <1>10, InductiveSet, Zenon
<1>13. E(l)
  BY <1>11, <1>12, Zenon
<1> QED
  BY <1>1, <1>5, <1>13 DEF E, f, s, l

\* The host keys of D that share code c.
Sharing(D, c) == {h \in D : KeyOf[h] = c}

\* held counts, for every code, the host keys that are down.
HeldInv ==
    /\ down \subseteq HostKeys
    /\ held = [c \in Codes |-> Cardinality(Sharing(down, c))]

LEMMA SharingFinite ==
    ASSUME NEW D \in SUBSET HostKeys, NEW c
    PROVE  IsFiniteSet(Sharing(D, c)) /\ Cardinality(Sharing(D, c)) \in Nat
<1>1. Sharing(D, c) \subseteq HostKeys /\ IsFiniteSet(HostKeys)
  BY WindowAssumption, Zenon DEF Sharing, HostKeys
<1>2. IsFiniteSet(Sharing(D, c))
  BY <1>1, FS_Subset, Zenon
<1> QED
  BY <1>2, FS_CardinalityType, Zenon

\* A host key goes down or up: its code's count, and whether the code changes.
LEMMA HeldStep ==
    ASSUME HeldInv, NEW h \in HostKeys, HostKey(h)
    PROVE  LET c == KeyOf[h]
               press == h \notin down
           IN  /\ HeldInv'
               /\ HeldChanges(c, press) => {KeyOf[g] : g \in down'} =
                     IF press THEN {KeyOf[g] : g \in down} \cup {c} ELSE {KeyOf[g] : g \in down} \ {c}
               /\ ~ HeldChanges(c, press) => {KeyOf[g] : g \in down'} = {KeyOf[g] : g \in down}
<1> DEFINE c == KeyOf[h]
           A == Sharing(down, c)
<1>1. /\ down \in SUBSET HostKeys /\ c \in Codes /\ held = [x \in Codes |-> Cardinality(Sharing(down, x))]
      /\ \A x \in Codes : held[x] = Cardinality(Sharing(down, x))
  BY Zenon DEF HeldInv, Codes
<1>2. IsFiniteSet(A) /\ Cardinality(A) \in Nat /\ held[c] = Cardinality(A)
  BY <1>1, SharingFinite, Zenon
<1>3. CASE h \notin down
  <2>1. down' = down \cup {h} /\ held' = [held EXCEPT ![c] = held[c] + 1]
    BY <1>3, Zenon DEF HostKey
  <2>2. Sharing(down', c) = A \cup {h} /\ \A x \in Codes : x # c => Sharing(down', x) = Sharing(down, x)
    BY <2>1, Zenon DEF Sharing
  <2>3. h \notin A
    BY <1>3, Zenon DEF Sharing
  <2> HIDE DEF A
  <2>4. Cardinality(Sharing(down', c)) = Cardinality(A) + 1
    BY <1>2, <2>2, <2>3, FS_AddElement, Zenon
  <2>5. held' = [x \in Codes |-> Cardinality(Sharing(down', x))]
    BY <1>1, <1>2, <2>1, <2>2, <2>4, Zenon
  <2>6. HeldInv'
    BY <1>1, <2>1, <2>5, Zenon DEF HeldInv
  <2>7. held'[c] = Cardinality(A) + 1
    BY <1>1, <2>4, <2>5, Zenon
  <2>8. {KeyOf[g] : g \in down'} = {KeyOf[g] : g \in down} \cup {c}
    BY <2>1, Zenon
  <2>9. ~ HeldChanges(c, TRUE) => c \in {KeyOf[g] : g \in down}
    <3> SUFFICES ASSUME held'[c] # 1 PROVE c \in {KeyOf[g] : g \in down}
      BY Zenon DEF HeldChanges
    <3>1. A # {}
      BY <1>2, <2>7, FS_EmptySet
    <3> QED
      BY <3>1, Zenon DEF A, Sharing
  <2> QED
    BY <1>3, <2>6, <2>8, <2>9, Zenon
<1>4. CASE h \in down
  <2>1. h \in A
    BY <1>4, Zenon DEF Sharing
  <2>2. A # {}
    BY <2>1, Zenon
  <2>3. Cardinality(A) > 0
    BY <1>2, <2>2, FS_EmptySet
  <2>4. down' = down \ {h} /\ held' = [held EXCEPT ![c] = IF held[c] > 0 THEN held[c] - 1 ELSE 0]
    BY <1>4, Zenon DEF HostKey
  <2>5. Sharing(down', c) = A \ {h} /\ \A x \in Codes : x # c => Sharing(down', x) = Sharing(down, x)
    BY <2>4, Zenon DEF Sharing
  <2>6. c \in {KeyOf[g] : g \in down'} <=> A \ {h} # {}
    BY <2>5, Zenon DEF Sharing
  <2>7. {KeyOf[g] : g \in down'} \cup {c} = {KeyOf[g] : g \in down}
    BY <1>4, <2>4, Zenon
  <2> HIDE DEF A
  <2>8. IsFiniteSet(A \ {h}) /\ Cardinality(A \ {h}) = Cardinality(A) - 1
    BY <1>2, <2>1, FS_RemoveElement, Zenon
  <2>9. held' = [x \in Codes |-> Cardinality(Sharing(down', x))]
    BY <1>1, <1>2, <2>3, <2>4, <2>5, <2>8, Zenon
  <2>10. HeldInv'
    BY <1>1, <2>4, <2>9, Zenon DEF HeldInv
  <2>11. held'[c] = Cardinality(A) - 1
    BY <1>1, <2>5, <2>8, <2>9, Zenon
  <2>12. HeldChanges(c, FALSE) <=> A \ {h} = {}
    BY <1>2, <2>8, <2>11, FS_EmptySet, Zenon DEF HeldChanges
  <2>13. HeldChanges(c, FALSE) => {KeyOf[g] : g \in down'} = {KeyOf[g] : g \in down} \ {c}
    BY <2>6, <2>7, <2>12, Zenon
  <2>14. ~ HeldChanges(c, FALSE) => {KeyOf[g] : g \in down'} = {KeyOf[g] : g \in down}
    BY <2>6, <2>7, <2>12, Zenon
  <2> QED
    BY <1>4, <2>10, <2>13, <2>14, Zenon
<1> QED
  BY <1>3, <1>4, Zenon

LEMMA EmptyScript ==
    ASSUME NEW d \in Devices, NEW n \in Nat
    PROVE  Deliver(d, <<>>, 1, n) = d
<1>1. <<>> \in Seq(Recs) /\ Len(<<>>) = 0 /\ 1 \in 1 .. Len(<<>>) + 1
  OBVIOUS
<1>2a. DueEnd(<<>>, 1, n) \in 1 - 1 .. Len(<<>>)
  BY <1>1, DueEndStops, Zenon
<1>2. DueEnd(<<>>, 1, n) = 0
  BY <1>1, <1>2a
<1>3. Offered(d, <<>>, 1)[1 - 1] = d
  BY <1>1, OfferedSteps, ZenonT(30)
<1> QED
  BY <1>2, <1>3, 1 - 1 = 0, Zenon DEF Deliver

LEMMA KeysAfterNone == \A k \in SUBSET KeyCodes : KeysAfter(k, <<>>) = k
<1> SUFFICES ASSUME NEW k \in SUBSET KeyCodes PROVE KeysAfter(k, <<>>) = k
  BY Zenon
<1>1. <<>> \in Seq(Evs) /\ Len(<<>>) = 0
  OBVIOUS
<1>2. PICK g : KeysRun(g, k, <<>>)
  BY <1>1, KeysRunExists, Zenon
<1> QED
  BY <1>1, <1>2, KeysAfterIs DEF KeysRun

KeysInv == HeldInv /\ KeysFollowHost

LEMMA KeysInit == WindowInit => KeysInv
<1> SUFFICES ASSUME WindowInit PROVE KeysInv
  BY Zenon
<1>1. down = {} /\ held = [c \in Codes |-> 0] /\ pending = <<>>
  BY Zenon DEF WindowInit
<1>2. \A c \in Codes : Sharing(down, c) = {}
  BY <1>1, Zenon DEF Sharing
<1>3. HeldInv
  BY <1>1, <1>2, FS_EmptySet, Zenon DEF HeldInv
<1>4. ASSUME script = <<>> PROVE KeysAfter(keys, pending) = {KeyOf[h] : h \in down}
  <2>1. keys = Deliver(Empty, script, 1, 0).keys
    BY Zenon DEF WindowInit
  <2>2. keys = {}
    BY <1>4, <2>1, EmptyScript, EmptyDevice, 0 \in Nat DEF Empty
  <2>3. KeysAfter(keys, pending) = {}
    BY <1>1, <2>2, KeysAfterNone
  <2> QED
    BY <1>1, <2>3, Zenon
<1> QED
  BY <1>3, <1>4, Zenon DEF KeysInv, KeysFollowHost

LEMMA KeysInductive == WinType /\ KeysInv /\ [WindowNext]_winVars => KeysInv'
<1> SUFFICES ASSUME WinType, KeysInv, [WindowNext]_winVars PROVE KeysInv'
  BY Zenon
<1>0. /\ device \in Devices /\ device.keys = keys /\ device.dropped = dropped /\ pending \in Seq(KeyEvents)
      /\ frames \in Nat /\ HeldInv /\ KeysFollowHost
  BY DeviceFields, Zenon DEF WinType, KeysInv
<1>a. keys \in SUBSET KeyCodes /\ dropped \in Nat /\ pending \in Seq(Evs)
  BY <1>0, KeyEventsAreEvs DEF Devices, KeyCodes
<1>b. ASSUME UNCHANGED <<script, keys, dropped, pending, down, held>> PROVE KeysInv'
  BY <1>0, <1>b, Zenon DEF KeysInv, HeldInv, KeysFollowHost
<1>1. CASE \E h \in HostKeys : HostKey(h)
  <2>1. PICK h \in HostKeys : HostKey(h)
    BY <1>1, Zenon
  <2> DEFINE c == KeyOf[h]
             press == h \notin down
             K == {KeyOf[g] : g \in down}
  <2>2. /\ HeldInv'
        /\ HeldChanges(c, press) => {KeyOf[g] : g \in down'} = IF press THEN K \cup {c} ELSE K \ {c}
        /\ ~ HeldChanges(c, press) => {KeyOf[g] : g \in down'} = K
    BY <1>0, <2>1, HeldStep, Zenon
  <2>3. /\ pending' = IF HeldChanges(c, press) THEN Append(pending, Event(press, c)) ELSE pending
        /\ UNCHANGED <<script, keys, dropped>>
    BY <2>1, Zenon DEF HostKey, Machine
  <2>4. Event(press, c) \in KeyEvents /\ Event(press, c).press = press /\ Event(press, c).code = c
    BY Zenon DEF Event, KeyEvents, Codes
  <2>5. Event(press, c) \in Evs
    BY <2>4, KeyEventsAreEvs, Zenon
  <2>6. ASSUME dropped = 0, script = <<>> PROVE KeysAfter(keys, pending') = {KeyOf[g] : g \in down'}
    <3>1. KeysAfter(keys, pending) = K
      BY <1>0, <2>6, Zenon DEF KeysFollowHost
    <3> HIDE DEF K
    <3>2. CASE HeldChanges(c, press)
      <4>1. KeysAfter(keys, pending') = KeyStep(K, Event(press, c))
        BY <1>a, <2>3, <2>5, <3>1, <3>2, KeysAfterAppend, Zenon
      <4>2. KeyStep(K, Event(press, c)) = IF press THEN K \cup {c} ELSE K \ {c}
        BY <2>4, Zenon DEF KeyStep
      <4> QED
        BY <2>2, <3>2, <4>1, <4>2, Zenon
    <3>3. CASE ~ HeldChanges(c, press)
      BY <2>2, <2>3, <3>1, <3>3, Zenon
    <3> QED
      BY <3>2, <3>3, Zenon
  <2> QED
    BY <2>2, <2>3, <2>6, Zenon DEF KeysInv, KeysFollowHost
<1>2. CASE CloseRequested
  BY <1>b, <1>2, Zenon DEF CloseRequested, Machine
<1>3. CASE EndPump
  BY <1>b, <1>3, Zenon DEF EndPump
<1>4. CASE GuestTakes
  BY <1>b, <1>4, Zenon DEF GuestTakes
<1>5. CASE SliceEnds
  BY <1>b, <1>5, Zenon DEF SliceEnds, Machine
<1>6. CASE Present
  <2>1. /\ Becomes(Deliver(device, script, next_scripted, frames + 1))
        /\ UNCHANGED <<script, held, pending, down>>
    BY <1>6, Zenon DEF Present
  <2>2. ASSUME script = <<>> PROVE keys' = keys /\ dropped' = dropped
    <3>1. Len(script) = 0 /\ next_scripted = 1
      BY <2>2 DEF WinType
    <3>2. Deliver(device, script, next_scripted, frames + 1) = device
      BY <1>0, <2>2, <3>1, EmptyScript
    <3> QED
      BY <1>0, <2>1, <3>2, Zenon DEF Becomes
  <2> QED
    BY <1>0, <2>1, <2>2, Zenon DEF KeysInv, HeldInv, KeysFollowHost
<1>7. CASE Presented
  <2> DEFINE d == Offered(device, Lines(pending, frames), 1)[Len(pending)]
  <2>1. Becomes(d) /\ pending' = <<>> /\ UNCHANGED <<script, held, down>>
    BY <1>7, Zenon DEF Presented, QueuePending
  <2>2. d.dropped >= dropped /\ (d.dropped = dropped => d.keys = KeysAfter(keys, pending))
    BY <1>0, OfferedKeys, Zenon
  <2>3. Lines(pending, frames) \in Seq(Recs) /\ Len(Lines(pending, frames)) = Len(pending)
    BY <1>0, LinesAreRecs, Zenon
  <2>4. d \in Devices
    <3>1. 1 \in 1 .. Len(Lines(pending, frames)) + 1 /\ Len(pending) \in 1 - 1 .. Len(Lines(pending, frames))
      BY <2>3
    <3> QED
      BY <1>0, <2>3, <3>1, OfferFeeds, Zenon
  <2> HIDE DEF d
  <2>5. d.dropped \in Nat /\ d.keys \in SUBSET KeyCodes
    BY <2>4, Zenon DEF Devices, KeyCodes
  <2>6. ASSUME dropped' = 0, script = <<>> PROVE KeysAfter(keys', <<>>) = {KeyOf[g] : g \in down}
    <3>1. d.dropped = 0 /\ dropped = 0 /\ keys' = d.keys
      BY <1>a, <2>1, <2>2, <2>5, <2>6 DEF Becomes
    <3>2. keys' = KeysAfter(keys, pending)
      BY <2>2, <3>1, Zenon
    <3>3. KeysAfter(keys', <<>>) = keys'
      BY <2>5, <3>1, KeysAfterNone, Zenon
    <3> QED
      BY <1>0, <2>6, <3>1, <3>2, <3>3, Zenon DEF KeysFollowHost
  <2> QED
    BY <1>0, <2>1, <2>6, Zenon DEF KeysInv, HeldInv, KeysFollowHost
<1>8. CASE GuestDone
  BY <1>b, <1>8, Zenon DEF GuestDone
<1>9. CASE FinishRun
  BY <1>b, <1>9, Zenon DEF FinishRun
<1>10. CASE UNCHANGED winVars
  BY <1>b, <1>10, Zenon DEF winVars
<1>11. CASE WindowOver
  BY <1>10, <1>11, Zenon DEF WindowOver
<1> QED
  BY <1>1, <1>2, <1>3, <1>4, <1>5, <1>6, <1>7, <1>8, <1>9, <1>10, <1>11, SMTT(30) DEF WindowNext

\* KEYS follows the host's keyboard, however many host keys share a code
\* (rv32win.c held[], emu_queue_event).
THEOREM KeysAlwaysFollow == WindowInit /\ [][WindowNext]_winVars => []KeysFollowHost
<1>1. WindowInit => WinType /\ ReplayInv /\ KeysInv
  BY ReplayInit, KeysInit, Zenon
<1>2. (WinType /\ ReplayInv /\ KeysInv) /\ [WindowNext]_winVars => (WinType /\ ReplayInv /\ KeysInv)'
  BY ReplayInductive, KeysInductive, Zenon
<1>3. KeysInv => KeysFollowHost
  BY Zenon DEF KeysInv
<1> QED
  BY <1>1, <1>2, <1>3, PTL

-----------------------------------------------------------------------------
(* A pass is earned. *)

\* Entries 1 .. n of the script stand in the record, in order.
InOrder(f, s, n, r) ==
    /\ f \in [1 .. n -> 1 .. Len(r)]
    /\ \A i, j \in 1 .. n : i < j => f[i] < f[j]
    /\ \A i \in 1 .. n : r[f[i]] = s[i]

DeliveredInv == \E f : InOrder(f, script, next_scripted - 1, record)

VerdictInv == (state = "exit" /\ verdict = "pass" /\ ~ allow_lost_events) => LostEvents <= 0

LEMMA InOrderPrefix ==
    ASSUME NEW r \in Seq(Recs), NEW t \in Seq(Recs), Prefix(r, t), NEW n \in Nat, NEW s, NEW f, InOrder(f, s, n, r)
    PROVE  InOrder(f, s, n, t)
<1>1. Len(r) \in Nat /\ Len(t) \in Nat /\ Len(r) <= Len(t) /\ \A k \in 1 .. Len(r) : r[k] = t[k]
  BY DEF Prefix
<1>2. 1 .. Len(r) \subseteq 1 .. Len(t)
  BY <1>1
<1> QED
  BY <1>1, <1>2, Zenon DEF InOrder

\* Delivering entries n + 1 .. m appends them to the record.
LEMMA InOrderOffered ==
    ASSUME NEW s \in Seq(Recs), NEW n \in 0 .. Len(s), NEW m \in n .. Len(s), NEW d \in Devices,
           NEW f, InOrder(f, s, n, d.record)
    PROVE  \E g : InOrder(g, s, m, Offered(d, s, n + 1)[m].record)
<1> DEFINE r == Offered(d, s, n + 1)[m].record
           l == Len(d.record)
           g == [i \in 1 .. m |-> IF i <= n THEN f[i] ELSE l + (i - n)]
           q == m - n
<1>1. /\ f \in [1 .. n -> 1 .. l] /\ (\A i, j \in 1 .. n : i < j => f[i] < f[j])
      /\ \A i \in 1 .. n : d.record[f[i]] = s[i]
  BY Zenon DEF InOrder
<1>2. l \in Nat
  BY DeviceRecord, Zenon
<1>3. q \in Nat /\ n + 1 \in 1 .. Len(s) + 1 /\ (n + 1) - 1 + q = m /\ (n + 1) - 1 + q <= Len(s)
  OBVIOUS
<1>4. /\ Len(r) = l + q /\ \A k \in 1 .. l : r[k] = d.record[k]
      /\ \A k \in 1 .. q : r[l + k] = s[(n + 1) - 1 + k]
  <2> HIDE DEF q
  <2> QED
    BY <1>3, OfferedRecord, ZenonT(30)
<1> HIDE DEF r, l
<1>5. \A i \in 1 .. m : IF i <= n THEN i \in 1 .. n /\ f[i] \in 1 .. l ELSE i - n \in 1 .. q /\ (n + 1) - 1 + (i - n) = i
  BY <1>1
<1>6. \A i \in 1 .. m : g[i] = IF i <= n THEN f[i] ELSE l + (i - n)
  BY Zenon
<1>7. g \in [1 .. m -> 1 .. Len(r)]
  <2>1. \A i \in 1 .. m : (IF i <= n THEN f[i] ELSE l + (i - n)) \in 1 .. Len(r)
    BY <1>2, <1>4, <1>5
  <2> QED
    BY <2>1, Zenon
<1> HIDE DEF g
<1>8. ASSUME NEW i \in 1 .. m, NEW j \in 1 .. m, i < j PROVE g[i] < g[j]
  BY <1>1, <1>2, <1>5, <1>6, <1>8
<1>9. ASSUME NEW i \in 1 .. m PROVE r[g[i]] = s[i]
  BY <1>1, <1>4, <1>5, <1>6, SMTT(30)
<1>10. InOrder(g, s, m, r)
  BY <1>7, <1>8, <1>9, Zenon DEF InOrder
<1> QED
  BY <1>10, Zenon DEF r

LEMMA EarnedInit == WindowInit => DeliveredInv /\ VerdictInv
<1> SUFFICES ASSUME WindowInit PROVE DeliveredInv /\ VerdictInv
  BY Zenon
<1>1. script \in Scripts /\ record = Deliver(Empty, script, 1, 0).record /\ state = "pump"
      /\ next_scripted = DueEnd(script, 1, 0) + 1
  BY Zenon DEF WindowInit
<1>2. script \in Seq(Recs) /\ Len(script) \in Nat /\ 1 \in 1 .. Len(script) + 1 /\ 0 \in 0 .. Len(script)
  BY <1>1, ScriptsAreRecs
<1> DEFINE m == DueEnd(script, 1, 0)
<1>3. m \in 1 - 1 .. Len(script)
  BY <1>2, DueEndStops, Zenon
<1> HIDE DEF m
<1>4. InOrder(<<>>, script, 0, Empty.record)
  BY DEF InOrder, Empty
<1>5. m \in 0 .. Len(script) /\ next_scripted - 1 = m /\ 0 + 1 = 1
  BY <1>1, <1>3 DEF m
<1>6. \E g : InOrder(g, script, m, Offered(Empty, script, 0 + 1)[m].record)
  BY <1>2, <1>4, <1>5, EmptyDevice, InOrderOffered, Zenon
<1>7. record = Offered(Empty, script, 1)[m].record
  BY <1>1, Zenon DEF Deliver, m
<1>8. DeliveredInv
  BY <1>5, <1>6, <1>7, Zenon DEF DeliveredInv
<1> QED
  BY <1>1, <1>8, Zenon DEF VerdictInv

LEMMA EarnedInductive ==
    WinType /\ DeliveredInv /\ VerdictInv /\ [WindowNext]_winVars => DeliveredInv' /\ VerdictInv'
<1> SUFFICES ASSUME WinType, DeliveredInv, VerdictInv, [WindowNext]_winVars PROVE DeliveredInv' /\ VerdictInv'
  BY Zenon
<1>0. /\ script \in Seq(Recs) /\ Len(script) \in Nat /\ next_scripted \in 1 .. Len(script) + 1
      /\ device \in Devices /\ device.record = record /\ record \in Seq(Recs) /\ frames \in Nat
      /\ pending \in Seq(KeyEvents)
  BY ScriptsAreRecs, DeviceFields, DeviceRecord DEF WinType
<1>a. PICK f : InOrder(f, script, next_scripted - 1, record)
  BY Zenon DEF DeliveredInv
<1>b. ASSUME UNCHANGED <<script, next_scripted, record>> PROVE DeliveredInv'
  BY <1>b, Zenon DEF DeliveredInv
<1>1. CASE \E h \in HostKeys : HostKey(h)
  BY <1>b, <1>1, Zenon DEF HostKey, Machine, VerdictInv
<1>2. CASE CloseRequested
  BY <1>b, <1>2, Zenon DEF CloseRequested, Machine, VerdictInv
<1>3. CASE EndPump
  <2>1. state' # "exit"
    BY <1>3, Zenon DEF EndPump
  <2> QED
    BY <1>b, <1>3, <2>1, Zenon DEF EndPump, VerdictInv
<1>4. CASE GuestTakes
  BY <1>b, <1>4, Zenon DEF GuestTakes, VerdictInv
<1>5. CASE SliceEnds
  BY <1>b, <1>5, Zenon DEF SliceEnds, Machine, VerdictInv
<1>6. CASE Present
  <2> DEFINE n == next_scripted - 1
             m == DueEnd(script, next_scripted, frames + 1)
  <2>1. /\ Becomes(Deliver(device, script, next_scripted, frames + 1))
        /\ next_scripted' = m + 1 /\ script' = script /\ state' = "presented"
    BY <1>6, Zenon DEF Present
  <2>2. m \in next_scripted - 1 .. Len(script)
    <3>1. frames + 1 \in Nat
      BY <1>0
    <3> QED
      BY <1>0, <3>1, DueEndStops, Zenon
  <2> HIDE DEF m
  <2>3. n \in 0 .. Len(script) /\ m \in n .. Len(script) /\ n + 1 = next_scripted /\ (m + 1) - 1 = m
    BY <1>0, <2>2
  <2>4. \E g : InOrder(g, script, m, Offered(device, script, n + 1)[m].record)
    <3>1. InOrder(f, script, n, device.record)
      BY <1>0, <1>a, Zenon
    <3> HIDE DEF n
    <3> QED
      BY <1>0, <2>3, <3>1, InOrderOffered, Zenon
  <2>5. record' = Offered(device, script, next_scripted)[m].record
    BY <2>1, Zenon DEF Becomes, Deliver, m
  <2> HIDE DEF n
  <2>6. \E g : InOrder(g, script', next_scripted' - 1, record')
    BY <2>1, <2>3, <2>4, <2>5, Zenon
  <2> QED
    BY <2>1, <2>6, Zenon DEF DeliveredInv, VerdictInv
<1>7. CASE Presented
  <2> DEFINE s == Lines(pending, frames)
             d == Offered(device, s, 1)[Len(pending)]
  <2>1. Becomes(d) /\ state' = "pump" /\ UNCHANGED <<script, next_scripted>>
    BY <1>7, Zenon DEF Presented, QueuePending
  <2>2. s \in Seq(Recs) /\ Len(s) = Len(pending)
    BY <1>0, LinesAreRecs, Zenon
  <2>3. 1 \in 1 .. Len(s) + 1 /\ Len(pending) \in 1 - 1 .. Len(s)
    BY <1>0, <2>2
  <2>4. d \in Devices /\ Fed(device, d)
    BY <1>0, <2>2, <2>3, OfferFeeds, Zenon
  <2> HIDE DEF d
  <2>5. Prefix(record, d.record) /\ d.record \in Seq(Recs) /\ record' = d.record
    BY <1>0, <2>1, <2>4, DeviceRecord, Zenon DEF Fed, Becomes
  <2>6. next_scripted - 1 \in Nat
    BY <1>0
  <2>7. InOrder(f, script, next_scripted - 1, d.record)
    BY <1>0, <1>a, <2>5, <2>6, InOrderPrefix, Zenon
  <2> QED
    BY <2>1, <2>5, <2>7, Zenon DEF DeliveredInv, VerdictInv
<1>8. CASE GuestDone
  <2>1. state' # "exit"
    BY <1>8, Zenon DEF GuestDone
  <2> QED
    BY <1>b, <1>8, <2>1, Zenon DEF GuestDone, VerdictInv
<1>9. CASE FinishRun
  <2>1. DeliveredInv'
    BY <1>b, <1>9, Zenon DEF FinishRun
  <2>2. UNCHANGED <<dropped, script, next_scripted, allow_lost_events>>
    BY <1>9, Zenon DEF FinishRun
  <2>3. LostEvents' = LostEvents
    BY <2>2, Zenon DEF LostEvents
  <2>4. dropped \in Nat
    BY <1>0, DeviceFields, Zenon DEF Devices
  <2>5. LostEvents \in Int
    BY <1>0, <2>4 DEF LostEvents
  <2>6. PICK ok \in BOOLEAN :
           verdict' = IF ~ ok \/ (verdict = "pass" /\ LostEvents > 0 /\ ~ allow_lost_events)
                      THEN "error" ELSE verdict
    BY <1>9, Zenon DEF FinishRun
  <2>7. ASSUME verdict' = "pass", ~ allow_lost_events PROVE LostEvents <= 0
    <3>1. ~ (LostEvents > 0)
      BY <2>6, <2>7, Zenon
    <3> QED
      BY <2>5, <3>1
  <2> QED
    BY <2>1, <2>2, <2>3, <2>7, Zenon DEF VerdictInv
<1>10. CASE UNCHANGED winVars
  <2>1. UNCHANGED <<script, next_scripted, record, dropped, state, verdict, allow_lost_events>>
    BY <1>10, Zenon DEF winVars
  <2> QED
    BY <1>b, <2>1, Zenon DEF VerdictInv, LostEvents
<1>11. CASE WindowOver
  BY <1>10, <1>11, Zenon DEF WindowOver
<1> QED
  BY <1>1, <1>2, <1>3, <1>4, <1>5, <1>6, <1>7, <1>8, <1>9, <1>10, <1>11, SMTT(30) DEF WindowNext

\* A success without --allow-lost-events means that every scripted event reached the
\* guest's device, in order (emu_exit_status, emu_deliver_events).
THEOREM PassesAreEarned == WindowInit /\ [][WindowNext]_winVars => []PassIsEarned
<1> DEFINE I == WinType /\ ReplayInv /\ DeliveredInv /\ VerdictInv
<1>1. WindowInit => I
  BY ReplayInit, EarnedInit, Zenon
<1>2. I /\ [WindowNext]_winVars => I'
  BY ReplayInductive, EarnedInductive, Zenon
<1>3. I => PassIsEarned
  <2> SUFFICES ASSUME I, state = "exit", verdict = "pass", ~ allow_lost_events
               PROVE  /\ dropped = 0
                      /\ \E f \in [DOMAIN script -> DOMAIN record] :
                            /\ \A i, j \in DOMAIN script : i < j => f[i] < f[j]
                            /\ \A i \in DOMAIN script : record[f[i]] = script[i]
    BY Zenon DEF PassIsEarned
  <2>1. /\ script \in Seq(Recs) /\ Len(script) \in Nat /\ next_scripted \in 1 .. Len(script) + 1
        /\ dropped \in Nat /\ record \in Seq(Recs)
    BY ScriptsAreRecs, DeviceFields, DeviceRecord DEF WinType, Devices
  <2>2. LostEvents <= 0
    BY Zenon DEF VerdictInv
  <2>3. dropped = 0 /\ next_scripted - 1 = Len(script)
    BY <2>1, <2>2 DEF LostEvents
  <2>4. PICK f : InOrder(f, script, Len(script), record)
    BY <2>3, Zenon DEF DeliveredInv
  <2>5. DOMAIN script = 1 .. Len(script) /\ DOMAIN record = 1 .. Len(record)
    BY <2>1
  <2> QED
    BY <2>3, <2>4, <2>5, Zenon DEF InOrder
<1> HIDE DEF I
<1> QED
  BY <1>1, <1>2, <1>3, PTL

=============================================================================
