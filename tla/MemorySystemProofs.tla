--------------------------- MODULE MemorySystemProofs --------------------------
(***************************************************************************)
(* The memory, its ports and the channels to the caches, for every         *)
(* latency, capacity of a channel, size of the wheel, set of requests and  *)
(* program: a reservation is a packet on the way, no more than fit, a read *)
(* is answered in time, and all of it is an array of bytes with two ports. *)
(*                                                                         *)
(* The invariant MemoryInv is about views.  The view of a channel is what  *)
(* has arrived (st), what is reserved (pd), what was sent in this tick and *)
(* is not fired (now), and what is due in one, two, ... cycles (due): the  *)
(* wheel, the lists of events and the order in which push_back leaves them *)
(* are in it no more.  Each operation of the platform does a simple thing  *)
(* to the view of its channel and nothing to the others; PortOk says what  *)
(* a port is like between two ticks, in terms of its two views, and there  *)
(* is a lemma for each tick.  For a view to follow push_back, which puts   *)
(* the new event before the last one, no two packets of a channel may be   *)
(* due in the same cycle: this is part of PortOk (ChanOk, Ready), and a    *)
(* lemma (FireEffect) needs that the memory sends at most two packets in a *)
(* tick, to different channels.                                            *)
(*                                                                         *)
(* When an answer comes depends on where its request was: PortOk relates   *)
(* the age of a read to the cycles its packet has still to wait and to the *)
(* place it has in the memory's queue (Ages), and needs that a port has at *)
(* most one read, behind which nothing is asked (Order).                   *)
(*                                                                         *)
(* The refinement adds to MemoryInv what the packets and the pages hold    *)
(* (DataOk): requests, and pages of which the noted one is the page it is  *)
(* noted to be (RamIs).  byte_of is then what get finds, each service of a *)
(* port is a simple thing to byte_of (TurnBytes), and the loops of the     *)
(* loaders are counted up one byte and one record at a time (ImageLoaded,  *)
(* HexLoaded).                                                             *)
(***************************************************************************)
EXTENDS MemorySystem, SequenceTheorems, WellFoundedInduction, TLAPS

-------------------------------------------------------------------------------
(* Sequences: a list and its places.  Sel(s, S) is the subsequence of s of what
   is in S, as among makes it. *)

(* The proofs about a definition that goes along a sequence take the least
   number at which it would be wrong. *)
LEMMA LeastNumber ==
    ASSUME NEW S, S \subseteq Nat, S # {}
    PROVE  \E m \in S : \A n \in S : m <= n
<1>1. PICK m \in S : \A n \in S : ~ (<<n, m>> \in OpToRel(<, Nat))
    BY NatLessThanWellFounded, WFMin
<1>2. ASSUME NEW n \in S PROVE m <= n
    <2>1. ~ (n < m)
        BY <1>1 DEF OpToRel
    <2> QED
        BY <2>1
<1> QED
    BY <1>2

LEMMA SplitEnd ==
    ASSUME NEW T, NEW s \in Seq(T), s # <<>>
    PROVE  /\ Front(s) \in Seq(T) /\ Last(s) \in T
           /\ Len(Front(s)) = Len(s) - 1 /\ Len(s) \in Nat /\ Len(s) # 0
           /\ s = Append(Front(s), Last(s))
<1>1. Len(s) \in Nat /\ Len(s) # 0
    OBVIOUS
<1>2. Front(s) = SubSeq(s, 1, Len(s) - 1)
    BY DEF Front
<1>3. Last(s) = s[Len(s)]
    BY DEF Last
<1>4. Front(s) \in Seq(T) /\ Last(s) \in T /\ Len(Front(s)) = Len(s) - 1
    <2>1. \A i \in 1 .. Len(s) : s[i] \in T
        OBVIOUS
    <2> DEFINE n == Len(s) - 1
    <2>2. SubSeq(s, 1, n) \in Seq(T) /\ Len(SubSeq(s, 1, n)) = n
        <3>1. n \in Nat /\ \A i \in 1 .. n : s[i] \in T
            BY <1>1, <2>1
        <3> HIDE DEF n
        <3>2. 1 \in Int /\ n \in Int /\ n - 1 + 1 = n /\ (~ (1 <= n) => n = 0)
            BY <3>1
        <3> QED
            BY <3>1, <3>2, SubSeqProperties
    <2>3. s[Len(s)] \in T
        BY <1>1, <2>1
    <2> QED
        BY <1>2, <1>3, <2>2, <2>3
<1>5. \A i \in 1 .. Len(s) : s[i] = Append(Front(s), Last(s))[i]
    BY <1>1, <1>2, <1>3, <1>4
<1>6. Append(Front(s), Last(s)) \in Seq(T) /\ Len(Append(Front(s), Last(s))) = Len(s)
    BY <1>1, <1>4
<1>7. s = Append(Front(s), Last(s))
    BY <1>5, <1>6
<1> QED
    BY <1>1, <1>4, <1>7

LEMMA SplitHead ==
    ASSUME NEW T, NEW s \in Seq(T), s # <<>>
    PROVE  /\ Head(s) \in T /\ Tail(s) \in Seq(T) /\ Len(Tail(s)) = Len(s) - 1
           /\ Head(s) = s[1] /\ \A i \in 1 .. Len(s) - 1 : Tail(s)[i] = s[i + 1]
OBVIOUS

LEMMA ConcatAppend ==
    ASSUME NEW T, NEW s \in Seq(T), NEW t \in Seq(T), NEW e \in T
    PROVE  s \o Append(t, e) = Append(s \o t, e)
OBVIOUS

LEMMA ConcatAssoc ==
    ASSUME NEW T, NEW s \in Seq(T), NEW t \in Seq(T), NEW u \in Seq(T)
    PROVE  (s \o t) \o u = s \o (t \o u)
OBVIOUS

LEMMA ConcatEmpty ==
    ASSUME NEW T, NEW s \in Seq(T)
    PROVE  s \o <<>> = s /\ <<>> \o s = s
OBVIOUS

-------------------------------------------------------------------------------
(* among. *)
IsKept(F, s, P, n) ==
    F = [i \in 0 .. n |-> IF i = 0 THEN <<>>
                          ELSE IF i \in P THEN Append(F[i - 1], s[i]) ELSE F[i - 1]]

LEMMA KeptExists ==
    ASSUME NEW s, NEW P, NEW n \in Nat
    PROVE  \E F : IsKept(F, s, P, n)
<1> DEFINE Missing == {k \in Nat : ~ \E F : IsKept(F, s, P, k)}
<1> SUFFICES ASSUME Missing # {} PROVE FALSE
    OBVIOUS
<1>1. PICK m \in Missing : \A k \in Missing : m <= k
    <2>1. Missing \subseteq Nat
        OBVIOUS
    <2> HIDE DEF Missing
    <2> QED
        BY <2>1, LeastNumber
<1>2. CASE m = 0
    <2>1. IsKept([i \in 0 .. 0 |-> <<>>], s, P, 0)
        BY DEF IsKept
    <2> QED
        BY <1>1, <1>2, <2>1
<1>3. CASE m # 0
    <2>1. m \in Nat /\ m - 1 \in Nat /\ m - 1 \notin Missing
        BY <1>1, <1>3
    <2>2. PICK F : IsKept(F, s, P, m - 1)
        BY <2>1
    <2> DEFINE G == [i \in 0 .. m |-> IF i = m THEN IF m \in P THEN Append(F[m - 1], s[m]) ELSE F[m - 1]
                                      ELSE F[i]]
    <2>3. ASSUME NEW i \in 0 .. m
          PROVE  G[i] = IF i = 0 THEN <<>> ELSE IF i \in P THEN Append(G[i - 1], s[i]) ELSE G[i - 1]
        <3>1. CASE i = m
            <4>1. G[i - 1] = F[m - 1] /\ G[i] = IF m \in P THEN Append(F[m - 1], s[m]) ELSE F[m - 1]
                BY <2>1, <3>1, <1>3
            <4> QED
                BY <4>1, <3>1, <1>3
        <3>2. CASE i # m
            <4>1. i \in 0 .. m - 1 /\ G[i] = F[i] /\ (i # 0 => G[i - 1] = F[i - 1])
                BY <2>1, <3>2
            <4>2. F[i] = IF i = 0 THEN <<>> ELSE IF i \in P THEN Append(F[i - 1], s[i]) ELSE F[i - 1]
                BY <2>2, <4>1 DEF IsKept
            <4> QED
                BY <4>1, <4>2
        <3> QED
            BY <3>1, <3>2
    <2>4. G = [i \in 0 .. m |-> G[i]]
        OBVIOUS
    <2> HIDE DEF G
    <2>5. IsKept(G, s, P, m)
        BY <2>3, <2>4 DEF IsKept
    <2> QED
        BY <2>5, <1>1
<1> QED
    BY <1>2, <1>3

LEMMA AmongKept ==
    ASSUME NEW s, NEW P, Len(s) \in Nat
    PROVE  \E F : IsKept(F, s, P, Len(s)) /\ among(s, P) = F[Len(s)]
<1> DEFINE K == CHOOSE F : IsKept(F, s, P, Len(s))
<1>1. IsKept(K, s, P, Len(s))
    BY KeptExists
<1>2. among(s, P) = K[Len(s)]
    BY DEF among, IsKept
<1> QED
    BY <1>1, <1>2

LEMMA KeptAgree ==
    ASSUME NEW s, NEW t, NEW P, NEW Q, NEW n \in Nat, NEW m \in Nat, NEW k \in 0 .. n, k <= m,
           NEW F, NEW G, IsKept(F, s, P, n), IsKept(G, t, Q, m),
           \A i \in 1 .. k : s[i] = t[i] /\ (i \in P <=> i \in Q)
    PROVE  F[k] = G[k]
<1> DEFINE Wrong == {i \in 0 .. k : F[i] # G[i]}
<1> SUFFICES ASSUME Wrong # {} PROVE FALSE
    OBVIOUS
<1>1. PICK w \in Wrong : \A i \in Wrong : w <= i
    <2>1. Wrong \subseteq Nat
        OBVIOUS
    <2> HIDE DEF Wrong
    <2> QED
        BY <2>1, LeastNumber
<1>2. w \in 0 .. n /\ w \in 0 .. m /\ F[w] # G[w]
    BY <1>1
<1>3. /\ F[w] = IF w = 0 THEN <<>> ELSE IF w \in P THEN Append(F[w - 1], s[w]) ELSE F[w - 1]
      /\ G[w] = IF w = 0 THEN <<>> ELSE IF w \in Q THEN Append(G[w - 1], t[w]) ELSE G[w - 1]
    BY <1>2 DEF IsKept
<1>4. CASE w = 0
    BY <1>2, <1>3, <1>4
<1>5. CASE w # 0
    <2>1. w \in 1 .. k /\ w - 1 \in 0 .. k /\ ~ (w <= w - 1)
        BY <1>1, <1>5
    <2>2. F[w - 1] = G[w - 1]
        BY <2>1, <1>1
    <2> QED
        BY <1>2, <1>3, <1>5, <2>1, <2>2
<1> QED
    BY <1>4, <1>5

LEMMA AmongEmpty ==
    ASSUME NEW P
    PROVE  among(<<>>, P) = <<>>
<1>1. PICK F : IsKept(F, <<>>, P, 0) /\ among(<<>>, P) = F[0]
    BY AmongKept
<1> QED
    BY <1>1 DEF IsKept

LEMMA AmongAgree ==
    ASSUME NEW s, Len(s) \in Nat, NEW P, NEW Q, \A i \in 1 .. Len(s) : i \in P <=> i \in Q
    PROVE  among(s, P) = among(s, Q)
<1>1. PICK F : IsKept(F, s, P, Len(s)) /\ among(s, P) = F[Len(s)]
    BY AmongKept
<1>2. PICK G : IsKept(G, s, Q, Len(s)) /\ among(s, Q) = G[Len(s)]
    BY AmongKept
<1> DEFINE n == Len(s)
<1>3. F[n] = G[n]
    <2>1. n \in Nat /\ n \in 0 .. n /\ n <= n /\ \A i \in 1 .. n : i \in P <=> i \in Q
        OBVIOUS
    <2>2. IsKept(F, s, P, n) /\ IsKept(G, s, Q, n)
        BY <1>1, <1>2
    <2> HIDE DEF n
    <2> QED
        BY <2>1, <2>2, KeptAgree
<1> QED
    BY <1>1, <1>2, <1>3

LEMMA AmongAppend ==
    ASSUME NEW T, NEW s \in Seq(T), NEW e \in T, NEW P
    PROVE  among(Append(s, e), P) =
               IF Len(s) + 1 \in P THEN Append(among(s, P), e) ELSE among(s, P)
<1> DEFINE t == Append(s, e)
<1>1. Len(s) \in Nat /\ Len(t) = Len(s) + 1 /\ t[Len(s) + 1] = e
      /\ \A i \in 1 .. Len(s) : t[i] = s[i]
    OBVIOUS
<1> HIDE DEF t
<1>2. PICK F : IsKept(F, s, P, Len(s)) /\ among(s, P) = F[Len(s)]
    BY <1>1, AmongKept
<1>3. PICK G : IsKept(G, t, P, Len(s) + 1) /\ among(t, P) = G[Len(s) + 1]
    BY <1>1, AmongKept
<1>4. F[Len(s)] = G[Len(s)]
    <2> DEFINE n == Len(s)
               m == n + 1
    <2>1. n \in Nat /\ m \in Nat /\ n \in 0 .. n /\ n <= m /\ \A i \in 1 .. n : s[i] = t[i]
        BY <1>1
    <2>2. IsKept(F, s, P, n) /\ IsKept(G, t, P, m)
        BY <1>2, <1>3
    <2> HIDE DEF n, m
    <2>3. F[n] = G[n]
        BY <2>1, <2>2, KeptAgree
    <2> QED
        BY <2>3 DEF n
<1>5. G[Len(s) + 1] = IF Len(s) + 1 \in P THEN Append(G[Len(s)], t[Len(s) + 1]) ELSE G[Len(s)]
    <2> DEFINE m == Len(s) + 1
    <2>1. m \in 0 .. m /\ m # 0 /\ m - 1 = Len(s)
        BY <1>1
    <2>2. IsKept(G, t, P, m)
        BY <1>3
    <2> HIDE DEF m
    <2>3. G[m] = IF m \in P THEN Append(G[m - 1], t[m]) ELSE G[m - 1]
        BY <2>1, <2>2 DEF IsKept
    <2> QED
        BY <2>1, <2>3 DEF m
<1>6. among(t, P) = IF Len(s) + 1 \in P THEN Append(among(s, P), e) ELSE among(s, P)
    BY <1>1, <1>2, <1>3, <1>4, <1>5
<1> QED
    BY <1>6 DEF t

(* The elements of a sequence that are in a set. *)
Sel(s, S) == among(s, {i \in DOMAIN s : s[i] \in S})

LEMMA SelEmpty ==
    ASSUME NEW S
    PROVE  Sel(<<>>, S) = <<>>
BY AmongEmpty DEF Sel

LEMMA SelAppend ==
    ASSUME NEW T, NEW s \in Seq(T), NEW e \in T, NEW S
    PROVE  Sel(Append(s, e), S) = IF e \in S THEN Append(Sel(s, S), e) ELSE Sel(s, S)
<1> DEFINE t == Append(s, e)
           P == {i \in DOMAIN s : s[i] \in S}
           Q == {i \in DOMAIN t : t[i] \in S}
<1>1. /\ Len(s) \in Nat /\ DOMAIN s = 1 .. Len(s)
      /\ t \in Seq(T) /\ DOMAIN t = 1 .. Len(s) + 1
      /\ t[Len(s) + 1] = e /\ \A i \in 1 .. Len(s) : t[i] = s[i]
    OBVIOUS
<1>2. among(t, Q) = IF Len(s) + 1 \in Q THEN Append(among(s, Q), e) ELSE among(s, Q)
    <2> HIDE DEF Q
    <2> QED
        BY AmongAppend
<1>3. among(s, Q) = among(s, P)
    <2>1. \A i \in 1 .. Len(s) : i \in P <=> i \in Q
        BY <1>1
    <2> HIDE DEF P, Q
    <2> QED
        BY <1>1, <2>1, AmongAgree
<1>4. Len(s) + 1 \in Q <=> e \in S
    BY <1>1
<1>5. among(t, Q) = IF e \in S THEN Append(among(s, P), e) ELSE among(s, P)
    <2> HIDE DEF t, P, Q
    <2> QED
        BY <1>2, <1>3, <1>4
<1> QED
    BY <1>5 DEF Sel

LEMMA SelType ==
    ASSUME NEW T, NEW s \in Seq(T), NEW S
    PROVE  Sel(s, S) \in Seq(T \cap S)
<1> DEFINE Wrong == {n \in Nat : \E t \in Seq(T) : Len(t) = n /\ Sel(t, S) \notin Seq(T \cap S)}
<1> SUFFICES Wrong = {}
    <2>1. Len(s) \in Nat
        OBVIOUS
    <2> QED
        BY <2>1
<1> SUFFICES ASSUME Wrong # {} PROVE FALSE
    OBVIOUS
<1>1. PICK m \in Wrong : \A n \in Wrong : m <= n
    <2>1. Wrong \subseteq Nat
        OBVIOUS
    <2> HIDE DEF Wrong
    <2> QED
        BY <2>1, LeastNumber
<1>2. PICK t \in Seq(T) : Len(t) = m /\ Sel(t, S) \notin Seq(T \cap S)
    BY <1>1
<1>3. t # <<>>
    BY <1>2, SelEmpty
<1>4. PICK f \in Seq(T), e \in T : Len(f) = m - 1 /\ Len(f) \in Nat /\ t = Append(f, e)
    BY <1>2, <1>3, SplitEnd
<1>5. Len(f) \notin Wrong
    BY <1>1, <1>4
<1>6. Sel(f, S) \in Seq(T \cap S)
    BY <1>4, <1>5
<1>7. Sel(t, S) = IF e \in S THEN Append(Sel(f, S), e) ELSE Sel(f, S)
    BY <1>4, SelAppend
<1> QED
    BY <1>2, <1>6, <1>7

(* push_back puts an event before the last one: of a kind of which there was
   none it does not matter where. *)
LEMMA SelPushBack ==
    ASSUME NEW T, NEW s \in Seq(T), NEW e \in T, NEW S
    PROVE  /\ push_back(s, e) \in Seq(T)
           /\ e \notin S => Sel(push_back(s, e), S) = Sel(s, S)
           /\ e \in S /\ Sel(s, S) = <<>> => Sel(push_back(s, e), S) = <<e>>
<1>1. CASE s = <<>>
    <2>1. push_back(s, e) = Append(<<>>, e) /\ <<>> \in Seq(T)
        BY <1>1 DEF push_back
    <2>2. Sel(Append(<<>>, e), S) = IF e \in S THEN Append(Sel(<<>>, S), e) ELSE Sel(<<>>, S)
        BY <2>1, SelAppend
    <2>3. Append(<<>>, e) = <<e>> /\ <<e>> \in Seq(T)
        OBVIOUS
    <2>4. Sel(<<e>>, S) = IF e \in S THEN <<e>> ELSE <<>>
        BY <2>2, <2>3, SelEmpty
    <2>5. Sel(s, S) = <<>>
        BY <1>1, SelEmpty
    <2>6. push_back(s, e) = <<e>>
        BY <2>1, <2>3
    <2> QED
        BY <2>3, <2>4, <2>5, <2>6
<1>2. CASE s # <<>>
    <2>1. PICK f \in Seq(T), l \in T : f = Front(s) /\ l = Last(s) /\ s = Append(f, l)
        BY <1>2, SplitEnd
    <2>2. push_back(s, e) = Append(Append(f, e), l)
        <3>1. push_back(s, e) = f \o <<e, l>>
            BY <1>2, <2>1 DEF push_back
        <3> QED
            BY <3>1
    <2>3. Append(f, e) \in Seq(T) /\ push_back(s, e) \in Seq(T)
        BY <2>2
    <2>4. Sel(s, S) = IF l \in S THEN Append(Sel(f, S), l) ELSE Sel(f, S)
        <3>1. Sel(Append(f, l), S) = IF l \in S THEN Append(Sel(f, S), l) ELSE Sel(f, S)
            BY SelAppend
        <3> QED
            BY <2>1, <3>1
    <2>5. Sel(Append(f, e), S) = IF e \in S THEN Append(Sel(f, S), e) ELSE Sel(f, S)
        BY SelAppend
    <2>6. Sel(push_back(s, e), S) = IF l \in S THEN Append(Sel(Append(f, e), S), l)
                                    ELSE Sel(Append(f, e), S)
        <3> DEFINE g == Append(f, e)
        <3>1. g \in Seq(T) /\ push_back(s, e) = Append(g, l)
            BY <2>2, <2>3
        <3> HIDE DEF g
        <3>2. Sel(Append(g, l), S) = IF l \in S THEN Append(Sel(g, S), l) ELSE Sel(g, S)
            BY <3>1, SelAppend
        <3>3. Sel(push_back(s, e), S) = IF l \in S THEN Append(Sel(g, S), l) ELSE Sel(g, S)
            BY <3>1, <3>2
        <3> QED
            BY <3>3 DEF g
    <2>7. Sel(f, S) \in Seq(T)
        <3>1. Sel(f, S) \in Seq(T \cap S)
            BY SelType
        <3> QED
            BY <3>1
    <2>8. l \in S => Sel(s, S) # <<>>
        BY <2>4, <2>7
    <2>9. ASSUME e \notin S PROVE Sel(push_back(s, e), S) = Sel(s, S)
        BY <2>4, <2>5, <2>6, <2>9
    <2>10. ASSUME e \in S, Sel(s, S) = <<>> PROVE Sel(push_back(s, e), S) = <<e>>
        <3>1. l \notin S /\ Sel(f, S) = <<>>
            BY <2>4, <2>8, <2>10
        <3>2. Append(<<>>, e) = <<e>>
            OBVIOUS
        <3> QED
            BY <2>5, <2>6, <2>10, <3>1, <3>2
    <2> QED
        BY <2>3, <2>9, <2>10
<1> QED
    BY <1>1, <1>2

LEMMA SelNone ==
    ASSUME NEW T, NEW s \in Seq(T), NEW S, \A i \in 1 .. Len(s) : s[i] \notin S
    PROVE  Sel(s, S) = <<>>
<1> DEFINE P == {i \in DOMAIN s : s[i] \in S}
<1>1. PICK F : IsKept(F, s, P, Len(s)) /\ among(s, P) = F[Len(s)]
    <2> HIDE DEF P
    <2> QED
        BY AmongKept
<1> DEFINE G == [i \in 0 .. Len(s) |-> <<>>]
<1>2. IsKept(G, s, {}, Len(s))
    BY DEF IsKept
<1>3. F[Len(s)] = G[Len(s)]
    <2> DEFINE n == Len(s)
    <2>1. n \in Nat /\ n \in 0 .. n /\ n <= n /\ \A i \in 1 .. n : i \in P <=> i \in {}
        OBVIOUS
    <2>2. IsKept(F, s, P, n) /\ IsKept(G, s, {}, n)
        BY <1>1, <1>2
    <2> HIDE DEF n, P, G
    <2>3. F[n] = G[n]
        BY <2>1, <2>2, KeptAgree
    <2> QED
        BY <2>3 DEF n
<1> QED
    BY <1>1, <1>3 DEF Sel

(* Whatever is selected is in the sequence. *)
LEMMA SelFrom ==
    ASSUME NEW T, NEW s \in Seq(T), NEW S
    PROVE  \A j \in DOMAIN Sel(s, S) : \E i \in DOMAIN s : Sel(s, S)[j] = s[i] /\ s[i] \in S
<1> DEFINE U == {s[i] : i \in DOMAIN s}
<1>1. s \in Seq(U)
    <2>1. s = [i \in 1 .. Len(s) |-> s[i]] /\ Len(s) \in Nat
        OBVIOUS
    <2>2. \A i \in 1 .. Len(s) : s[i] \in U
        OBVIOUS
    <2> HIDE DEF U
    <2> QED
        BY <2>1, <2>2
<1>2. Sel(s, S) \in Seq(U \cap S)
    <2> HIDE DEF U
    <2> QED
        BY <1>1, SelType
<1>3. \A j \in DOMAIN Sel(s, S) : Sel(s, S)[j] \in U \cap S
    <2> HIDE DEF U
    <2> QED
        BY <1>2
<1> QED
    BY <1>3

LEMMA SelSel ==
    ASSUME NEW T, NEW s \in Seq(T), NEW S, NEW R
    PROVE  Sel(Sel(s, S), R) = Sel(s, S \cap R)
<1> DEFINE Wrong == {n \in Nat : \E t \in Seq(T) : Len(t) = n /\ Sel(Sel(t, S), R) # Sel(t, S \cap R)}
<1> SUFFICES Wrong = {}
    <2>1. Len(s) \in Nat
        OBVIOUS
    <2> QED
        BY <2>1
<1> SUFFICES ASSUME Wrong # {} PROVE FALSE
    OBVIOUS
<1>1. PICK m \in Wrong : \A n \in Wrong : m <= n
    <2>1. Wrong \subseteq Nat
        OBVIOUS
    <2> HIDE DEF Wrong
    <2> QED
        BY <2>1, LeastNumber
<1>2. PICK t \in Seq(T) : Len(t) = m /\ Sel(Sel(t, S), R) # Sel(t, S \cap R)
    BY <1>1
<1>3. t # <<>>
    BY <1>2, SelEmpty
<1>4. PICK f \in Seq(T), e \in T : Len(f) = m - 1 /\ Len(f) \in Nat /\ t = Append(f, e)
    BY <1>2, <1>3, SplitEnd
<1>5. Len(f) \notin Wrong
    <2>1. m \in Nat /\ ~ (m <= Len(f))
        BY <1>1, <1>4
    <2> HIDE DEF Wrong
    <2> QED
        BY <1>1, <2>1
<1>6. Sel(Sel(f, S), R) = Sel(f, S \cap R)
    BY <1>4, <1>5
<1>7. Sel(t, S) = IF e \in S THEN Append(Sel(f, S), e) ELSE Sel(f, S)
    BY <1>4, SelAppend
<1>8. Sel(t, S \cap R) = IF e \in S \cap R THEN Append(Sel(f, S \cap R), e) ELSE Sel(f, S \cap R)
    BY <1>4, SelAppend
<1>9. Sel(f, S) \in Seq(T)
    <2>1. Sel(f, S) \in Seq(T \cap S)
        BY SelType
    <2> QED
        BY <2>1
<1>10. Sel(Append(Sel(f, S), e), R) =
           IF e \in R THEN Append(Sel(Sel(f, S), R), e) ELSE Sel(Sel(f, S), R)
    BY <1>9, SelAppend
<1> QED
    BY <1>2, <1>6, <1>7, <1>8, <1>10

LEMMA TailAppend ==
    ASSUME NEW T, NEW s \in Seq(T), s # <<>>, NEW e \in T
    PROVE  Head(Append(s, e)) = Head(s) /\ Tail(Append(s, e)) = Append(Tail(s), e)
<1> DEFINE t == Append(s, e)
           a == Tail(t)
           b == Append(Tail(s), e)
<1>1. /\ Len(s) \in Nat /\ Len(s) # 0 /\ t \in Seq(T) /\ t # <<>> /\ Len(t) = Len(s) + 1
      /\ t[Len(s) + 1] = e /\ \A i \in 1 .. Len(s) : t[i] = s[i]
    OBVIOUS
<1>2. Head(t) = Head(s)
    BY <1>1, SplitHead
<1>3. a \in Seq(T) /\ Len(a) = Len(s) /\ \A i \in 1 .. Len(s) : a[i] = t[i + 1]
    <2> HIDE DEF t
    <2> QED
        BY <1>1, SplitHead
<1>4. /\ Tail(s) \in Seq(T) /\ Len(Tail(s)) = Len(s) - 1
      /\ \A i \in 1 .. Len(s) - 1 : Tail(s)[i] = s[i + 1]
    BY SplitHead
<1>5. b \in Seq(T) /\ Len(b) = Len(s)
    BY <1>1, <1>4
<1>6. ASSUME NEW i \in 1 .. Len(s) PROVE a[i] = b[i]
    <2>1. CASE i = Len(s)
        BY <1>1, <1>3, <1>4, <2>1
    <2>2. CASE i # Len(s)
        <3>1. i \in 1 .. Len(Tail(s)) /\ i + 1 \in 1 .. Len(s) /\ i \in 1 .. Len(s) - 1
            <4> DEFINE n == Len(s)
            <4>1. n \in Nat /\ i \in 1 .. n /\ i # n /\ Len(Tail(s)) = n - 1
                BY <1>1, <1>4, <2>2
            <4> HIDE DEF n
            <4>2. i \in 1 .. n - 1 /\ i + 1 \in 1 .. n
                BY <4>1
            <4> QED
                BY <4>1, <4>2 DEF n
        <3>2. b[i] = Tail(s)[i]
            <4> DEFINE u == Tail(s)
            <4>1. u \in Seq(T) /\ i \in 1 .. Len(u)
                BY <1>4, <3>1
            <4> HIDE DEF u
            <4>2. Append(u, e)[i] = u[i]
                BY <4>1
            <4> QED
                BY <4>2 DEF u
        <3>3. a[i] = t[i + 1] /\ t[i + 1] = s[i + 1] /\ Tail(s)[i] = s[i + 1]
            <4> HIDE DEF a, t
            <4> QED
                BY <1>1, <1>3, <1>4, <3>1
        <3> QED
            BY <3>2, <3>3
    <2> QED
        BY <2>1, <2>2
<1>7. a = b
    <2> HIDE DEF a, b
    <2> QED
        BY <1>3, <1>5, <1>6
<1> QED
    BY <1>2, <1>7

-------------------------------------------------------------------------------
(* FlattenSeq. *)
IsFlat(F, q, n) == F = [i \in 1 .. n |-> IF i = 1 THEN q[i] ELSE F[i - 1] \o q[i]]

LEMMA FlatExists ==
    ASSUME NEW q, NEW n \in Nat
    PROVE  \E F : IsFlat(F, q, n)
<1> DEFINE Missing == {k \in Nat : ~ \E F : IsFlat(F, q, k)}
<1> SUFFICES ASSUME Missing # {} PROVE FALSE
    OBVIOUS
<1>1. PICK m \in Missing : \A k \in Missing : m <= k
    <2>1. Missing \subseteq Nat
        OBVIOUS
    <2> HIDE DEF Missing
    <2> QED
        BY <2>1, LeastNumber
<1>2. CASE m = 0
    <2>1. IsFlat([i \in 1 .. 0 |-> <<>>], q, 0)
        BY DEF IsFlat
    <2> QED
        BY <1>1, <1>2, <2>1
<1>3. CASE m # 0
    <2>1. m \in Nat /\ m - 1 \in Nat /\ m - 1 \notin Missing
        BY <1>1, <1>3
    <2>2. PICK F : IsFlat(F, q, m - 1)
        BY <2>1
    <2> DEFINE G == [i \in 1 .. m |-> IF i = m THEN IF m = 1 THEN q[m] ELSE F[m - 1] \o q[m]
                                      ELSE F[i]]
    <2>3. ASSUME NEW i \in 1 .. m
          PROVE  G[i] = IF i = 1 THEN q[i] ELSE G[i - 1] \o q[i]
        <3>1. CASE i = m
            <4>1. G[i] = (IF m = 1 THEN q[m] ELSE F[m - 1] \o q[m]) /\ (m # 1 => G[i - 1] = F[m - 1])
                BY <2>1, <3>1, <1>3
            <4> QED
                BY <4>1, <3>1
        <3>2. CASE i # m
            <4>1. i \in 1 .. m - 1 /\ G[i] = F[i] /\ (i # 1 => G[i - 1] = F[i - 1])
                BY <2>1, <3>2
            <4>2. F[i] = IF i = 1 THEN q[i] ELSE F[i - 1] \o q[i]
                BY <2>2, <4>1 DEF IsFlat
            <4> QED
                BY <4>1, <4>2
        <3> QED
            BY <3>1, <3>2
    <2>4. G = [i \in 1 .. m |-> G[i]]
        OBVIOUS
    <2> HIDE DEF G
    <2>5. IsFlat(G, q, m)
        BY <2>3, <2>4 DEF IsFlat
    <2> QED
        BY <2>5, <1>1
<1> QED
    BY <1>2, <1>3

LEMMA FlatTable ==
    ASSUME NEW q, Len(q) \in Nat, Len(q) # 0
    PROVE  \E F : IsFlat(F, q, Len(q)) /\ FlattenSeq(q) = F[Len(q)]
<1> DEFINE K == CHOOSE F : IsFlat(F, q, Len(q))
<1>1. IsFlat(K, q, Len(q))
    BY FlatExists
<1>2. FlattenSeq(q) = K[Len(q)]
    BY DEF FlattenSeq, IsFlat
<1> QED
    BY <1>1, <1>2

LEMMA FlatEmpty == FlattenSeq(<<>>) = <<>>
BY DEF FlattenSeq

LEMMA FlatAgree ==
    ASSUME NEW q, NEW r, NEW n \in Nat, NEW m \in Nat, NEW k \in 1 .. n, k <= m,
           NEW F, NEW G, IsFlat(F, q, n), IsFlat(G, r, m),
           \A i \in 1 .. k : q[i] = r[i]
    PROVE  F[k] = G[k]
<1> DEFINE Wrong == {i \in 1 .. k : F[i] # G[i]}
<1> SUFFICES ASSUME Wrong # {} PROVE FALSE
    OBVIOUS
<1>1. PICK w \in Wrong : \A i \in Wrong : w <= i
    <2>1. Wrong \subseteq Nat
        OBVIOUS
    <2> HIDE DEF Wrong
    <2> QED
        BY <2>1, LeastNumber
<1>2. w \in 1 .. n /\ w \in 1 .. m /\ F[w] # G[w]
    BY <1>1
<1>3. /\ F[w] = IF w = 1 THEN q[w] ELSE F[w - 1] \o q[w]
      /\ G[w] = IF w = 1 THEN r[w] ELSE G[w - 1] \o r[w]
    BY <1>2 DEF IsFlat
<1>4. CASE w = 1
    BY <1>1, <1>2, <1>3, <1>4
<1>5. CASE w # 1
    <2>1. w \in 1 .. k /\ w - 1 \in 1 .. k /\ ~ (w <= w - 1)
        BY <1>1, <1>5
    <2>2. F[w - 1] = G[w - 1]
        BY <2>1, <1>1
    <2> QED
        BY <1>2, <1>3, <1>5, <2>1, <2>2
<1> QED
    BY <1>4, <1>5

LEMMA FlatAppend ==
    ASSUME NEW T, NEW q \in Seq(Seq(T)), NEW s \in Seq(T)
    PROVE  FlattenSeq(Append(q, s)) = FlattenSeq(q) \o s
<1> DEFINE r == Append(q, s)
           n == Len(q)
           m == n + 1
<1>1. /\ n \in Nat /\ m \in Nat /\ Len(r) = m /\ r[m] = s
      /\ \A i \in 1 .. n : r[i] = q[i]
    OBVIOUS
<1>2. m # 0 /\ m \in 1 .. m /\ m - 1 = n
    BY <1>1
<1> HIDE DEF r, m
<1>3. PICK G : IsFlat(G, r, m) /\ FlattenSeq(r) = G[m]
    BY <1>1, <1>2, FlatTable
<1>4. G[m] = IF m = 1 THEN r[m] ELSE G[m - 1] \o r[m]
    BY <1>2, <1>3 DEF IsFlat
<1>5. CASE n = 0
    <2>1. q = <<>> /\ m = 1
        BY <1>5 DEF m
    <2>2. FlattenSeq(r) = s
        BY <1>1, <1>3, <1>4, <2>1
    <2> QED
        BY <2>1, <2>2, FlatEmpty, ConcatEmpty DEF r
<1>6. CASE n # 0
    <2>1. PICK F : IsFlat(F, q, n) /\ FlattenSeq(q) = F[n]
        BY <1>1, <1>6, FlatTable
    <2>2. n \in 1 .. n /\ n <= m /\ m # 1
        BY <1>1, <1>2, <1>6
    <2>3. F[n] = G[n]
        <3> HIDE DEF n
        <3>1. \A i \in 1 .. n : q[i] = r[i]
            BY <1>1
        <3> QED
            BY <1>1, <1>3, <2>1, <2>2, <3>1, FlatAgree, SMTT(60)
    <2>4. FlattenSeq(r) = FlattenSeq(q) \o s
        BY <1>1, <1>2, <1>3, <1>4, <2>1, <2>2, <2>3
    <2> QED
        BY <2>4 DEF r
<1> QED
    BY <1>5, <1>6

(* Induction over the length of a sequence of sequences. *)
LEMMA FlatType ==
    ASSUME NEW T, NEW q \in Seq(Seq(T))
    PROVE  FlattenSeq(q) \in Seq(T)
<1> DEFINE Wrong == {n \in Nat : \E r \in Seq(Seq(T)) : Len(r) = n /\ FlattenSeq(r) \notin Seq(T)}
<1> SUFFICES Wrong = {}
    <2>1. Len(q) \in Nat
        OBVIOUS
    <2> QED
        BY <2>1
<1> SUFFICES ASSUME Wrong # {} PROVE FALSE
    OBVIOUS
<1>1. PICK m \in Wrong : \A n \in Wrong : m <= n
    <2>1. Wrong \subseteq Nat
        OBVIOUS
    <2> HIDE DEF Wrong
    <2> QED
        BY <2>1, LeastNumber
<1>2. PICK r \in Seq(Seq(T)) : Len(r) = m /\ FlattenSeq(r) \notin Seq(T)
    BY <1>1
<1>3. r # <<>>
    BY <1>2, FlatEmpty
<1>4. PICK f \in Seq(Seq(T)), e \in Seq(T) : Len(f) = m - 1 /\ Len(f) \in Nat /\ r = Append(f, e)
    BY <1>2, <1>3, SplitEnd
<1>5. Len(f) \notin Wrong
    <2>1. m \in Nat /\ ~ (m <= Len(f))
        BY <1>1, <1>4
    <2> HIDE DEF Wrong
    <2> QED
        BY <1>1, <2>1
<1>6. FlattenSeq(f) \in Seq(T)
    BY <1>4, <1>5
<1>7. FlattenSeq(r) = FlattenSeq(f) \o e
    BY <1>4, FlatAppend
<1> QED
    BY <1>2, <1>6, <1>7

LEMMA FlatTailStep ==
    ASSUME NEW T, NEW f \in Seq(Seq(T)), f # <<>>, NEW e \in Seq(T),
           FlattenSeq(f) = Head(f) \o FlattenSeq(Tail(f))
    PROVE  LET r == Append(f, e) IN FlattenSeq(r) = Head(r) \o FlattenSeq(Tail(r))
<1> DEFINE r == Append(f, e)
<1>1. Head(f) \in Seq(T) /\ Tail(f) \in Seq(Seq(T))
    BY SplitHead
<1>2. Head(r) = Head(f) /\ Tail(r) = Append(Tail(f), e)
    BY TailAppend
<1>3. FlattenSeq(r) = FlattenSeq(f) \o e /\ FlattenSeq(Tail(r)) = FlattenSeq(Tail(f)) \o e
    BY <1>1, <1>2, FlatAppend
<1>4. PICK a \in Seq(T), b \in Seq(T) : a = Head(f) /\ b = FlattenSeq(Tail(f))
    BY <1>1, FlatType
<1>5. (a \o b) \o e = a \o (b \o e)
    BY ConcatAssoc, SMTT(60)
<1> QED
    BY <1>2, <1>3, <1>4, <1>5

LEMMA FlatTail ==
    ASSUME NEW T, NEW q \in Seq(Seq(T)), q # <<>>
    PROVE  FlattenSeq(q) = Head(q) \o FlattenSeq(Tail(q))
<1> DEFINE Bad(r) == r # <<>> /\ FlattenSeq(r) # Head(r) \o FlattenSeq(Tail(r))
           Wrong == {n \in Nat : \E r \in Seq(Seq(T)) : Len(r) = n /\ Bad(r)}
<1> SUFFICES Wrong = {}
    <2>1. Len(q) \in Nat
        OBVIOUS
    <2> QED
        BY <2>1
<1> SUFFICES ASSUME Wrong # {} PROVE FALSE
    OBVIOUS
<1>1. PICK m \in Wrong : \A n \in Wrong : m <= n
    <2>1. Wrong \subseteq Nat
        OBVIOUS
    <2> HIDE DEF Wrong
    <2> QED
        BY <2>1, LeastNumber
<1>2. PICK r \in Seq(Seq(T)) : Len(r) = m /\ Bad(r)
    BY <1>1
<1>4. PICK f \in Seq(Seq(T)), e \in Seq(T) : Len(f) = m - 1 /\ Len(f) \in Nat /\ r = Append(f, e)
    BY <1>2, SplitEnd, ZenonT(60)
<1>5. Len(f) \notin Wrong
    <2>1. m \in Nat /\ ~ (m <= Len(f))
        BY <1>1, <1>4
    <2> HIDE DEF Wrong
    <2> QED
        BY <1>1, <2>1
<1>6. ~ Bad(f)
    BY <1>4, <1>5
<1>7. FlattenSeq(r) = FlattenSeq(f) \o e
    BY <1>4, FlatAppend
<1>8. CASE f = <<>>
    <2>1. r = <<e>> /\ Head(r) = e /\ Tail(r) = <<>>
        BY <1>4, <1>8
    <2> QED
        BY <1>2, <1>7, <1>8, <2>1, FlatEmpty, ConcatEmpty
<1>9. CASE f # <<>>
    <2>1. FlattenSeq(f) = Head(f) \o FlattenSeq(Tail(f))
        BY <1>6, <1>9
    <2>2. FlattenSeq(r) = Head(r) \o FlattenSeq(Tail(r))
        BY <1>4, <1>9, <2>1, FlatTailStep
    <2> QED
        BY <1>2, <2>2
<1> QED
    BY <1>8, <1>9

-------------------------------------------------------------------------------
(* What is in a list of lists, and the packets of a list of events. *)

(* What is in a sequence of sequences is in the flat one. *)
Holds(s, x) == \E j \in DOMAIN s : s[j] = x

LEMMA HoldsConcat ==
    ASSUME NEW T, NEW s \in Seq(T), NEW t \in Seq(T), NEW x
    PROVE  Holds(s \o t, x) <=> Holds(s, x) \/ Holds(t, x)
<1> DEFINE u == s \o t
<1>1. /\ Len(s) \in Nat /\ Len(t) \in Nat /\ Len(u) = Len(s) + Len(t)
      /\ DOMAIN u = 1 .. Len(u) /\ DOMAIN s = 1 .. Len(s) /\ DOMAIN t = 1 .. Len(t)
      /\ \A i \in 1 .. Len(u) : u[i] = IF i <= Len(s) THEN s[i] ELSE t[i - Len(s)]
    OBVIOUS
<1> HIDE DEF u
<1>2. ASSUME NEW j \in DOMAIN u PROVE Holds(s, u[j]) \/ Holds(t, u[j])
    <2>1. CASE j <= Len(s)
        BY <1>1, <2>1 DEF Holds
    <2>2. CASE ~ (j <= Len(s))
        <3>1. j - Len(s) \in DOMAIN t /\ u[j] = t[j - Len(s)]
            BY <1>1, <2>2
        <3> QED
            BY <3>1 DEF Holds
    <2> QED
        BY <2>1, <2>2
<1>3. ASSUME NEW j \in DOMAIN s PROVE Holds(u, s[j])
    <2>1. j \in DOMAIN u /\ u[j] = s[j]
        BY <1>1
    <2> QED
        BY <2>1 DEF Holds
<1>4. ASSUME NEW j \in DOMAIN t PROVE Holds(u, t[j])
    <2>1. j + Len(s) \in DOMAIN u /\ u[j + Len(s)] = t[j]
        BY <1>1
    <2> QED
        BY <2>1 DEF Holds
<1>5. Holds(u, x) <=> Holds(s, x) \/ Holds(t, x)
    BY <1>2, <1>3, <1>4 DEF Holds
<1> QED
    BY <1>5 DEF u

LEMMA FlatHolds ==
    ASSUME NEW T, NEW q \in Seq(Seq(T)), NEW x
    PROVE  Holds(FlattenSeq(q), x) <=> \E i \in DOMAIN q : Holds(q[i], x)
<1> DEFINE Bad(r) == ~ (Holds(FlattenSeq(r), x) <=> \E i \in DOMAIN r : Holds(r[i], x))
           Wrong == {n \in Nat : \E r \in Seq(Seq(T)) : Len(r) = n /\ Bad(r)}
<1> SUFFICES Wrong = {}
    <2>1. Len(q) \in Nat
        OBVIOUS
    <2> QED
        BY <2>1
<1> SUFFICES ASSUME Wrong # {} PROVE FALSE
    OBVIOUS
<1>1. PICK m \in Wrong : \A n \in Wrong : m <= n
    <2>1. Wrong \subseteq Nat
        OBVIOUS
    <2> HIDE DEF Wrong
    <2> QED
        BY <2>1, LeastNumber
<1>2. PICK r \in Seq(Seq(T)) : Len(r) = m /\ Bad(r)
    BY <1>1
<1>3. r # <<>>
    BY <1>2, FlatEmpty DEF Holds
<1>4. PICK f \in Seq(Seq(T)), e \in Seq(T) : Len(f) = m - 1 /\ Len(f) \in Nat /\ r = Append(f, e)
    BY <1>2, <1>3, SplitEnd, ZenonT(60)
<1>5. Len(f) \notin Wrong
    <2>1. m \in Nat /\ ~ (m <= Len(f))
        BY <1>1, <1>4
    <2> HIDE DEF Wrong
    <2> QED
        BY <1>1, <2>1
<1>6. ~ Bad(f)
    <2> HIDE DEF Bad
    <2> QED
        BY <1>4, <1>5
<1>7. FlattenSeq(r) = FlattenSeq(f) \o e
    BY <1>4, FlatAppend
<1>8. FlattenSeq(f) \in Seq(T)
    BY FlatType
<1>9. Holds(FlattenSeq(r), x) <=> Holds(FlattenSeq(f), x) \/ Holds(e, x)
    BY <1>7, <1>8, HoldsConcat
<1>10. (\E i \in DOMAIN r : Holds(r[i], x)) <=> (\E i \in DOMAIN f : Holds(f[i], x)) \/ Holds(e, x)
    <2>1. /\ DOMAIN r = 1 .. Len(f) + 1 /\ DOMAIN f = 1 .. Len(f) /\ Len(f) \in Nat
          /\ r[Len(f) + 1] = e /\ \A i \in 1 .. Len(f) : r[i] = f[i]
        BY <1>4
    <2>2. \A i \in DOMAIN r : i = Len(f) + 1 \/ i \in DOMAIN f
        BY <2>1
    <2>3. Len(f) + 1 \in DOMAIN r /\ \A i \in DOMAIN f : i \in DOMAIN r
        BY <2>1
    <2> QED
        BY <2>1, <2>2, <2>3
<1> QED
    BY <1>2, <1>6, <1>9, <1>10

LEMMA FlatNone ==
    ASSUME NEW T, NEW q \in Seq(Seq(T)), \A i \in DOMAIN q : q[i] = <<>>
    PROVE  FlattenSeq(q) = <<>>
<1>1. FlattenSeq(q) \in Seq(T)
    BY FlatType
<1>2. ASSUME FlattenSeq(q) # <<>> PROVE FALSE
    <2>1. 1 \in DOMAIN FlattenSeq(q)
        BY <1>1, <1>2
    <2> DEFINE x == FlattenSeq(q)[1]
    <2>2. Holds(FlattenSeq(q), x)
        BY <2>1 DEF Holds
    <2>3. PICK i \in DOMAIN q : Holds(q[i], x)
        <3> HIDE DEF x
        <3> QED
            BY <2>2, FlatHolds
    <2> QED
        BY <2>3 DEF Holds
<1> QED
    BY <1>2

-------------------------------------------------------------------------------
(* Events and their packets. *)
Event(T) == [channel : Channel, pkt : T, cycles : Int]

Pkts(evts) == [i \in DOMAIN evts |-> evts[i].pkt]

LEMMA PktsType ==
    ASSUME NEW T, NEW s \in Seq(Event(T))
    PROVE  Pkts(s) \in Seq(T) /\ Len(Pkts(s)) = Len(s)
<1>1. \A i \in 1 .. Len(s) : s[i].pkt \in T
    <2>1. \A i \in 1 .. Len(s) : s[i] \in Event(T)
        OBVIOUS
    <2>2. \A e \in Event(T) : e.pkt \in T
        BY DEF Event
    <2> QED
        BY <2>1, <2>2
<1>2. Pkts(s) = [i \in 1 .. Len(s) |-> s[i].pkt] /\ Len(s) \in Nat
    BY DEF Pkts
<1> QED
    BY <1>1, <1>2

LEMMA PktsConcat ==
    ASSUME NEW T, NEW s \in Seq(Event(T)), NEW t \in Seq(Event(T))
    PROVE  Pkts(s \o t) = Pkts(s) \o Pkts(t)
<1> DEFINE u == s \o t
           v == Pkts(s) \o Pkts(t)
           n == Len(s) + Len(t)
<1>1. /\ u \in Seq(Event(T)) /\ Len(u) = n /\ Len(s) \in Nat /\ Len(t) \in Nat
      /\ \A i \in 1 .. n : u[i] = IF i <= Len(s) THEN s[i] ELSE t[i - Len(s)]
    OBVIOUS
<1>2. /\ Pkts(s) \in Seq(T) /\ Len(Pkts(s)) = Len(s)
      /\ Pkts(t) \in Seq(T) /\ Len(Pkts(t)) = Len(t)
    BY PktsType
<1>3. /\ v \in Seq(T) /\ Len(v) = n
      /\ \A i \in 1 .. n : v[i] = IF i <= Len(s) THEN Pkts(s)[i] ELSE Pkts(t)[i - Len(s)]
    <2> DEFINE a == Pkts(s)
               b == Pkts(t)
    <2>1. a \in Seq(T) /\ b \in Seq(T) /\ Len(a) = Len(s) /\ Len(b) = Len(t)
        BY <1>2
    <2> HIDE DEF a, b
    <2>2. /\ a \o b \in Seq(T) /\ Len(a \o b) = Len(a) + Len(b)
          /\ \A i \in 1 .. Len(a) + Len(b) :
                 (a \o b)[i] = IF i <= Len(a) THEN a[i] ELSE b[i - Len(a)]
        BY <2>1
    <2> QED
        BY <2>1, <2>2 DEF a, b
<1>4. Pkts(u) \in Seq(T) /\ Len(Pkts(u)) = n
    BY <1>1, PktsType
<1> HIDE DEF u, v
<1>5. ASSUME NEW i \in 1 .. n PROVE Pkts(u)[i] = v[i]
    <2>1. Pkts(u)[i] = u[i].pkt
        BY <1>1 DEF Pkts
    <2>2. CASE i <= Len(s)
        <3>1. i \in 1 .. Len(s)
            BY <1>1, <2>2
        <3>2. Pkts(s)[i] = s[i].pkt
            BY <3>1 DEF Pkts
        <3> QED
            BY <1>1, <1>3, <2>1, <2>2, <3>2
    <2>3. CASE ~ (i <= Len(s))
        <3>1. i - Len(s) \in 1 .. Len(t)
            BY <1>1, <2>3
        <3>2. Pkts(t)[i - Len(s)] = t[i - Len(s)].pkt
            BY <3>1 DEF Pkts
        <3> QED
            BY <1>1, <1>3, <2>1, <2>3, <3>2
    <2> QED
        BY <2>2, <2>3
<1>6. Pkts(u) = v
    BY <1>3, <1>4, <1>5
<1> QED
    BY <1>6 DEF u, v

LEMMA PktsAppend ==
    ASSUME NEW T, NEW s \in Seq(Event(T)), NEW e \in Event(T)
    PROVE  Pkts(Append(s, e)) = Append(Pkts(s), e.pkt)
<1>1. Append(s, e) = s \o <<e>> /\ <<e>> \in Seq(Event(T))
    OBVIOUS
<1>2. Pkts(<<e>>) = <<e.pkt>>
    BY DEF Pkts
<1>3. Pkts(s) \in Seq(T) /\ e.pkt \in T
    BY PktsType DEF Event
<1>4. Pkts(s) \o <<e.pkt>> = Append(Pkts(s), e.pkt)
    BY <1>3
<1> QED
    BY <1>1, <1>2, <1>4, PktsConcat

LEMMA FlatPkts ==
    ASSUME NEW T, NEW q \in Seq(Seq(Event(T))), NEW r \in Seq(Seq(T)), Len(q) = Len(r),
           \A i \in 1 .. Len(q) : Pkts(q[i]) = r[i]
    PROVE  Pkts(FlattenSeq(q)) = FlattenSeq(r)
<1> DEFINE Same(a, b) == Len(a) = Len(b) /\ \A i \in 1 .. Len(a) : Pkts(a[i]) = b[i]
           Wrong == {n \in Nat : \E a \in Seq(Seq(Event(T))), b \in Seq(Seq(T)) :
                         Len(a) = n /\ Same(a, b) /\ Pkts(FlattenSeq(a)) # FlattenSeq(b)}
<1> SUFFICES Wrong = {}
    <2>1. Len(q) \in Nat /\ Same(q, r)
        OBVIOUS
    <2> HIDE DEF Same
    <2> QED
        BY <2>1
<1> SUFFICES ASSUME Wrong # {} PROVE FALSE
    OBVIOUS
<1>1. PICK m \in Wrong : \A n \in Wrong : m <= n
    <2>1. Wrong \subseteq Nat
        OBVIOUS
    <2> HIDE DEF Wrong
    <2> QED
        BY <2>1, LeastNumber
<1> HIDE DEF Same
<1>2. PICK a \in Seq(Seq(Event(T))), b \in Seq(Seq(T)) :
          Len(a) = m /\ Same(a, b) /\ Pkts(FlattenSeq(a)) # FlattenSeq(b)
    BY <1>1
<1>3. a # <<>> /\ b # <<>>
    <2>1. Len(a) = Len(b)
        BY <1>2 DEF Same
    <2>2. ASSUME a = <<>> \/ b = <<>> PROVE FALSE
        <3>1. a = <<>> /\ b = <<>>
            BY <2>1, <2>2
        <3>2. FlattenSeq(a) = <<>> /\ FlattenSeq(b) = <<>> /\ Pkts(<<>>) = <<>>
            BY <3>1, FlatEmpty DEF Pkts
        <3> QED
            BY <1>2, <3>2
    <2> QED
        BY <2>2
<1>4. PICK c \in Seq(Seq(Event(T))), x \in Seq(Event(T)) :
          Len(c) = m - 1 /\ Len(c) \in Nat /\ a = Append(c, x)
    <2> DEFINE E == Seq(Event(T))
    <2> HIDE DEF E
    <2>1. /\ Front(a) \in Seq(E) /\ Last(a) \in E /\ Len(Front(a)) = Len(a) - 1
          /\ a = Append(Front(a), Last(a))
        BY <1>2, <1>3, SplitEnd DEF E
    <2>2. Len(Front(a)) \in Nat
        BY <2>1
    <2> QED
        BY <1>2, <2>1, <2>2 DEF E
<1>5. PICK d \in Seq(Seq(T)), y \in Seq(T) :
          Len(d) = Len(b) - 1 /\ Len(d) \in Nat /\ b = Append(d, y)
    <2> DEFINE E == Seq(T)
    <2>1. /\ Front(b) \in Seq(E) /\ Last(b) \in E /\ Len(Front(b)) = Len(b) - 1
          /\ b = Append(Front(b), Last(b))
        BY <1>3, SplitEnd
    <2>2. Len(Front(b)) \in Nat
        BY <2>1
    <2> QED
        BY <2>1, <2>2
<1>6. Len(c) \notin Wrong
    <2>1. m \in Nat /\ ~ (m <= Len(c))
        BY <1>1, <1>4
    <2> HIDE DEF Wrong
    <2> QED
        BY <1>1, <2>1
<1>7. Len(b) = m /\ Len(d) = Len(c)
    BY <1>2, <1>4, <1>5 DEF Same
<1>8. Same(c, d) /\ Pkts(x) = y
    <2>1. /\ Len(a) = Len(c) + 1 /\ a[Len(c) + 1] = x /\ \A i \in 1 .. Len(c) : a[i] = c[i]
          /\ b[Len(c) + 1] = y /\ \A i \in 1 .. Len(c) : b[i] = d[i]
        BY <1>4, <1>5, <1>7
    <2>2. \A i \in 1 .. Len(c) + 1 : Pkts(a[i]) = b[i]
        BY <1>2, <2>1 DEF Same
    <2>3. Len(c) + 1 \in 1 .. Len(c) + 1 /\ \A i \in 1 .. Len(c) : i \in 1 .. Len(c) + 1
        BY <1>4
    <2> QED
        BY <1>7, <2>1, <2>2, <2>3 DEF Same
<1>9. Pkts(FlattenSeq(c)) = FlattenSeq(d)
    BY <1>4, <1>6, <1>8
<1>10. FlattenSeq(a) = FlattenSeq(c) \o x /\ FlattenSeq(b) = FlattenSeq(d) \o y
    BY <1>4, <1>5, FlatAppend
<1>11. FlattenSeq(c) \in Seq(Event(T)) /\ FlattenSeq(d) \in Seq(T)
    BY FlatType
<1>12. /\ Pkts(FlattenSeq(a)) = Pkts(FlattenSeq(c)) \o Pkts(x)
       /\ FlattenSeq(b) = FlattenSeq(d) \o y
    <2>1. Pkts(FlattenSeq(c) \o x) = Pkts(FlattenSeq(c)) \o Pkts(x)
        BY <1>11, PktsConcat
    <2> QED
        BY <1>10, <2>1
<1> QED
    BY <1>2, <1>8, <1>9, <1>12

-------------------------------------------------------------------------------
(* The operations of the platform, T being a set that has the packets in it. *)

later(evt) == [evt EXCEPT !.cycles = @ - 1]

LEMMA LaterType ==
    ASSUME NEW T, NEW e \in Event(T)
    PROVE  /\ later(e) \in Event(T) /\ later(e).channel = e.channel /\ later(e).pkt = e.pkt
           /\ later(e).cycles = e.cycles - 1
BY DEF Event, later

LEMMA WaitedIs ==
    ASSUME NEW T, NEW s \in Seq(Event(T))
    PROVE  /\ waited(s) \in Seq(Event(T)) /\ Len(waited(s)) = Len(s)
           /\ \A i \in 1 .. Len(s) : waited(s)[i] = later(s[i])
           /\ Pkts(waited(s)) = Pkts(s)
<1>1. Len(s) \in Nat /\ DOMAIN s = 1 .. Len(s) /\ \A i \in 1 .. Len(s) : s[i] \in Event(T)
    OBVIOUS
<1>2. waited(s) = [i \in 1 .. Len(s) |-> later(s[i])]
    BY <1>1 DEF waited, later
<1>3. \A i \in 1 .. Len(s) : later(s[i]) \in Event(T)
    BY <1>1, LaterType
<1>4. waited(s) \in Seq(Event(T)) /\ Len(waited(s)) = Len(s)
    BY <1>1, <1>2, <1>3
<1>5. \A i \in 1 .. Len(s) : waited(s)[i] = later(s[i])
    BY <1>2
<1>6. Pkts(waited(s)) = Pkts(s)
    <2>1. DOMAIN waited(s) = DOMAIN s
        BY <1>1, <1>2
    <2>2. \A i \in DOMAIN s : waited(s)[i].pkt = s[i].pkt
        BY <1>1, <1>5, LaterType
    <2> QED
        BY <2>1, <2>2 DEF Pkts
<1> QED
    BY <1>4, <1>5, <1>6

LEMMA WaitedAppend ==
    ASSUME NEW T, NEW s \in Seq(Event(T)), NEW e \in Event(T)
    PROVE  waited(Append(s, e)) = Append(waited(s), later(e))
<1> DEFINE t == Append(s, e)
           a == waited(t)
           w == waited(s)
           b == Append(w, later(e))
<1>1. /\ Len(s) \in Nat /\ t \in Seq(Event(T)) /\ Len(t) = Len(s) + 1
      /\ t[Len(s) + 1] = e /\ \A i \in 1 .. Len(s) : t[i] = s[i]
    OBVIOUS
<1>2. /\ w \in Seq(Event(T)) /\ Len(w) = Len(s) /\ \A i \in 1 .. Len(s) : w[i] = later(s[i])
      /\ later(e) \in Event(T)
    BY WaitedIs, LaterType
<1>3. a \in Seq(Event(T)) /\ Len(a) = Len(s) + 1 /\ \A i \in 1 .. Len(s) + 1 : a[i] = later(t[i])
    <2> HIDE DEF t
    <2> QED
        BY <1>1, WaitedIs
<1>4. /\ b \in Seq(Event(T)) /\ Len(b) = Len(s) + 1 /\ b[Len(s) + 1] = later(e)
      /\ \A i \in 1 .. Len(s) : b[i] = w[i]
    <2> HIDE DEF w
    <2> QED
        BY <1>1, <1>2
<1> HIDE DEF a, b, w, t
<1>5. ASSUME NEW i \in 1 .. Len(s) + 1 PROVE a[i] = b[i]
    <2>1. i = Len(s) + 1 \/ i \in 1 .. Len(s)
        BY <1>1
    <2> QED
        BY <1>1, <1>2, <1>3, <1>4, <2>1
<1>6. a = b
    BY <1>3, <1>4, <1>5
<1> QED
    BY <1>6 DEF a, b, w, t

LEMMA SelWaited ==
    ASSUME NEW T, NEW s \in Seq(Event(T)), NEW S, NEW R,
           \A e \in Event(T) : e \in S <=> later(e) \in R
    PROVE  Sel(waited(s), R) = waited(Sel(s, S))
<1> DEFINE Bad(t) == Sel(waited(t), R) # waited(Sel(t, S))
           Wrong == {n \in Nat : \E t \in Seq(Event(T)) : Len(t) = n /\ Bad(t)}
<1> SUFFICES Wrong = {}
    <2>1. Len(s) \in Nat
        OBVIOUS
    <2> QED
        BY <2>1
<1> SUFFICES ASSUME Wrong # {} PROVE FALSE
    OBVIOUS
<1>1. PICK m \in Wrong : \A n \in Wrong : m <= n
    <2>1. Wrong \subseteq Nat
        OBVIOUS
    <2> HIDE DEF Wrong
    <2> QED
        BY <2>1, LeastNumber
<1>2. PICK t \in Seq(Event(T)) : Len(t) = m /\ Bad(t)
    BY <1>1
<1>3. t # <<>>
    <2>1. waited(<<>>) = <<>>
        BY DEF waited
    <2> QED
        BY <1>2, <2>1, SelEmpty
<1>4. PICK f \in Seq(Event(T)), e \in Event(T) : Len(f) = m - 1 /\ Len(f) \in Nat /\ t = Append(f, e)
    BY <1>2, <1>3, SplitEnd, ZenonT(60)
<1>5. Len(f) \notin Wrong
    <2>1. m \in Nat /\ ~ (m <= Len(f))
        BY <1>1, <1>4
    <2> HIDE DEF Wrong
    <2> QED
        BY <1>1, <2>1
<1>6. ~ Bad(f)
    <2> HIDE DEF Bad
    <2> QED
        BY <1>4, <1>5
<1>7. waited(t) = Append(waited(f), later(e))
    BY <1>4, WaitedAppend
<1>8. waited(f) \in Seq(Event(T)) /\ later(e) \in Event(T) /\ (e \in S <=> later(e) \in R)
    BY WaitedIs, LaterType
<1>9. Sel(waited(t), R) = IF later(e) \in R THEN Append(Sel(waited(f), R), later(e))
                          ELSE Sel(waited(f), R)
    <2>1. Sel(Append(waited(f), later(e)), R) = IF later(e) \in R THEN Append(Sel(waited(f), R), later(e))
                                                ELSE Sel(waited(f), R)
        BY <1>8, SelAppend
    <2> QED
        BY <1>7, <2>1
<1>10. Sel(t, S) = IF e \in S THEN Append(Sel(f, S), e) ELSE Sel(f, S)
    BY <1>4, SelAppend
<1>11. Sel(f, S) \in Seq(Event(T))
    <2>1. Sel(f, S) \in Seq(Event(T) \cap S)
        BY SelType
    <2> QED
        BY <2>1
<1>12. waited(Append(Sel(f, S), e)) = Append(waited(Sel(f, S)), later(e))
    BY <1>11, WaitedAppend
<1> QED
    BY <1>2, <1>6, <1>8, <1>9, <1>10, <1>12

-------------------------------------------------------------------------------
(* fired. *)
Platform(T) == [storage : [Endpoint -> Seq(T)], pending : [Endpoint -> Int],
                imm_events : Seq(Event(T)), delta : Nat,
                reg_events : [Bucket -> Seq(Event(T))], cycles : Bucket]

Bound(T, ch) == {evt \in Event(T) : endpoint(evt.channel) = ch}

LEMMA EndpointType ==
    ASSUME NEW ch \in Channel
    PROVE  endpoint(ch) \in Endpoint
BY PlatformAssumption DEF endpoint, Endpoint

LEMMA ReceiveIs ==
    ASSUME NEW T, NEW s \in Platform(T), NEW e \in Event(T)
    PROVE  LET r == receive_packet(s, e)
           IN  /\ r \in Platform(T)
               /\ \A ch \in Endpoint :
                      /\ r.storage[ch] = IF e \in Bound(T, ch) THEN Append(s.storage[ch], e.pkt)
                                         ELSE s.storage[ch]
                      /\ r.pending[ch] = IF e \in Bound(T, ch) THEN s.pending[ch] - 1
                                         ELSE s.pending[ch]
               /\ r.imm_events = s.imm_events /\ r.delta = s.delta
               /\ r.reg_events = s.reg_events /\ r.cycles = s.cycles
<1> DEFINE c == endpoint(e.channel)
           st == [s.storage EXCEPT ![c] = Append(@, e.pkt)]
           pd == [s.pending EXCEPT ![c] = @ - 1]
<1>1. e.channel \in Channel /\ e.pkt \in T
    BY DEF Event
<1>2. c \in Endpoint
    BY <1>1, EndpointType
<1>3. s.storage \in [Endpoint -> Seq(T)] /\ s.pending \in [Endpoint -> Int]
    BY DEF Platform
<1>4. \A ch \in Endpoint : e \in Bound(T, ch) <=> ch = c
    BY DEF Bound
<1> HIDE DEF c
<1>5. st \in [Endpoint -> Seq(T)] /\ pd \in [Endpoint -> Int]
    BY <1>1, <1>2, <1>3
<1>6. \A ch \in Endpoint : /\ st[ch] = IF ch = c THEN Append(s.storage[ch], e.pkt) ELSE s.storage[ch]
                           /\ pd[ch] = IF ch = c THEN s.pending[ch] - 1 ELSE s.pending[ch]
    BY <1>2, <1>3
<1>7. receive_packet(s, e) = [s EXCEPT !.pending = pd, !.storage = st]
    BY DEF receive_packet, Platform, c
<1> HIDE DEF st, pd
<1>8. /\ receive_packet(s, e) \in Platform(T)
      /\ receive_packet(s, e).storage = st /\ receive_packet(s, e).pending = pd
      /\ receive_packet(s, e).imm_events = s.imm_events /\ receive_packet(s, e).delta = s.delta
      /\ receive_packet(s, e).reg_events = s.reg_events /\ receive_packet(s, e).cycles = s.cycles
    BY <1>5, <1>7 DEF Platform
<1> QED
    BY <1>4, <1>6, <1>8

IsFired(F, s, evts, n) ==
    F = [i \in 0 .. n |-> IF i = 0 THEN s ELSE receive_packet(F[i - 1], evts[i])]

LEMMA FiredExists ==
    ASSUME NEW s, NEW evts, NEW n \in Nat
    PROVE  \E F : IsFired(F, s, evts, n)
<1> DEFINE Missing == {k \in Nat : ~ \E F : IsFired(F, s, evts, k)}
<1> SUFFICES ASSUME Missing # {} PROVE FALSE
    OBVIOUS
<1>1. PICK m \in Missing : \A k \in Missing : m <= k
    <2>1. Missing \subseteq Nat
        OBVIOUS
    <2> HIDE DEF Missing
    <2> QED
        BY <2>1, LeastNumber
<1>2. CASE m = 0
    <2>1. IsFired([i \in 0 .. 0 |-> s], s, evts, 0)
        BY DEF IsFired
    <2> QED
        BY <1>1, <1>2, <2>1
<1>3. CASE m # 0
    <2>1. m \in Nat /\ m - 1 \in Nat /\ m - 1 \notin Missing
        BY <1>1, <1>3
    <2>2. PICK F : IsFired(F, s, evts, m - 1)
        BY <2>1
    <2> DEFINE G == [i \in 0 .. m |-> IF i = m THEN receive_packet(F[m - 1], evts[m]) ELSE F[i]]
    <2>3. ASSUME NEW i \in 0 .. m
          PROVE  G[i] = IF i = 0 THEN s ELSE receive_packet(G[i - 1], evts[i])
        <3>1. CASE i = m
            <4>1. G[i - 1] = F[m - 1] /\ G[i] = receive_packet(F[m - 1], evts[m])
                BY <2>1, <3>1, <1>3
            <4> QED
                BY <4>1, <3>1, <1>3
        <3>2. CASE i # m
            <4>1. i \in 0 .. m - 1 /\ G[i] = F[i] /\ (i # 0 => G[i - 1] = F[i - 1])
                BY <2>1, <3>2
            <4>2. F[i] = IF i = 0 THEN s ELSE receive_packet(F[i - 1], evts[i])
                BY <2>2, <4>1 DEF IsFired
            <4> QED
                BY <4>1, <4>2
        <3> QED
            BY <3>1, <3>2
    <2>4. G = [i \in 0 .. m |-> G[i]]
        OBVIOUS
    <2> HIDE DEF G
    <2>5. IsFired(G, s, evts, m)
        BY <2>3, <2>4 DEF IsFired
    <2> QED
        BY <2>5, <1>1
<1> QED
    BY <1>2, <1>3

LEMMA FiredTable ==
    ASSUME NEW s, NEW evts, Len(evts) \in Nat
    PROVE  \E F : IsFired(F, s, evts, Len(evts)) /\ fired(s, evts) = F[Len(evts)]
<1> DEFINE K == CHOOSE F : IsFired(F, s, evts, Len(evts))
<1>1. IsFired(K, s, evts, Len(evts))
    BY FiredExists
<1>2. fired(s, evts) = K[Len(evts)]
    BY DEF fired, IsFired
<1> QED
    BY <1>1, <1>2

LEMMA FiredEmpty ==
    ASSUME NEW s
    PROVE  fired(s, <<>>) = s
<1>1. PICK F : IsFired(F, s, <<>>, 0) /\ fired(s, <<>>) = F[0]
    BY FiredTable
<1> QED
    BY <1>1 DEF IsFired

LEMMA FiredAgree ==
    ASSUME NEW s, NEW q, NEW r, NEW n \in Nat, NEW m \in Nat, NEW k \in 0 .. n, k <= m,
           NEW F, NEW G, IsFired(F, s, q, n), IsFired(G, s, r, m),
           \A i \in 1 .. k : q[i] = r[i]
    PROVE  F[k] = G[k]
<1> DEFINE Wrong == {i \in 0 .. k : F[i] # G[i]}
<1> SUFFICES ASSUME Wrong # {} PROVE FALSE
    OBVIOUS
<1>1. PICK w \in Wrong : \A i \in Wrong : w <= i
    <2>1. Wrong \subseteq Nat
        OBVIOUS
    <2> HIDE DEF Wrong
    <2> QED
        BY <2>1, LeastNumber
<1>2. w \in 0 .. n /\ w \in 0 .. m /\ F[w] # G[w]
    BY <1>1
<1>3. /\ F[w] = IF w = 0 THEN s ELSE receive_packet(F[w - 1], q[w])
      /\ G[w] = IF w = 0 THEN s ELSE receive_packet(G[w - 1], r[w])
    BY <1>2 DEF IsFired
<1>4. CASE w = 0
    BY <1>2, <1>3, <1>4
<1>5. CASE w # 0
    <2>1. w \in 1 .. k /\ w - 1 \in 0 .. k /\ ~ (w <= w - 1)
        BY <1>1, <1>5
    <2>2. F[w - 1] = G[w - 1]
        BY <2>1, <1>1
    <2> QED
        BY <1>2, <1>3, <1>5, <2>1, <2>2
<1> QED
    BY <1>4, <1>5

LEMMA FiredAppend ==
    ASSUME NEW T, NEW s, NEW q \in Seq(T), NEW e \in T
    PROVE  fired(s, Append(q, e)) = receive_packet(fired(s, q), e)
<1> DEFINE r == Append(q, e)
           n == Len(q)
           m == n + 1
<1>1. /\ n \in Nat /\ m \in Nat /\ Len(r) = m /\ r[m] = e
      /\ \A i \in 1 .. n : q[i] = r[i]
    OBVIOUS
<1>2. m # 0 /\ m \in 0 .. m /\ m - 1 = n /\ n \in 0 .. n /\ n <= m
    BY <1>1
<1> HIDE DEF r, m
<1>3. PICK G : IsFired(G, s, r, m) /\ fired(s, r) = G[m]
    BY <1>1, FiredTable
<1>4. PICK F : IsFired(F, s, q, n) /\ fired(s, q) = F[n]
    BY <1>1, FiredTable
<1> HIDE DEF n
<1>5. F[n] = G[n]
    <2>1. n \in Nat /\ m \in Nat /\ n \in 0 .. n /\ n <= m /\ \A i \in 1 .. n : q[i] = r[i]
        BY <1>1, <1>2
    <2>2. IsFired(F, s, q, n) /\ IsFired(G, s, r, m)
        BY <1>3, <1>4
    <2> QED
        BY <2>1, <2>2, FiredAgree
<1>6. G[m] = receive_packet(G[m - 1], r[m])
    BY <1>2, <1>3 DEF IsFired
<1>7. fired(s, r) = receive_packet(fired(s, q), e)
    BY <1>1, <1>2, <1>3, <1>4, <1>5, <1>6
<1> QED
    BY <1>7 DEF r

(* What has been fired leaves. *)
Received(T, s, evts, f) ==
    /\ f \in Platform(T)
    /\ \A ch \in Endpoint :
           /\ f.storage[ch] = s.storage[ch] \o Pkts(Sel(evts, Bound(T, ch)))
           /\ f.pending[ch] = s.pending[ch] - Len(Sel(evts, Bound(T, ch)))
    /\ f.imm_events = s.imm_events /\ f.delta = s.delta
    /\ f.reg_events = s.reg_events /\ f.cycles = s.cycles

LEMMA ReceivedAppend ==
    ASSUME NEW T, NEW s \in Platform(T), NEW q \in Seq(Event(T)), NEW e \in Event(T), NEW f,
           Received(T, s, q, f)
    PROVE  Received(T, s, Append(q, e), receive_packet(f, e))
<1> DEFINE r == receive_packet(f, e)
           p == Append(q, e)
<1>1. f \in Platform(T)
    BY DEF Received
<1>2. /\ r \in Platform(T)
      /\ r.imm_events = s.imm_events /\ r.delta = s.delta
      /\ r.reg_events = s.reg_events /\ r.cycles = s.cycles
    BY <1>1, ReceiveIs DEF Received
<1>3. ASSUME NEW ch \in Endpoint
      PROVE  /\ r.storage[ch] = s.storage[ch] \o Pkts(Sel(p, Bound(T, ch)))
             /\ r.pending[ch] = s.pending[ch] - Len(Sel(p, Bound(T, ch)))
    <2> DEFINE B == Bound(T, ch)
               v == Sel(q, B)
    <2>1. /\ r.storage[ch] = IF e \in B THEN Append(f.storage[ch], e.pkt) ELSE f.storage[ch]
          /\ r.pending[ch] = IF e \in B THEN f.pending[ch] - 1 ELSE f.pending[ch]
        BY <1>1, ReceiveIs
    <2>2. f.storage[ch] = s.storage[ch] \o Pkts(v) /\ f.pending[ch] = s.pending[ch] - Len(v)
        BY DEF Received
    <2>3. Sel(p, B) = IF e \in B THEN Append(v, e) ELSE v
        BY SelAppend
    <2>4. v \in Seq(Event(T))
        <3>1. v \in Seq(Event(T) \cap B)
            BY SelType
        <3> QED
            BY <3>1
    <2>5. s.storage[ch] \in Seq(T) /\ s.pending[ch] \in Int /\ e.pkt \in T
        BY DEF Platform, Event
    <2>6. /\ Pkts(v) \in Seq(T) /\ Len(v) \in Nat /\ Len(Append(v, e)) = Len(v) + 1
          /\ Pkts(Append(v, e)) = Append(Pkts(v), e.pkt)
        BY <2>4, PktsType, PktsAppend
    <2>7. s.storage[ch] \o Append(Pkts(v), e.pkt) = Append(s.storage[ch] \o Pkts(v), e.pkt)
        <3>1. PICK a \in Seq(T), b \in Seq(T), x \in T : a = s.storage[ch] /\ b = Pkts(v) /\ x = e.pkt
            BY <2>5, <2>6
        <3>2. a \o Append(b, x) = Append(a \o b, x)
            BY ConcatAppend
        <3> QED
            BY <3>1, <3>2
    <2> HIDE DEF r, p, B, v
    <2>8. r.storage[ch] = s.storage[ch] \o Pkts(Sel(p, B))
        BY <2>1, <2>2, <2>3, <2>6, <2>7
    <2>9. r.pending[ch] = s.pending[ch] - Len(Sel(p, B))
        <3>1. CASE e \in B
            <4>1. r.pending[ch] = f.pending[ch] - 1 /\ Sel(p, B) = Append(v, e)
                BY <2>1, <2>3, <3>1
            <4>2. PICK a \in Int, n \in Nat : a = s.pending[ch] /\ n = Len(v)
                BY <2>5, <2>6
            <4>3. f.pending[ch] = a - n
                BY <2>2, <4>2
            <4>4. Len(Sel(p, B)) = n + 1
                BY <2>6, <4>1, <4>2
            <4> QED
                BY <4>1, <4>2, <4>3, <4>4
        <3>2. CASE e \notin B
            BY <2>1, <2>2, <2>3, <2>5, <2>6, <3>2
        <3> QED
            BY <3>1, <3>2
    <2> QED
        BY <2>8, <2>9 DEF B
<1> HIDE DEF r, p
<1>4. Received(T, s, p, r)
    BY <1>2, <1>3 DEF Received
<1> QED
    BY <1>4 DEF r, p

LEMMA FiredIs ==
    ASSUME NEW T, NEW s \in Platform(T), NEW evts \in Seq(Event(T))
    PROVE  Received(T, s, evts, fired(s, evts))
<1> DEFINE Bad(t) == ~ Received(T, s, t, fired(s, t))
           Wrong == {n \in Nat : \E t \in Seq(Event(T)) : Len(t) = n /\ Bad(t)}
<1> SUFFICES Wrong = {}
    <2>1. Len(evts) \in Nat
        OBVIOUS
    <2> QED
        BY <2>1
<1> SUFFICES ASSUME Wrong # {} PROVE FALSE
    OBVIOUS
<1>1. PICK m \in Wrong : \A n \in Wrong : m <= n
    <2>1. Wrong \subseteq Nat
        OBVIOUS
    <2> HIDE DEF Wrong
    <2> QED
        BY <2>1, LeastNumber
<1>2. PICK t \in Seq(Event(T)) : Len(t) = m /\ Bad(t)
    BY <1>1
<1>3. t # <<>>
    <2>1. Received(T, s, <<>>, s)
        <3>1. Pkts(<<>>) = <<>>
            BY DEF Pkts
        <3>2. \A ch \in Endpoint : s.storage[ch] \in Seq(T) /\ s.pending[ch] \in Int
            BY DEF Platform
        <3>3. \A ch \in Endpoint : s.storage[ch] \o <<>> = s.storage[ch] /\ s.pending[ch] - 0 = s.pending[ch]
            BY <3>2, ConcatEmpty
        <3>4. Len(<<>>) = 0
            OBVIOUS
        <3> QED
            BY <3>1, <3>3, <3>4, SelEmpty DEF Received
    <2> QED
        BY <1>2, <2>1, FiredEmpty
<1>4. PICK f \in Seq(Event(T)), e \in Event(T) : Len(f) = m - 1 /\ Len(f) \in Nat /\ t = Append(f, e)
    BY <1>2, <1>3, SplitEnd, ZenonT(60)
<1>5. Len(f) \notin Wrong
    <2>1. m \in Nat /\ ~ (m <= Len(f))
        BY <1>1, <1>4
    <2> HIDE DEF Wrong
    <2> QED
        BY <1>1, <2>1
<1>6. ~ Bad(f)
    <2> HIDE DEF Bad
    <2> QED
        BY <1>4, <1>5
<1>7. fired(s, t) = receive_packet(fired(s, f), e)
    BY <1>4, FiredAppend
<1>8. Received(T, s, Append(f, e), receive_packet(fired(s, f), e))
    BY <1>6, ReceivedAppend
<1> QED
    BY <1>2, <1>4, <1>7, <1>8

(* The wheel. *)
LEMMA ModPlus ==
    ASSUME NEW w \in Nat \ {0}, NEW x \in Nat
    PROVE  (x + w) % w = x % w
<1> DEFINE q == x \div w
           r == x % w
           p == (x + w) \div w
           s == (x + w) % w
<1>1. q \in Int /\ r \in 0 .. w - 1 /\ x = w * q + r
    OBVIOUS
<1>2. p \in Int /\ s \in 0 .. w - 1 /\ x + w = w * p + s
    OBVIOUS
<1> HIDE DEF q, r, p, s
<1>3. w * (p - 1 - q) = r - s
    <2>1. w * p - w - w * q = r - s
        BY <1>1, <1>2
    <2>2. w * (p - 1 - q) = w * p - w - w * q
        BY <1>1, <1>2
    <2> QED
        BY <2>1, <2>2
<1>4. p - 1 - q = 0
    <2> DEFINE d == p - 1 - q
    <2>1. d \in Int /\ w * d = r - s
        BY <1>1, <1>2, <1>3
    <2>2. r - s < w /\ r - s > -w
        BY <1>1, <1>2
    <2> HIDE DEF d
    <2>3. d >= 1 => w * d >= w
        BY <2>1
    <2>4. d <= -1 => w * d <= -w
        BY <2>1
    <2>5. d = 0
        BY <2>1, <2>2, <2>3, <2>4, <1>1, <1>2
    <2> QED
        BY <2>5 DEF d
<1>5. r - s = 0
    <2>1. w * 0 = 0
        OBVIOUS
    <2> QED
        BY <1>3, <1>4, <2>1
<1>6. r = s
    BY <1>1, <1>2, <1>5
<1> QED
    BY <1>6 DEF r, s

LEMMA NextBucket ==
    ASSUME NEW c \in Bucket, NEW n \in Nat
    PROVE  /\ (c + n) % WHEEL_SIZE \in Bucket
           /\ (c + 1) % WHEEL_SIZE \in Bucket
           /\ (((c + 1) % WHEEL_SIZE) + n) % WHEEL_SIZE = (c + (n + 1)) % WHEEL_SIZE
<1> DEFINE w == WHEEL_SIZE
<1>1. w \in Nat \ {0} /\ c \in 0 .. w - 1
    BY PlatformAssumption DEF Bucket
<1> HIDE DEF w
<1>2. (c + n) % w \in 0 .. w - 1 /\ (c + 1) % w \in 0 .. w - 1
    BY <1>1
<1>3. (((c + 1) % w) + n) % w = (c + (n + 1)) % w
    <2>1. CASE c + 1 < w
        <3>1. (c + 1) % w = c + 1 /\ c + 1 + n = c + (n + 1)
            BY <1>1, <2>1
        <3> QED
            BY <3>1
    <2>2. CASE ~ (c + 1 < w)
        <3>1. c + 1 = w
            BY <1>1, <2>2
        <3>2. (c + 1) % w = 0
            BY <1>1, <3>1
        <3>3. (n + w) % w = n % w
            BY <1>1, ModPlus
        <3>4. c + (n + 1) = n + w /\ 0 + n = n
            BY <1>1, <3>1
        <3> QED
            BY <3>2, <3>3, <3>4
    <2> QED
        BY <2>1, <2>2
<1> QED
    BY <1>2, <1>3 DEF w, Bucket

-------------------------------------------------------------------------------
(* What is on its way to a channel. *)
DueIn(s, n, ch) ==
    LET bucket == s.reg_events[(s.cycles + n) % WHEEL_SIZE]
    IN  among(bucket, {i \in bound_for(bucket, ch) : bucket[i].cycles = n})

DueSet(T, n, ch) == {evt \in Event(T) : endpoint(evt.channel) = ch /\ evt.cycles = n}

(* Places of a sequence, and the events there. *)
LEMMA AmongSel ==
    ASSUME NEW T, NEW s \in Seq(T), NEW P, NEW S,
           \A i \in 1 .. Len(s) : i \in P <=> s[i] \in S
    PROVE  among(s, P) = Sel(s, S)
<1> DEFINE Q == {i \in DOMAIN s : s[i] \in S}
<1>1. Len(s) \in Nat /\ \A i \in 1 .. Len(s) : i \in P <=> i \in Q
    OBVIOUS
<1> HIDE DEF Q
<1>2. among(s, P) = among(s, Q)
    BY <1>1, AmongAgree
<1> QED
    BY <1>2 DEF Q, Sel

LEMMA SelAgree ==
    ASSUME NEW T, NEW s \in Seq(T), NEW R, NEW S,
           \A i \in 1 .. Len(s) : s[i] \in R <=> s[i] \in S
    PROVE  Sel(s, R) = Sel(s, S)
<1> DEFINE Q == {i \in DOMAIN s : s[i] \in R}
<1>1. \A i \in 1 .. Len(s) : i \in Q <=> s[i] \in S
    OBVIOUS
<1> HIDE DEF Q
<1>2. among(s, Q) = Sel(s, S)
    BY <1>1, AmongSel
<1> QED
    BY <1>2 DEF Q, Sel

LEMMA DueInIs ==
    ASSUME NEW T, NEW s \in Platform(T), NEW n \in Nat, NEW ch
    PROVE  LET bucket == s.reg_events[(s.cycles + n) % WHEEL_SIZE]
           IN  /\ DueIn(s, n, ch) = Sel(bucket, DueSet(T, n, ch))
               /\ DueIn(s, n, ch) \in Seq(DueSet(T, n, ch))
               /\ DueIn(s, n, ch) \in Seq(Event(T))
               /\ bucket \in Seq(Event(T))
<1> DEFINE b == s.reg_events[(s.cycles + n) % WHEEL_SIZE]
           P == {i \in bound_for(b, ch) : b[i].cycles = n}
           S == DueSet(T, n, ch)
<1>1. s.cycles \in Bucket /\ s.reg_events \in [Bucket -> Seq(Event(T))]
    BY DEF Platform
<1>2. b \in Seq(Event(T))
    BY <1>1, NextBucket
<1>3. DueIn(s, n, ch) = among(b, P)
    BY DEF DueIn
<1> HIDE DEF b
<1>4. \A i \in 1 .. Len(b) : i \in P <=> b[i] \in S
    BY <1>2 DEF bound_for, DueSet
<1> HIDE DEF P, S
<1>5. among(b, P) = Sel(b, S)
    BY <1>2, <1>4, AmongSel
<1>6. Sel(b, S) \in Seq(Event(T) \cap S)
    BY <1>2, SelType
<1>7. Sel(b, S) \in Seq(S) /\ Sel(b, S) \in Seq(Event(T))
    BY <1>6
<1> QED
    BY <1>2, <1>3, <1>5, <1>7 DEF b, S

-------------------------------------------------------------------------------
(* A channel as the memory and the caches see it, its view. *)

(* What a channel holds: what has arrived, what is reserved, and the packets on
   the way, those sent without delay and those that are due in n cycles. *)
NowIn(s, ch) == among(s.imm_events, bound_for(s.imm_events, ch))

View(s, l, ch) ==
    [st |-> s.storage[ch], pd |-> s.pending[ch], now |-> Pkts(NowIn(s, ch)),
     due |-> [n \in 1 .. l |-> Pkts(DueIn(s, n, ch))]]

Views(T, l) == {v \in [st : Seq(T), pd : Int, now : Seq(T), due : Seq(Seq(T))] : Len(v.due) = l}

RegOk(s, l) ==
    \A b \in Bucket : \A i \in DOMAIN s.reg_events[b] :
        LET evt == s.reg_events[b][i]
        IN  evt.cycles \in 1 .. l /\ b = (s.cycles + evt.cycles) % WHEEL_SIZE

LEMMA NowIs ==
    ASSUME NEW T, NEW s \in Platform(T), NEW ch
    PROVE  /\ NowIn(s, ch) = Sel(s.imm_events, Bound(T, ch))
           /\ NowIn(s, ch) \in Seq(Event(T))
<1> DEFINE b == s.imm_events
           P == bound_for(b, ch)
           S == Bound(T, ch)
<1>1. b \in Seq(Event(T))
    BY DEF Platform
<1>2. NowIn(s, ch) = among(b, P)
    BY DEF NowIn
<1> HIDE DEF b
<1>3. \A i \in 1 .. Len(b) : i \in P <=> b[i] \in S
    BY <1>1 DEF bound_for, Bound
<1> HIDE DEF P, S
<1>4. among(b, P) = Sel(b, S)
    BY <1>1, <1>3, AmongSel
<1>5. Sel(b, S) \in Seq(Event(T) \cap S)
    BY <1>1, SelType
<1>6. Sel(b, S) \in Seq(Event(T))
    BY <1>5
<1> QED
    BY <1>2, <1>4, <1>6 DEF b, S

LEMMA ViewType ==
    ASSUME NEW T, NEW s \in Platform(T), NEW l \in Nat, NEW ch \in Endpoint
    PROVE  /\ View(s, l, ch) \in Views(T, l)
           /\ View(s, l, ch).st = s.storage[ch] /\ View(s, l, ch).pd = s.pending[ch]
           /\ View(s, l, ch).now = Pkts(NowIn(s, ch))
           /\ \A n \in 1 .. l : View(s, l, ch).due[n] = Pkts(DueIn(s, n, ch))
<1> DEFINE d == [n \in 1 .. l |-> Pkts(DueIn(s, n, ch))]
<1>1. s.storage[ch] \in Seq(T) /\ s.pending[ch] \in Int
    BY DEF Platform
<1>2. Pkts(NowIn(s, ch)) \in Seq(T)
    BY NowIs, PktsType
<1>3. \A n \in 1 .. l : Pkts(DueIn(s, n, ch)) \in Seq(T)
    <2> TAKE n \in 1 .. l
    <2>1. n \in Nat
        OBVIOUS
    <2>2. DueIn(s, n, ch) \in Seq(Event(T))
        BY <2>1, DueInIs
    <2> QED
        BY <2>2, PktsType
<1>4. d \in Seq(Seq(T)) /\ Len(d) = l /\ \A n \in 1 .. l : d[n] = Pkts(DueIn(s, n, ch))
    BY <1>3
<1>5. View(s, l, ch) = [st |-> s.storage[ch], pd |-> s.pending[ch],
                        now |-> Pkts(NowIn(s, ch)), due |-> d]
    BY DEF View
<1> HIDE DEF d
<1> QED
    BY <1>1, <1>2, <1>4, <1>5 DEF Views

(* Two views with the same in them. *)
LEMMA SameView ==
    ASSUME NEW s, NEW r, NEW l, NEW ch, r.storage[ch] = s.storage[ch], r.pending[ch] = s.pending[ch],
           Pkts(NowIn(r, ch)) = Pkts(NowIn(s, ch)),
           \A n \in 1 .. l : Pkts(DueIn(r, n, ch)) = Pkts(DueIn(s, n, ch))
    PROVE  View(r, l, ch) = View(s, l, ch)
BY DEF View

-------------------------------------------------------------------------------
(* push_back keeps what is in the list, and adds what is pushed. *)
LEMMA PushBackFrom ==
    ASSUME NEW T, NEW s \in Seq(T), NEW e \in T
    PROVE  /\ push_back(s, e) \in Seq(T)
           /\ \A i \in DOMAIN push_back(s, e) :
                  push_back(s, e)[i] = e \/ \E j \in DOMAIN s : push_back(s, e)[i] = s[j]
<1>1. CASE s = <<>>
    BY <1>1 DEF push_back
<1>2. CASE s # <<>>
    <2> DEFINE f == Front(s)
               x == Last(s)
               p == push_back(s, e)
    <2>1. f \in Seq(T) /\ x \in T /\ Len(f) = Len(s) - 1 /\ s = Append(f, x)
        BY <1>2, SplitEnd
    <2>2. p = f \o <<e, x>>
        BY <1>2 DEF push_back
    <2>3. Len(s) \in Nat /\ \A i \in 1 .. Len(f) : s[i] = f[i]
        BY <2>1
    <2>4. s[Len(s)] = x
        BY DEF Last
    <2>5. Len(s) # 0
        BY <1>2
    <2> HIDE DEF f, x, p
    <2>6. /\ p \in Seq(T) /\ Len(p) = Len(f) + 2 /\ \A i \in 1 .. Len(f) : p[i] = f[i]
          /\ p[Len(f) + 1] = e /\ p[Len(f) + 2] = x
        BY <2>1, <2>2
    <2>7. ASSUME NEW i \in DOMAIN p PROVE p[i] = e \/ \E j \in DOMAIN s : p[i] = s[j]
        <3>1. i \in 1 .. Len(f) \/ i = Len(f) + 1 \/ i = Len(f) + 2
            BY <2>1, <2>6
        <3>2. CASE i \in 1 .. Len(f)
            <4>1. i \in DOMAIN s /\ p[i] = s[i]
                BY <3>2, <2>1, <2>3, <2>6
            <4> QED
                BY <4>1
        <3>3. CASE i = Len(f) + 2
            <4>1. Len(s) \in DOMAIN s /\ p[i] = s[Len(s)]
                BY <3>3, <2>3, <2>4, <2>5, <2>6
            <4> QED
                BY <4>1
        <3> QED
            BY <3>1, <3>2, <3>3, <2>6
    <2> QED
        BY <2>6, <2>7 DEF p
<1> QED
    BY <1>1, <1>2

-------------------------------------------------------------------------------
(* What each operation does to the views: send, *)

EventOf(c, x, n) == [channel |-> c, pkt |-> x, cycles |-> n]

(* send without a delay. *)
LEMMA SendNow ==
    ASSUME NEW T, NEW s \in Platform(T), NEW c \in Channel, NEW x \in T
    PROVE  LET r == send(s, c, x, 0)
           IN  /\ r \in Platform(T)
               /\ r.storage = s.storage
               /\ r.pending = [s.pending EXCEPT ![endpoint(c)] = @ + 1]
               /\ r.imm_events = push_back(s.imm_events, EventOf(c, x, s.delta))
               /\ r.delta = s.delta + 1
               /\ r.reg_events = s.reg_events /\ r.cycles = s.cycles
<1> DEFINE e == EventOf(c, x, s.delta)
           p == push_back(s.imm_events, e)
           d == s.delta + 1
           g == [s.pending EXCEPT ![endpoint(c)] = @ + 1]
<1>1. e \in Event(T)
    BY DEF Event, EventOf, Platform
<1>2. p \in Seq(Event(T))
    <2>1. s.imm_events \in Seq(Event(T))
        BY DEF Platform
    <2> HIDE DEF e
    <2> QED
        BY <1>1, <2>1, PushBackFrom
<1>3. d \in Nat
    BY DEF Platform
<1>4. g \in [Endpoint -> Int]
    BY EndpointType DEF Platform
<1>5. send(s, c, x, 0) = [s EXCEPT !.pending = g, !.imm_events = p, !.delta = d]
    BY DEF send, schedule, reserve, Platform, EventOf
<1> HIDE DEF p, d, g
<1>6. send(s, c, x, 0) \in Platform(T)
    BY <1>2, <1>3, <1>4, <1>5 DEF Platform
<1>7. /\ send(s, c, x, 0).storage = s.storage /\ send(s, c, x, 0).pending = g
      /\ send(s, c, x, 0).imm_events = p /\ send(s, c, x, 0).delta = d
      /\ send(s, c, x, 0).reg_events = s.reg_events /\ send(s, c, x, 0).cycles = s.cycles
    BY <1>5 DEF Platform
<1> QED
    BY <1>6, <1>7 DEF p, d, g

(* send with one. *)
SentLater(T, s, c, x, l, r, b) ==
    /\ r \in Platform(T)
    /\ r.storage = s.storage
    /\ r.pending = [s.pending EXCEPT ![endpoint(c)] = @ + 1]
    /\ r.imm_events = s.imm_events /\ r.delta = s.delta
    /\ b \in Bucket
    /\ r.reg_events[b] = push_back(s.reg_events[b], EventOf(c, x, l))
    /\ \A a \in Bucket \ {b} : r.reg_events[a] = s.reg_events[a]
    /\ r.cycles = s.cycles

LEMMA SendLater ==
    ASSUME NEW T, NEW s \in Platform(T), NEW c \in Channel, NEW x \in T, NEW l \in Nat \ {0}
    PROVE  SentLater(T, s, c, x, l, send(s, c, x, l), (s.cycles + l) % WHEEL_SIZE)
<1> DEFINE e == EventOf(c, x, l)
           b == (s.cycles + l) % WHEEL_SIZE
           q == push_back(s.reg_events[b], e)
           w == [s.reg_events EXCEPT ![b] = q]
           g == [s.pending EXCEPT ![endpoint(c)] = @ + 1]
<1>1. e \in Event(T)
    BY DEF Event, EventOf, Platform
<1>2. b \in Bucket
    BY NextBucket DEF Platform
<1>3. q \in Seq(Event(T))
    <2>1. s.reg_events[b] \in Seq(Event(T))
        <3> HIDE DEF b
        <3> QED
            BY <1>2 DEF Platform
    <2> HIDE DEF e
    <2> QED
        BY <1>1, <2>1, PushBackFrom
<1>4. g \in [Endpoint -> Int]
    BY EndpointType DEF Platform
<1>5. send(s, c, x, l) = [s EXCEPT !.pending = g, !.reg_events = w]
    BY DEF send, schedule, reserve, Platform, EventOf
<1>6. w \in [Bucket -> Seq(Event(T))] /\ w[b] = q /\ \A a \in Bucket \ {b} : w[a] = s.reg_events[a]
    <2> HIDE DEF b, q
    <2> QED
        BY <1>2, <1>3 DEF Platform
<1> HIDE DEF b, q, w, g
<1>7. send(s, c, x, l) \in Platform(T)
    BY <1>4, <1>5, <1>6 DEF Platform
<1>8. /\ send(s, c, x, l).storage = s.storage /\ send(s, c, x, l).pending = g
      /\ send(s, c, x, l).imm_events = s.imm_events /\ send(s, c, x, l).delta = s.delta
      /\ send(s, c, x, l).reg_events = w /\ send(s, c, x, l).cycles = s.cycles
    BY <1>5 DEF Platform
<1>9. /\ w[b] = push_back(s.reg_events[b], EventOf(c, x, l))
    BY <1>6 DEF q
<1>10. SentLater(T, s, c, x, l, send(s, c, x, l), b)
    BY <1>2, <1>6, <1>7, <1>8, <1>9 DEF g, SentLater
<1> QED
    BY <1>10 DEF b

(* A channel as it is when a packet has been sent on it. *)
IsSent(v, w, x, l) ==
    /\ w.st = v.st /\ w.pd = v.pd + 1
    /\ w.now = IF l = 0 THEN <<x>> ELSE v.now
    /\ \A n \in 1 .. l : w.due[n] = IF n = l THEN <<x>> ELSE v.due[n]

MaySend(v, l) == IF l = 0 THEN v.now = <<>> ELSE v.due[l] = <<>>

LEMMA PktsOne ==
    ASSUME NEW T, NEW e \in Event(T)
    PROVE  Pkts(<<e>>) = <<e.pkt>>
<1>1. Pkts(Append(<<>>, e)) = Append(Pkts(<<>>), e.pkt)
    <2>1. <<>> \in Seq(Event(T))
        OBVIOUS
    <2> QED
        BY <2>1, PktsAppend
<1>2. Pkts(<<>>) = <<>>
    BY DEF Pkts
<1> QED
    BY <1>1, <1>2

LEMMA PktsNone ==
    ASSUME NEW T, NEW s \in Seq(Event(T))
    PROVE  Pkts(s) = <<>> <=> s = <<>>
BY PktsType

(* The effect of send on the channels, l being the delay. *)
LEMMA SendNowEffect ==
    ASSUME NEW T, NEW s \in Platform(T), NEW c \in Channel, NEW x \in T, RegOk(s, 0),
           MaySend(View(s, 0, endpoint(c)), 0)
    PROVE  LET r == send(s, c, x, 0)
           IN  /\ r \in Platform(T) /\ RegOk(r, 0)
               /\ r.imm_events = push_back(s.imm_events, EventOf(c, x, s.delta))
               /\ r.delta = s.delta + 1
               /\ IsSent(View(s, 0, endpoint(c)), View(r, 0, endpoint(c)), x, 0)
               /\ \A ch \in Endpoint \ {endpoint(c)} : View(r, 0, ch) = View(s, 0, ch)
<1> DEFINE r == send(s, c, x, 0)
           e == EventOf(c, x, s.delta)
           k == endpoint(c)
<1>1. /\ r \in Platform(T)
      /\ r.storage = s.storage
      /\ r.pending = [s.pending EXCEPT ![k] = @ + 1]
      /\ r.imm_events = push_back(s.imm_events, e) /\ r.delta = s.delta + 1
      /\ r.reg_events = s.reg_events /\ r.cycles = s.cycles
    BY SendNow
<1>2. e \in Event(T) /\ e.pkt = x /\ s.imm_events \in Seq(Event(T)) /\ endpoint(e.channel) = k
    BY DEF Event, EventOf, Platform
<1>3. k \in Endpoint
    BY EndpointType
<1> HIDE DEF r, e, k
<1>4. RegOk(r, 0)
    BY <1>1 DEF RegOk
<1>5. ASSUME NEW ch \in Endpoint
      PROVE  /\ ch # k => NowIn(r, ch) = NowIn(s, ch)
             /\ ch = k => NowIn(r, ch) = <<e>>
    <2> DEFINE B == Bound(T, ch)
    <2>1. NowIn(s, ch) = Sel(s.imm_events, B) /\ NowIn(s, ch) \in Seq(Event(T))
        BY NowIs
    <2>2. NowIn(r, ch) = Sel(push_back(s.imm_events, e), B)
        BY <1>1, NowIs
    <2>3. e \in B <=> ch = k
        BY <1>2 DEF Bound
    <2>4. ch = k => NowIn(s, ch) = <<>>
        <3>1. ASSUME ch = k PROVE Pkts(NowIn(s, ch)) = <<>>
            BY <3>1 DEF MaySend, View, k
        <3> QED
            BY <2>1, <3>1, PktsNone
    <2> HIDE DEF B
    <2>5. /\ e \notin B => Sel(push_back(s.imm_events, e), B) = Sel(s.imm_events, B)
          /\ e \in B /\ Sel(s.imm_events, B) = <<>> => Sel(push_back(s.imm_events, e), B) = <<e>>
        BY <1>2, SelPushBack
    <2> QED
        BY <2>1, <2>2, <2>3, <2>4, <2>5
<1>6. ASSUME NEW ch \in Endpoint \ {k} PROVE View(r, 0, ch) = View(s, 0, ch)
    <2>1. r.storage[ch] = s.storage[ch] /\ r.pending[ch] = s.pending[ch]
        BY <1>1 DEF Platform
    <2>2. NowIn(r, ch) = NowIn(s, ch)
        BY <1>5
    <2> QED
        BY <2>1, <2>2, SameView
<1>7. IsSent(View(s, 0, k), View(r, 0, k), x, 0)
    <2>1. r.storage[k] = s.storage[k] /\ r.pending[k] = s.pending[k] + 1
        BY <1>1, <1>3 DEF Platform
    <2>2. Pkts(NowIn(r, k)) = <<x>>
        BY <1>2, <1>3, <1>5, PktsOne
    <2>3. /\ View(s, 0, k).st = s.storage[k] /\ View(s, 0, k).pd = s.pending[k]
          /\ View(r, 0, k).st = r.storage[k] /\ View(r, 0, k).pd = r.pending[k]
          /\ View(r, 0, k).now = Pkts(NowIn(r, k))
        BY DEF View
    <2>4. 1 .. 0 = {}
        OBVIOUS
    <2> QED
        BY <2>1, <2>2, <2>3, <2>4 DEF IsSent
<1> QED
    BY <1>1, <1>4, <1>6, <1>7 DEF r, k, e

LEMMA SendLaterDue ==
    ASSUME NEW T, NEW s \in Platform(T), NEW c \in Channel, NEW x \in T, NEW l \in Nat \ {0},
           NEW n \in 1 .. l, NEW ch \in Endpoint
    PROVE  LET r == send(s, c, x, l)
           IN  /\ ~ (n = l /\ ch = endpoint(c)) => DueIn(r, n, ch) = DueIn(s, n, ch)
               /\ n = l /\ ch = endpoint(c) /\ DueIn(s, n, ch) = <<>> =>
                      DueIn(r, n, ch) = <<EventOf(c, x, l)>>
<1> DEFINE r == send(s, c, x, l)
           e == EventOf(c, x, l)
           b == (s.cycles + l) % WHEEL_SIZE
           a == (s.cycles + n) % WHEEL_SIZE
           S == DueSet(T, n, ch)
<1>0. SentLater(T, s, c, x, l, r, b)
    BY SendLater
<1>1. /\ r \in Platform(T) /\ b \in Bucket /\ r.cycles = s.cycles
      /\ r.reg_events[b] = push_back(s.reg_events[b], e)
      /\ \A i \in Bucket \ {b} : r.reg_events[i] = s.reg_events[i]
    <2> HIDE DEF r, b
    <2> QED
        BY <1>0 DEF SentLater
<1>2. n \in Nat /\ a \in Bucket
    <2>1. n \in Nat /\ s.cycles \in Bucket
        BY DEF Platform
    <2>2. (s.cycles + n) % WHEEL_SIZE \in Bucket
        BY <2>1, NextBucket
    <2> QED
        BY <2>1, <2>2
<1>3. e \in Event(T) /\ (e \in S <=> n = l /\ ch = endpoint(c))
    BY DEF Event, EventOf, DueSet
<1>4. DueIn(s, n, ch) = Sel(s.reg_events[a], S) /\ s.reg_events[a] \in Seq(Event(T))
    BY <1>2, DueInIs
<1>5. DueIn(r, n, ch) = Sel(r.reg_events[a], S)
    BY <1>1, <1>2, DueInIs
<1>6. n = l => a = b
    OBVIOUS
<1> HIDE DEF r, e, a, b, S
<1>7. CASE a # b
    <2>1. r.reg_events[a] = s.reg_events[a]
        BY <1>1, <1>2, <1>7
    <2> QED
        BY <1>4, <1>5, <1>6, <1>7, <2>1 DEF r
<1>8. CASE a = b
    <2>1. /\ e \notin S => Sel(push_back(s.reg_events[a], e), S) = Sel(s.reg_events[a], S)
          /\ e \in S /\ Sel(s.reg_events[a], S) = <<>> =>
                 Sel(push_back(s.reg_events[a], e), S) = <<e>>
        BY <1>3, <1>4, SelPushBack
    <2> QED
        BY <1>1, <1>3, <1>4, <1>5, <1>8, <2>1 DEF r, e
<1> QED
    BY <1>7, <1>8

LEMMA SendLaterReg ==
    ASSUME NEW T, NEW s \in Platform(T), NEW c \in Channel, NEW x \in T, NEW l \in Nat \ {0},
           RegOk(s, l)
    PROVE  RegOk(send(s, c, x, l), l)
<1> DEFINE r == send(s, c, x, l)
           e == EventOf(c, x, l)
           b == (s.cycles + l) % WHEEL_SIZE
<1>0. SentLater(T, s, c, x, l, r, b)
    BY SendLater
<1>1. /\ b \in Bucket /\ r.cycles = s.cycles
      /\ r.reg_events[b] = push_back(s.reg_events[b], e)
      /\ \A i \in Bucket \ {b} : r.reg_events[i] = s.reg_events[i]
    <2> HIDE DEF r, b
    <2> QED
        BY <1>0 DEF SentLater
<1>2. e \in Event(T) /\ e.cycles = l
    BY DEF Event, EventOf
<1>3. s.reg_events[b] \in Seq(Event(T))
    <2> HIDE DEF b
    <2> QED
        BY <1>1 DEF Platform
<1>4. b = (s.cycles + l) % WHEEL_SIZE /\ l \in 1 .. l
    OBVIOUS
<1> HIDE DEF r, e, b
<1>5. \A i \in DOMAIN push_back(s.reg_events[b], e) :
         \/ push_back(s.reg_events[b], e)[i] = e
         \/ \E j \in DOMAIN s.reg_events[b] : push_back(s.reg_events[b], e)[i] = s.reg_events[b][j]
    BY <1>2, <1>3, PushBackFrom
<1>6. ASSUME NEW a \in Bucket, NEW i \in DOMAIN r.reg_events[a]
      PROVE  /\ r.reg_events[a][i].cycles \in 1 .. l
             /\ a = (r.cycles + r.reg_events[a][i].cycles) % WHEEL_SIZE
    <2>1. CASE a = b
        <3>1. r.reg_events[a][i] = e \/ \E j \in DOMAIN s.reg_events[a] : r.reg_events[a][i] = s.reg_events[a][j]
            BY <1>1, <1>5, <1>6, <2>1
        <3>2. CASE r.reg_events[a][i] = e
            BY <1>1, <1>2, <1>4, <2>1, <3>2
        <3>3. ASSUME NEW j \in DOMAIN s.reg_events[a], r.reg_events[a][i] = s.reg_events[a][j]
              PROVE  /\ r.reg_events[a][i].cycles \in 1 .. l
                     /\ a = (r.cycles + r.reg_events[a][i].cycles) % WHEEL_SIZE
            BY <1>1, <3>3 DEF RegOk
        <3> QED
            BY <3>1, <3>2, <3>3
    <2>2. CASE a # b
        BY <1>1, <2>2 DEF RegOk
    <2> QED
        BY <2>1, <2>2
<1>7. RegOk(r, l)
    BY <1>6 DEF RegOk
<1> QED
    BY <1>7 DEF r

LEMMA SendEffect ==
    ASSUME NEW T, NEW s \in Platform(T), NEW c \in Channel, NEW x \in T, NEW l \in Nat, RegOk(s, l),
           MaySend(View(s, l, endpoint(c)), l)
    PROVE  LET r == send(s, c, x, l)
           IN  /\ r \in Platform(T) /\ RegOk(r, l)
               /\ IsSent(View(s, l, endpoint(c)), View(r, l, endpoint(c)), x, l)
               /\ \A ch \in Endpoint \ {endpoint(c)} : View(r, l, ch) = View(s, l, ch)
               /\ r.delta = IF l = 0 THEN s.delta + 1 ELSE s.delta
               /\ r.imm_events = IF l = 0 THEN push_back(s.imm_events, EventOf(c, x, s.delta))
                                 ELSE s.imm_events
<1>1. CASE l = 0
    <2>1. RegOk(s, 0) /\ MaySend(View(s, 0, endpoint(c)), 0)
        BY <1>1
    <2>2. /\ send(s, c, x, 0) \in Platform(T)
          /\ send(s, c, x, 0).imm_events = push_back(s.imm_events, EventOf(c, x, s.delta))
          /\ send(s, c, x, 0).delta = s.delta + 1
        BY <2>1, SendNowEffect
    <2>3. /\ RegOk(send(s, c, x, 0), 0)
          /\ IsSent(View(s, 0, endpoint(c)), View(send(s, c, x, 0), 0, endpoint(c)), x, 0)
          /\ \A ch \in Endpoint \ {endpoint(c)} : View(send(s, c, x, 0), 0, ch) = View(s, 0, ch)
        BY <2>1, SendNowEffect
    <2> QED
        BY <1>1, <2>2, <2>3
<1>2. CASE l # 0
    <2> DEFINE r == send(s, c, x, l)
               k == endpoint(c)
    <2>1. l \in Nat \ {0}
        BY <1>2
    <2>2. /\ r \in Platform(T) /\ r.storage = s.storage
          /\ r.pending = [s.pending EXCEPT ![k] = @ + 1]
          /\ r.imm_events = s.imm_events /\ r.delta = s.delta
        <3>1. SentLater(T, s, c, x, l, r, (s.cycles + l) % WHEEL_SIZE)
            BY <2>1, SendLater
        <3> HIDE DEF r
        <3> QED
            BY <3>1 DEF SentLater
    <2>3. RegOk(r, l)
        BY <2>1, SendLaterReg
    <2>4. k \in Endpoint
        BY EndpointType
    <2>5. ASSUME NEW n \in 1 .. l, NEW ch \in Endpoint
          PROVE  /\ ~ (n = l /\ ch = k) => DueIn(r, n, ch) = DueIn(s, n, ch)
                 /\ n = l /\ ch = k /\ DueIn(s, n, ch) = <<>> => DueIn(r, n, ch) = <<EventOf(c, x, l)>>
        BY <2>1, SendLaterDue
    <2>6. \A ch : NowIn(r, ch) = NowIn(s, ch)
        BY <2>2 DEF NowIn
    <2> HIDE DEF r, k
    <2>7. ASSUME NEW ch \in Endpoint \ {k} PROVE View(r, l, ch) = View(s, l, ch)
        <3>1. r.storage[ch] = s.storage[ch] /\ r.pending[ch] = s.pending[ch]
            BY <2>2 DEF Platform
        <3> QED
            BY <3>1, <2>5, <2>6, SameView
    <2>8. IsSent(View(s, l, k), View(r, l, k), x, l)
        <3>1. r.storage[k] = s.storage[k] /\ r.pending[k] = s.pending[k] + 1
            BY <2>2, <2>4 DEF Platform
        <3>2. /\ View(s, l, k).st = s.storage[k] /\ View(s, l, k).pd = s.pending[k]
              /\ View(s, l, k).now = Pkts(NowIn(s, k))
              /\ View(r, l, k).st = r.storage[k] /\ View(r, l, k).pd = r.pending[k]
              /\ View(r, l, k).now = Pkts(NowIn(r, k))
              /\ \A n \in 1 .. l : View(s, l, k).due[n] = Pkts(DueIn(s, n, k))
              /\ \A n \in 1 .. l : View(r, l, k).due[n] = Pkts(DueIn(r, n, k))
            BY DEF View
        <3>3. l \in 1 .. l
            BY <2>1
        <3>4. DueIn(s, l, k) = <<>>
            <4>1. l \in Nat /\ DueIn(s, l, k) \in Seq(Event(T))
                BY DueInIs
            <4>2. Pkts(DueIn(s, l, k)) = <<>>
                BY <1>2, <3>2, <3>3 DEF MaySend, k
            <4> QED
                BY <4>1, <4>2, PktsNone
        <3>5. Pkts(DueIn(r, l, k)) = <<x>>
            <4>1. EventOf(c, x, l) \in Event(T) /\ EventOf(c, x, l).pkt = x
                BY DEF Event, EventOf
            <4>2. DueIn(r, l, k) = <<EventOf(c, x, l)>>
                BY <2>4, <2>5, <3>3, <3>4
            <4> QED
                BY <4>1, <4>2, PktsOne
        <3>6. \A n \in 1 .. l : n # l => DueIn(r, n, k) = DueIn(s, n, k)
            BY <2>4, <2>5
        <3> QED
            BY <1>2, <2>6, <3>1, <3>2, <3>5, <3>6 DEF IsSent
    <2> QED
        BY <1>2, <2>2, <2>3, <2>7, <2>8 DEF r, k
<1> QED
    BY <1>1, <1>2

-------------------------------------------------------------------------------
(* pop and advance, *)

(* pop. *)
IsPopped(v, w) == w.st = Tail(v.st) /\ w.pd = v.pd /\ w.now = v.now /\ w.due = v.due

LEMMA PopEffect ==
    ASSUME NEW T, NEW s \in Platform(T), NEW c \in Endpoint, NEW l \in Nat, RegOk(s, l),
           s.storage[c] # <<>>
    PROVE  LET r == pop(s, c)
           IN  /\ r \in Platform(T) /\ RegOk(r, l)
               /\ r.imm_events = s.imm_events /\ r.delta = s.delta
               /\ IsPopped(View(s, l, c), View(r, l, c))
               /\ \A ch \in Endpoint \ {c} : View(r, l, ch) = View(s, l, ch)
<1> DEFINE r == pop(s, c)
           q == [s.storage EXCEPT ![c] = Tail(@)]
<1>1. s.storage \in [Endpoint -> Seq(T)]
    BY DEF Platform
<1>2. Tail(s.storage[c]) \in Seq(T)
    BY <1>1
<1>3. /\ q \in [Endpoint -> Seq(T)] /\ q[c] = Tail(s.storage[c])
      /\ \A ch \in Endpoint \ {c} : q[ch] = s.storage[ch]
    BY <1>1, <1>2
<1>4. r = [s EXCEPT !.storage = q]
    BY DEF pop, Platform
<1> HIDE DEF q, r
<1>5. /\ r \in Platform(T) /\ r.storage = q
      /\ r.pending = s.pending /\ r.imm_events = s.imm_events /\ r.delta = s.delta
      /\ r.reg_events = s.reg_events /\ r.cycles = s.cycles
    BY <1>3, <1>4 DEF Platform
<1>6. RegOk(r, l)
    BY <1>5 DEF RegOk
<1>7. \A ch : NowIn(r, ch) = NowIn(s, ch) /\ \A n : DueIn(r, n, ch) = DueIn(s, n, ch)
    BY <1>5 DEF NowIn, DueIn
<1>8. \A ch \in Endpoint \ {c} : View(r, l, ch) = View(s, l, ch)
    BY <1>3, <1>5, <1>7 DEF View
<1>9. IsPopped(View(s, l, c), View(r, l, c))
    BY <1>3, <1>5, <1>7 DEF View, IsPopped
<1> QED
    BY <1>5, <1>6, <1>8, <1>9 DEF r

-------------------------------------------------------------------------------
(* advance. *)
Come(T) == {evt \in Event(T) : evt.cycles <= 0}
ToCome(T) == {evt \in Event(T) : evt.cycles > 0}

LEMMA DuePlaces ==
    ASSUME NEW T, NEW s \in Seq(Event(T))
    PROVE  /\ among(s, due(s)) = Sel(s, Come(T)) /\ among(s, due(s)) \in Seq(Event(T))
           /\ among(s, DOMAIN s \ due(s)) = Sel(s, ToCome(T))
           /\ among(s, DOMAIN s \ due(s)) \in Seq(Event(T))
<1> DEFINE P == due(s)
           Q == DOMAIN s \ due(s)
           C == Come(T)
           D == ToCome(T)
<1>0. \A i \in 1 .. Len(s) : s[i] \in Event(T) /\ s[i].cycles \in Int
    <2>1. \A i \in 1 .. Len(s) : s[i] \in Event(T)
        OBVIOUS
    <2>2. \A e \in Event(T) : e.cycles \in Int
        BY DEF Event
    <2> QED
        BY <2>1, <2>2
<1>1. \A i \in 1 .. Len(s) : i \in P <=> s[i] \in C
    BY <1>0 DEF due, Come
<1>2. \A i \in 1 .. Len(s) : i \in Q <=> s[i] \in D
    BY <1>0 DEF due, ToCome
<1> HIDE DEF P, Q, C, D
<1>3. among(s, P) = Sel(s, C) /\ among(s, Q) = Sel(s, D)
    BY <1>1, <1>2, AmongSel
<1>4. Sel(s, C) \in Seq(Event(T) \cap C) /\ Sel(s, D) \in Seq(Event(T) \cap D)
    BY SelType
<1>5. Sel(s, C) \in Seq(Event(T)) /\ Sel(s, D) \in Seq(Event(T))
    BY <1>4
<1> QED
    BY <1>3, <1>5 DEF P, Q, C, D

(* What advance makes of a platform, its clock being at now after it. *)
Advanced(T, s, a, now) ==
    /\ a \in Platform(T) /\ now \in Bucket /\ a.cycles = now
    /\ a.imm_events = s.imm_events /\ a.delta = s.delta
    /\ \A ch \in Endpoint :
           LET evts == Sel(Sel(waited(s.reg_events[now]), Come(T)), Bound(T, ch))
           IN  /\ a.storage[ch] = s.storage[ch] \o Pkts(evts)
               /\ a.pending[ch] = s.pending[ch] - Len(evts)
    /\ \A b \in Bucket :
           a.reg_events[b] = IF b = now THEN Sel(waited(s.reg_events[b]), ToCome(T))
                             ELSE waited(s.reg_events[b])

LEMMA AdvanceIs ==
    ASSUME NEW T, NEW s \in Platform(T)
    PROVE  Advanced(T, s, advance(s), (s.cycles + 1) % WHEEL_SIZE)
<1> DEFINE now == (s.cycles + 1) % WHEEL_SIZE
           wheel == [b \in Bucket |-> waited(s.reg_events[b])]
           here == wheel[now]
           evts == among(here, due(here))
           stay == among(here, DOMAIN here \ due(here))
           f == fired(s, evts)
           g == [wheel EXCEPT ![now] = stay]
<1>1. now \in Bucket
    <2>1. s.cycles \in Bucket /\ 1 \in Nat
        BY DEF Platform
    <2> QED
        BY <2>1, NextBucket
<1>2. advance(s) = [f EXCEPT !.cycles = now, !.reg_events = g]
    BY DEF advance
<1> HIDE DEF now
<1>3. \A b \in Bucket : s.reg_events[b] \in Seq(Event(T)) /\ waited(s.reg_events[b]) \in Seq(Event(T))
    <2>1. \A b \in Bucket : s.reg_events[b] \in Seq(Event(T))
        BY DEF Platform
    <2> QED
        BY <2>1, WaitedIs
<1>4. wheel \in [Bucket -> Seq(Event(T))] /\ here = waited(s.reg_events[now])
    BY <1>1, <1>3
<1>5. here \in Seq(Event(T))
    BY <1>1, <1>3, <1>4
<1> HIDE DEF wheel, here
<1>6. /\ evts = Sel(here, Come(T)) /\ evts \in Seq(Event(T))
      /\ stay = Sel(here, ToCome(T)) /\ stay \in Seq(Event(T))
    BY <1>5, DuePlaces
<1> HIDE DEF evts, stay
<1>7. Received(T, s, evts, f)
    BY <1>6, FiredIs
<1>8. /\ g \in [Bucket -> Seq(Event(T))]
      /\ \A b \in Bucket : g[b] = IF b = now THEN stay ELSE wheel[b]
    BY <1>1, <1>4, <1>6
<1> HIDE DEF f, g
<1> DEFINE a == advance(s)
<1>9. /\ a \in Platform(T) /\ a.cycles = now /\ a.reg_events = g
      /\ a.imm_events = f.imm_events /\ a.delta = f.delta
      /\ a.storage = f.storage /\ a.pending = f.pending
    <2>1. f \in Platform(T)
        BY <1>7 DEF Received
    <2> HIDE DEF a
    <2> QED
        BY <1>1, <1>2, <1>8, <2>1 DEF Platform, a
<1> HIDE DEF a
<1>10. \A ch \in Endpoint :
           LET es == Sel(Sel(waited(s.reg_events[now]), Come(T)), Bound(T, ch))
           IN  /\ a.storage[ch] = s.storage[ch] \o Pkts(es)
               /\ a.pending[ch] = s.pending[ch] - Len(es)
    BY <1>4, <1>6, <1>7, <1>9 DEF Received
<1>11. \A b \in Bucket :
           a.reg_events[b] = IF b = now THEN Sel(waited(s.reg_events[b]), ToCome(T))
                             ELSE waited(s.reg_events[b])
    <2>1. \A b \in Bucket : wheel[b] = waited(s.reg_events[b])
        BY DEF wheel
    <2> QED
        BY <1>4, <1>6, <1>8, <1>9, <2>1
<1>12. Advanced(T, s, a, now)
    BY <1>1, <1>7, <1>9, <1>10, <1>11 DEF Advanced, Received
<1> QED
    BY <1>12 DEF a, now

(* What is due in a cycle has come in the next, and the rest is a cycle nearer. *)
LEMMA WaitedDue ==
    ASSUME NEW T, NEW q \in Seq(Event(T)), NEW n \in Nat, NEW ch
    PROVE  Sel(waited(q), DueSet(T, n, ch)) = waited(Sel(q, DueSet(T, n + 1, ch)))
<1> DEFINE S == DueSet(T, n + 1, ch)
           R == DueSet(T, n, ch)
<1>1. ASSUME NEW e \in Event(T) PROVE e \in S <=> later(e) \in R
    <2>1. later(e) \in Event(T) /\ later(e).channel = e.channel /\ later(e).cycles = e.cycles - 1
        BY LaterType
    <2>2. e.cycles \in Int
        BY DEF Event
    <2> QED
        BY <2>1, <2>2 DEF DueSet
<1> HIDE DEF S, R
<1>2. Sel(waited(q), R) = waited(Sel(q, S))
    BY <1>1, SelWaited
<1> QED
    BY <1>2 DEF S, R

LEMMA ComeDue ==
    ASSUME NEW T, NEW q \in Seq(Event(T)), \A i \in DOMAIN q : q[i].cycles >= 1, NEW ch
    PROVE  Sel(Sel(waited(q), Come(T)), Bound(T, ch)) = waited(Sel(q, DueSet(T, 1, ch)))
<1> DEFINE w == waited(q)
           S == Come(T)
           R == Bound(T, ch)
           C == S \cap R
           D == DueSet(T, 0, ch)
<1>1. w \in Seq(Event(T)) /\ Len(w) = Len(q) /\ \A i \in 1 .. Len(q) : w[i] = later(q[i])
    BY WaitedIs
<1>2. \A i \in 1 .. Len(w) : w[i] \in C <=> w[i] \in D
    <2> TAKE i \in 1 .. Len(w)
    <2>1. i \in DOMAIN q /\ q[i] \in Event(T) /\ w[i] = later(q[i]) /\ q[i].cycles >= 1
        <3> HIDE DEF w
        <3> QED
            BY <1>1
    <2>2. w[i] \in Event(T) /\ w[i].cycles = q[i].cycles - 1 /\ q[i].cycles \in Int
        <3> HIDE DEF w
        <3> QED
            BY <2>1, LaterType DEF Event
    <2> HIDE DEF w
    <2> QED
        BY <2>1, <2>2 DEF Come, Bound, DueSet
<1> HIDE DEF w, S, R
<1>3. Sel(Sel(w, S), R) = Sel(w, C)
    BY <1>1, SelSel
<1> HIDE DEF C, D
<1>4. Sel(w, C) = Sel(w, D)
    BY <1>1, <1>2, SelAgree
<1>5. Sel(waited(q), DueSet(T, 0, ch)) = waited(Sel(q, DueSet(T, 0 + 1, ch)))
    BY WaitedDue
<1>6. 0 + 1 = 1
    OBVIOUS
<1> QED
    BY <1>3, <1>4, <1>5, <1>6 DEF w, S, R, D

LEMMA ToComeDue ==
    ASSUME NEW T, NEW q \in Seq(Event(T)), NEW n \in Nat \ {0}, NEW ch
    PROVE  Sel(Sel(waited(q), ToCome(T)), DueSet(T, n, ch)) = waited(Sel(q, DueSet(T, n + 1, ch)))
<1> DEFINE w == waited(q)
           S == ToCome(T)
           D == DueSet(T, n, ch)
<1>1. w \in Seq(Event(T))
    BY WaitedIs
<1>2. S \cap D = D
    BY DEF ToCome, DueSet
<1> HIDE DEF w, S, D
<1>3. Sel(Sel(w, S), D) = Sel(w, D)
    BY <1>1, <1>2, SelSel
<1>4. Sel(waited(q), DueSet(T, n, ch)) = waited(Sel(q, DueSet(T, n + 1, ch)))
    BY WaitedDue
<1> QED
    BY <1>3, <1>4 DEF w, S, D

LEMMA RegTypes ==
    ASSUME NEW T, NEW s \in Platform(T), NEW l \in Nat, RegOk(s, l), NEW b \in Bucket
    PROVE  /\ s.reg_events[b] \in Seq(Event(T))
           /\ \A i \in DOMAIN s.reg_events[b] :
                  /\ s.reg_events[b][i] \in Event(T)
                  /\ s.reg_events[b][i].cycles \in 1 .. l
                  /\ b = (s.cycles + s.reg_events[b][i].cycles) % WHEEL_SIZE
<1>1. s.reg_events[b] \in Seq(Event(T))
    BY DEF Platform
<1>2. \A i \in DOMAIN s.reg_events[b] : s.reg_events[b][i] \in Event(T)
    BY <1>1
<1> QED
    BY <1>1, <1>2 DEF RegOk

(* No event waits longer than the delay. *)
LEMMA NoneLater ==
    ASSUME NEW T, NEW s \in Platform(T), NEW l \in Nat, RegOk(s, l), NEW ch, NEW n \in Nat, n > l
    PROVE  DueIn(s, n, ch) = <<>>
<1> DEFINE b == (s.cycles + n) % WHEEL_SIZE
           S == DueSet(T, n, ch)
<1>1. b \in Bucket
    <2>1. s.cycles \in Bucket
        BY DEF Platform
    <2> QED
        BY <2>1, NextBucket
<1>2. DueIn(s, n, ch) = Sel(s.reg_events[b], S)
    BY DueInIs
<1> HIDE DEF b
<1>3. s.reg_events[b] \in Seq(Event(T)) /\ \A i \in 1 .. Len(s.reg_events[b]) : s.reg_events[b][i] \notin S
    <2>1. /\ s.reg_events[b] \in Seq(Event(T))
          /\ \A i \in DOMAIN s.reg_events[b] : s.reg_events[b][i].cycles \in 1 .. l
        BY <1>1, RegTypes
    <2>2. \A e \in S : e.cycles = n
        BY DEF DueSet
    <2> HIDE DEF S
    <2> QED
        BY <2>1, <2>2
<1> HIDE DEF S
<1>4. Sel(s.reg_events[b], S) = <<>>
    BY <1>3, SelNone
<1> QED
    BY <1>2, <1>4

LEMMA AdvanceDue ==
    ASSUME NEW T, NEW s \in Platform(T), NEW l \in Nat, RegOk(s, l), NEW ch \in Endpoint,
           NEW n \in Nat \ {0}
    PROVE  DueIn(advance(s), n, ch) = waited(DueIn(s, n + 1, ch))
<1> DEFINE a == advance(s)
           now == (s.cycles + 1) % WHEEL_SIZE
           b == (s.cycles + (n + 1)) % WHEEL_SIZE
           R == DueSet(T, n, ch)
           S == DueSet(T, n + 1, ch)
<1>1. Advanced(T, s, a, now)
    BY AdvanceIs
<1>2. s.cycles \in Bucket /\ n \in Nat /\ n + 1 \in Nat
    BY DEF Platform
<1>3. b \in Bucket /\ (now + n) % WHEEL_SIZE = b
    <2>1. b \in Bucket
        BY <1>2, NextBucket
    <2>2. (now + n) % WHEEL_SIZE = b
        BY <1>2, NextBucket
    <2> QED
        BY <2>1, <2>2
<1>4. DueIn(s, n + 1, ch) = Sel(s.reg_events[b], S)
    BY <1>2, DueInIs
<1> HIDE DEF a, now
<1>5. a \in Platform(T) /\ a.cycles = now
    BY <1>1 DEF Advanced
<1>6. DueIn(a, n, ch) = Sel(a.reg_events[b], R)
    <2>1. DueIn(a, n, ch) = Sel(a.reg_events[(a.cycles + n) % WHEEL_SIZE], R)
        BY <1>2, <1>5, DueInIs
    <2> HIDE DEF b, R
    <2> QED
        BY <2>1, <1>3, <1>5
<1> HIDE DEF b
<1>7. s.reg_events[b] \in Seq(Event(T))
    BY <1>3, RegTypes
<1>8. Sel(a.reg_events[b], R) = waited(Sel(s.reg_events[b], S))
    <2>1. CASE b = now
        <3>1. a.reg_events[b] = Sel(waited(s.reg_events[b]), ToCome(T))
            BY <1>1, <1>3, <2>1 DEF Advanced
        <3>2. Sel(Sel(waited(s.reg_events[b]), ToCome(T)), R) = waited(Sel(s.reg_events[b], S))
            BY <1>7, ToComeDue
        <3> QED
            BY <3>1, <3>2
    <2>2. CASE b # now
        <3>1. a.reg_events[b] = waited(s.reg_events[b])
            BY <1>1, <1>3, <2>2 DEF Advanced
        <3>2. Sel(waited(s.reg_events[b]), R) = waited(Sel(s.reg_events[b], S))
            BY <1>2, <1>7, WaitedDue
        <3> QED
            BY <3>1, <3>2
    <2> QED
        BY <2>1, <2>2
<1> QED
    BY <1>4, <1>6, <1>8 DEF a

LEMMA AdvanceReg ==
    ASSUME NEW T, NEW s \in Platform(T), NEW l \in Nat, RegOk(s, l)
    PROVE  RegOk(advance(s), l)
<1> DEFINE a == advance(s)
           now == (s.cycles + 1) % WHEEL_SIZE
<1>1. Advanced(T, s, a, now)
    BY AdvanceIs
<1>2. ASSUME NEW b \in Bucket, NEW e \in Event(T), e.cycles \in 1 .. l,
             b = (s.cycles + e.cycles) % WHEEL_SIZE
      PROVE  /\ later(e) \in Event(T) /\ later(e).cycles = e.cycles - 1
             /\ b = (now + later(e).cycles) % WHEEL_SIZE
             /\ e.cycles = 1 => b = now
    <2>1. later(e) \in Event(T) /\ later(e).cycles = e.cycles - 1
        BY LaterType
    <2>2. PICK n \in Nat : e.cycles = n + 1
        <3>1. e.cycles - 1 \in Nat /\ e.cycles = (e.cycles - 1) + 1
            BY <1>2
        <3> QED
            BY <3>1
    <2>3. later(e).cycles = n
        BY <2>1, <2>2
    <2>4. s.cycles \in Bucket
        BY DEF Platform
    <2>5. (now + n) % WHEEL_SIZE = (s.cycles + (n + 1)) % WHEEL_SIZE
        BY <2>4, NextBucket
    <2> QED
        BY <1>2, <2>1, <2>2, <2>3, <2>5
<1> HIDE DEF a, now
<1>3. a.cycles = now
    BY <1>1 DEF Advanced
<1>4. ASSUME NEW b \in Bucket, NEW i \in DOMAIN a.reg_events[b]
      PROVE  /\ a.reg_events[b][i].cycles \in 1 .. l
             /\ b = (a.cycles + a.reg_events[b][i].cycles) % WHEEL_SIZE
    <2> DEFINE q == s.reg_events[b]
               w == waited(q)
               x == a.reg_events[b][i]
    <2>1. /\ q \in Seq(Event(T))
          /\ \A j \in DOMAIN q : q[j] \in Event(T) /\ q[j].cycles \in 1 .. l
                                 /\ b = (s.cycles + q[j].cycles) % WHEEL_SIZE
        BY RegTypes
    <2>2. a.reg_events[b] = IF b = now THEN Sel(w, ToCome(T)) ELSE w
        BY <1>1 DEF Advanced
    <2> HIDE DEF q
    <2>3. w \in Seq(Event(T)) /\ Len(w) = Len(q) /\ \A j \in 1 .. Len(q) : w[j] = later(q[j])
        BY <2>1, WaitedIs
    <2>4. DOMAIN w = DOMAIN q /\ DOMAIN q = 1 .. Len(q)
        <3> HIDE DEF w
        <3> QED
            BY <2>1, <2>3
    <2> HIDE DEF w
    <2>5. \E j \in DOMAIN w : x = w[j] /\ (b = now => w[j] \in ToCome(T))
        <3>1. CASE b = now
            <4>1. \A k \in DOMAIN Sel(w, ToCome(T)) :
                      \E j \in DOMAIN w : Sel(w, ToCome(T))[k] = w[j] /\ w[j] \in ToCome(T)
                BY <2>3, SelFrom
            <4> QED
                BY <1>4, <2>2, <3>1, <4>1
        <3>2. CASE b # now
            BY <1>4, <2>2, <3>2
        <3> QED
            BY <3>1, <3>2
    <2>6. PICK j \in DOMAIN q : x = later(q[j]) /\ (b = now => later(q[j]) \in ToCome(T))
        BY <2>3, <2>4, <2>5
    <2> HIDE DEF x
    <2>7. /\ later(q[j]) \in Event(T) /\ later(q[j]).cycles = q[j].cycles - 1
          /\ b = (now + later(q[j]).cycles) % WHEEL_SIZE
          /\ q[j].cycles = 1 => b = now
        BY <1>2, <2>1, <2>6
    <2>8. x.cycles = q[j].cycles - 1 /\ q[j].cycles \in 1 .. l
        BY <2>1, <2>6, <2>7
    <2>9. b = now => x.cycles > 0
        BY <2>6 DEF ToCome
    <2>10. x.cycles \in 1 .. l
        BY <2>7, <2>8, <2>9
    <2>11. b = (a.cycles + x.cycles) % WHEEL_SIZE
        BY <1>3, <2>6, <2>7
    <2> QED
        BY <2>10, <2>11 DEF x
<1>5. RegOk(a, l)
    BY <1>4 DEF RegOk
<1> QED
    BY <1>5 DEF a

IsAdvanced(v, w, l) ==
    /\ w.now = v.now
    /\ w.st = IF l = 0 THEN v.st ELSE v.st \o v.due[1]
    /\ w.pd = IF l = 0 THEN v.pd ELSE v.pd - Len(v.due[1])
    /\ \A n \in 1 .. l : w.due[n] = IF n = l THEN <<>> ELSE v.due[n + 1]

LEMMA AdvanceEffect ==
    ASSUME NEW T, NEW s \in Platform(T), NEW l \in Nat, RegOk(s, l)
    PROVE  LET a == advance(s)
           IN  /\ a \in Platform(T) /\ RegOk(a, l)
               /\ a.imm_events = s.imm_events /\ a.delta = s.delta
               /\ \A ch \in Endpoint : IsAdvanced(View(s, l, ch), View(a, l, ch), l)
<1> DEFINE a == advance(s)
           now == (s.cycles + 1) % WHEEL_SIZE
<1>1. Advanced(T, s, a, now)
    BY AdvanceIs
<1>2. RegOk(a, l)
    BY AdvanceReg
<1>3. a \in Platform(T) /\ a.imm_events = s.imm_events /\ a.delta = s.delta /\ now \in Bucket
    <2> HIDE DEF a, now
    <2> QED
        BY <1>1 DEF Advanced
<1>4. ASSUME NEW ch \in Endpoint PROVE IsAdvanced(View(s, l, ch), View(a, l, ch), l)
    <2> DEFINE q == s.reg_events[now]
    <2>1. DueIn(s, 1, ch) = Sel(q, DueSet(T, 1, ch)) /\ DueIn(s, 1, ch) \in Seq(Event(T))
        BY DueInIs
    <2>2. \A n \in Nat \ {0} : DueIn(a, n, ch) = waited(DueIn(s, n + 1, ch))
        BY AdvanceDue
    <2> HIDE DEF a, now
    <2>3. q \in Seq(Event(T)) /\ \A i \in DOMAIN q : q[i].cycles >= 1
        <3>1. q \in Seq(Event(T)) /\ \A i \in DOMAIN q : q[i].cycles \in 1 .. l
            BY <1>3, RegTypes
        <3> HIDE DEF q
        <3> QED
            BY <3>1
    <2> DEFINE evts == Sel(Sel(waited(q), Come(T)), Bound(T, ch))
    <2>4. a.storage[ch] = s.storage[ch] \o Pkts(evts) /\ a.pending[ch] = s.pending[ch] - Len(evts)
        BY <1>1 DEF Advanced
    <2> HIDE DEF q
    <2>5. evts = waited(DueIn(s, 1, ch))
        BY <2>1, <2>3, ComeDue
    <2> HIDE DEF evts
    <2>6. Pkts(evts) = Pkts(DueIn(s, 1, ch)) /\ Len(evts) = Len(DueIn(s, 1, ch))
        BY <2>1, <2>5, WaitedIs
    <2>7. Len(DueIn(s, 1, ch)) = Len(Pkts(DueIn(s, 1, ch)))
        BY <2>1, PktsType
    <2> DEFINE v == View(s, l, ch)
               w == View(a, l, ch)
    <2>8. /\ v.st = s.storage[ch] /\ v.pd = s.pending[ch] /\ v.now = Pkts(NowIn(s, ch))
          /\ w.st = a.storage[ch] /\ w.pd = a.pending[ch] /\ w.now = Pkts(NowIn(a, ch))
          /\ \A n \in 1 .. l : v.due[n] = Pkts(DueIn(s, n, ch))
          /\ \A n \in 1 .. l : w.due[n] = Pkts(DueIn(a, n, ch))
        BY DEF View
    <2>9. NowIn(a, ch) = NowIn(s, ch)
        BY <1>3 DEF NowIn
    <2> HIDE DEF v, w
    <2>10. \A n \in 1 .. l : w.due[n] = IF n = l THEN <<>> ELSE v.due[n + 1]
        <3> TAKE n \in 1 .. l
        <3>1. n \in Nat \ {0} /\ n + 1 \in Nat
            OBVIOUS
        <3>2. w.due[n] = Pkts(waited(DueIn(s, n + 1, ch)))
            BY <2>2, <2>8, <3>1
        <3>3. DueIn(s, n + 1, ch) \in Seq(Event(T))
            BY <3>1, DueInIs
        <3>4. w.due[n] = Pkts(DueIn(s, n + 1, ch))
            BY <3>2, <3>3, WaitedIs
        <3>5. CASE n = l
            <4>1. DueIn(s, n + 1, ch) = <<>>
                <5>1. n + 1 > l
                    BY <3>5
                <5> QED
                    BY <3>1, <5>1, NoneLater
            <4>2. Pkts(<<>>) = <<>>
                BY DEF Pkts
            <4> QED
                BY <3>4, <3>5, <4>1, <4>2
        <3>6. CASE n # l
            <4>1. n + 1 \in 1 .. l
                BY <3>6
            <4> QED
                BY <2>8, <3>4, <3>6, <4>1
        <3> QED
            BY <3>5, <3>6
    <2>11. CASE l = 0
        <3>1. DueIn(s, 1, ch) = <<>>
            <4>1. 1 \in Nat /\ 1 > l
                BY <2>11
            <4> QED
                BY <4>1, NoneLater
        <3>2. Pkts(<<>>) = <<>> /\ Len(<<>>) = 0
            BY DEF Pkts
        <3>3. s.storage[ch] \in Seq(T) /\ s.pending[ch] \in Int
            BY DEF Platform
        <3>4. w.st = v.st
            <4>1. s.storage[ch] \o <<>> = s.storage[ch]
                BY <3>3, ConcatEmpty
            <4> QED
                BY <2>4, <2>6, <2>8, <3>1, <3>2, <4>1
        <3>5. w.pd = v.pd
            BY <2>4, <2>6, <2>8, <3>1, <3>2, <3>3
        <3> QED
            BY <2>8, <2>9, <2>10, <2>11, <3>4, <3>5 DEF IsAdvanced, v, w
    <2>12. CASE l # 0
        <3>1. 1 \in 1 .. l
            BY <2>12
        <3>2. v.due[1] = Pkts(DueIn(s, 1, ch))
            BY <2>8, <3>1
        <3> QED
            BY <2>4, <2>6, <2>7, <2>8, <2>9, <2>10, <2>12, <3>2 DEF IsAdvanced, v, w
    <2> QED
        BY <2>11, <2>12 DEF v, w
<1> QED
    BY <1>2, <1>3, <1>4

-------------------------------------------------------------------------------
(* and fire_immediate_events. *)

(* Lists of one and two. *)
LEMMA AppendIs ==
    ASSUME NEW T, NEW p \in Seq(T), NEW b \in T
    PROVE  /\ Append(p, b) \in Seq(T) /\ Len(Append(p, b)) = Len(p) + 1
           /\ Append(p, b)[Len(p) + 1] = b /\ \A i \in 1 .. Len(p) : Append(p, b)[i] = p[i]
OBVIOUS

LEMMA ConcatLen ==
    ASSUME NEW T, NEW p \in Seq(T), NEW q \in Seq(T)
    PROVE  Len(p \o q) = Len(p) + Len(q)
OBVIOUS

LEMMA ConcatOnes ==
    ASSUME NEW T, NEW p \in Seq(T), NEW q \in Seq(T), Len(p) = 1, Len(q) = 1
    PROVE  p \o q \in Seq(T) /\ Len(p \o q) = 2 /\ (p \o q)[1] = p[1] /\ (p \o q)[2] = q[1]
<1>1. p \o q \in Seq(T)
    OBVIOUS
<1>2. Len(p \o q) = Len(p) + Len(q)
    BY ConcatLen
<1>3. (p \o q)[1] = p[1] /\ (p \o q)[2] = q[1]
    OBVIOUS
<1> QED
    BY <1>1, <1>2, <1>3

LEMMA PairLists ==
    ASSUME NEW a, NEW b
    PROVE  /\ Append(<<a>>, b) = <<a, b>> /\ <<a>> \o <<b>> = <<a, b>>
           /\ Append(<<>>, b) = <<b>>
<1> DEFINE T == {a, b}
           p == <<a>>
           q == <<a, b>>
           r == Append(p, b)
           o == p \o <<b>>
<1>1. a \in T /\ b \in T
    OBVIOUS
<1>2. p \in Seq(T) /\ Len(p) = 1 /\ p[1] = a /\ <<b>> \in Seq(T) /\ Len(<<b>>) = 1 /\ <<b>>[1] = b
    BY <1>1
<1>3. q \in Seq(T) /\ Len(q) = 2 /\ q[1] = a /\ q[2] = b
    BY <1>1
<1> HIDE DEF T, p, q
<1>4. r \in Seq(T) /\ Len(r) = 2 /\ r[1] = a /\ r[2] = b
    <2>1. r \in Seq(T) /\ Len(r) = Len(p) + 1 /\ r[Len(p) + 1] = b
        BY <1>1, <1>2, AppendIs, ZenonT(60)
    <2>2. \A i \in 1 .. Len(p) : r[i] = p[i]
        BY <1>1, <1>2, AppendIs
    <2>3. 1 \in 1 .. Len(p) /\ Len(p) + 1 = 2
        BY <1>2
    <2> HIDE DEF r
    <2> QED
        BY <1>2, <2>1, <2>2, <2>3
<1>5. o \in Seq(T) /\ Len(o) = 2 /\ o[1] = a /\ o[2] = b
    <2> DEFINE t == <<b>>
    <2>1. t \in Seq(T) /\ Len(t) = 1 /\ t[1] = b
        BY <1>2
    <2> HIDE DEF t
    <2>2. p \o t \in Seq(T) /\ Len(p \o t) = 2 /\ (p \o t)[1] = p[1] /\ (p \o t)[2] = t[1]
        BY <1>2, <2>1, ConcatOnes
    <2> QED
        BY <1>2, <2>1, <2>2 DEF t
<1> HIDE DEF r, o
<1>6. r = q
    BY <1>3, <1>4
<1>7. o = q
    BY <1>3, <1>5
<1>8. Append(<<>>, b) = <<b>>
    OBVIOUS
<1> QED
    BY <1>6, <1>7, <1>8 DEF r, o, q, p

LEMMA SelOne ==
    ASSUME NEW T, NEW a \in T, NEW S
    PROVE  Sel(<<a>>, S) = IF a \in S THEN <<a>> ELSE <<>>
<1>1. <<>> \in Seq(T) /\ Append(<<>>, a) = <<a>>
    OBVIOUS
<1>2. Sel(Append(<<>>, a), S) = IF a \in S THEN Append(Sel(<<>>, S), a) ELSE Sel(<<>>, S)
    BY <1>1, SelAppend
<1> QED
    BY <1>1, <1>2, SelEmpty

LEMMA SelTwo ==
    ASSUME NEW T, NEW a \in T, NEW b \in T, NEW S
    PROVE  Sel(<<a, b>>, S) = IF a \in S THEN (IF b \in S THEN <<a, b>> ELSE <<a>>)
                              ELSE IF b \in S THEN <<b>> ELSE <<>>
<1>1. <<a>> \in Seq(T) /\ Append(<<a>>, b) = <<a, b>> /\ Append(<<>>, b) = <<b>>
    <2>1. <<a>> \in Seq(T)
        OBVIOUS
    <2>2. Append(<<a>>, b) = <<a, b>> /\ Append(<<>>, b) = <<b>>
        BY PairLists
    <2> QED
        BY <2>1, <2>2
<1>2. Sel(Append(<<a>>, b), S) = IF b \in S THEN Append(Sel(<<a>>, S), b) ELSE Sel(<<a>>, S)
    BY <1>1, SelAppend, ZenonT(60)
<1>3. Sel(<<a>>, S) = IF a \in S THEN <<a>> ELSE <<>>
    BY SelOne
<1> QED
    BY <1>1, <1>2, <1>3

Numbered(T, n) == {evt \in Event(T) : evt.cycles = n}

LEMMA NumberedIs ==
    ASSUME NEW T, NEW s \in Seq(Event(T)), NEW n
    PROVE  numbered(s, n) = Sel(s, Numbered(T, n))
<1> DEFINE P == {i \in DOMAIN s : s[i].cycles = n}
           S == Numbered(T, n)
<1>1. \A i \in 1 .. Len(s) : i \in P <=> s[i] \in S
    BY DEF Numbered
<1>2. numbered(s, n) = among(s, P)
    BY DEF numbered
<1> HIDE DEF P, S
<1>3. among(s, P) = Sel(s, S)
    BY <1>1, AmongSel
<1> QED
    BY <1>2, <1>3 DEF S

(* What has been sent without delay before the events are fired: at most two
   packets, the later first, on different channels. *)
ImmOk(T, s) ==
    \/ s.imm_events = <<>> /\ s.delta = 0
    \/ \E e \in Event(T) : s.imm_events = <<e>> /\ s.delta = 1 /\ e.cycles = 0
    \/ \E e \in Event(T), f \in Event(T) :
           /\ s.imm_events = <<f, e>> /\ s.delta = 2 /\ e.cycles = 0 /\ f.cycles = 1
           /\ endpoint(e.channel) # endpoint(f.channel)

Batch(s) == FlattenSeq([n \in 1 .. s.delta |-> numbered(s.imm_events, n - 1)])

LEMMA FlatOne ==
    ASSUME NEW T, NEW a \in Seq(T)
    PROVE  FlattenSeq(<<a>>) = a
<1>1. <<>> \in Seq(Seq(T)) /\ Append(<<>>, a) = <<a>>
    OBVIOUS
<1>2. FlattenSeq(Append(<<>>, a)) = FlattenSeq(<<>>) \o a
    BY <1>1, FlatAppend
<1>3. <<>> \o a = a
    BY ConcatEmpty
<1> QED
    BY <1>1, <1>2, <1>3, FlatEmpty

LEMMA BatchIs ==
    ASSUME NEW T, NEW s \in Platform(T), ImmOk(T, s)
    PROVE  /\ Batch(s) \in Seq(Event(T))
           /\ \A ch : Sel(Batch(s), Bound(T, ch)) = Sel(s.imm_events, Bound(T, ch))
           /\ \A i \in DOMAIN s.imm_events : s.imm_events[i].cycles < s.delta
<1>1. CASE s.imm_events = <<>> /\ s.delta = 0
    <2>1. [n \in 1 .. 0 |-> numbered(s.imm_events, n - 1)] = <<>>
        OBVIOUS
    <2>2. Batch(s) = <<>>
        BY <1>1, <2>1, FlatEmpty DEF Batch
    <2>3. <<>> \in Seq(Event(T))
        OBVIOUS
    <2> QED
        BY <1>1, <2>2, <2>3
<1>2. ASSUME NEW e \in Event(T), s.imm_events = <<e>>, s.delta = 1, e.cycles = 0
      PROVE  /\ Batch(s) = <<e>> /\ Batch(s) \in Seq(Event(T))
             /\ \A i \in DOMAIN s.imm_events : s.imm_events[i].cycles < s.delta
    <2>1. s.imm_events \in Seq(Event(T)) /\ <<e>> \in Seq(Event(T))
        BY DEF Platform
    <2>2. numbered(s.imm_events, 0) = Sel(s.imm_events, Numbered(T, 0))
        BY <2>1, NumberedIs
    <2>3. Sel(<<e>>, Numbered(T, 0)) = IF e \in Numbered(T, 0) THEN <<e>> ELSE <<>>
        BY SelOne
    <2>4. e \in Numbered(T, 0)
        BY <1>2 DEF Numbered
    <2>5. numbered(s.imm_events, 0) = <<e>>
        BY <1>2, <2>2, <2>3, <2>4
    <2>6. [n \in 1 .. 1 |-> numbered(s.imm_events, n - 1)] = <<numbered(s.imm_events, 0)>>
        OBVIOUS
    <2>7. Batch(s) = FlattenSeq(<< <<e>> >>)
        BY <1>2, <2>5, <2>6 DEF Batch
    <2>8. Batch(s) = <<e>>
        BY <2>1, <2>7, FlatOne
    <2> QED
        BY <1>2, <2>1, <2>8
<1>3. ASSUME NEW e \in Event(T), NEW f \in Event(T), s.imm_events = <<f, e>>, s.delta = 2,
             e.cycles = 0, f.cycles = 1
      PROVE  /\ Batch(s) = <<e, f>> /\ Batch(s) \in Seq(Event(T))
             /\ \A i \in DOMAIN s.imm_events : s.imm_events[i].cycles < s.delta
    <2>1. s.imm_events \in Seq(Event(T)) /\ <<e>> \in Seq(Event(T)) /\ <<f>> \in Seq(Event(T))
        BY DEF Platform
    <2>2. /\ numbered(s.imm_events, 0) = Sel(s.imm_events, Numbered(T, 0))
          /\ numbered(s.imm_events, 1) = Sel(s.imm_events, Numbered(T, 1))
        BY <2>1, NumberedIs
    <2>3. e \in Numbered(T, 0) /\ f \notin Numbered(T, 0) /\ f \in Numbered(T, 1) /\ e \notin Numbered(T, 1)
        BY <1>3 DEF Numbered
    <2>4. Sel(<<f, e>>, Numbered(T, 0)) = <<e>>
        BY <2>3, SelTwo
    <2>5. Sel(<<f, e>>, Numbered(T, 1)) = <<f>>
        BY <2>3, SelTwo
    <2>6. numbered(s.imm_events, 0) = <<e>> /\ numbered(s.imm_events, 1) = <<f>>
        BY <1>3, <2>2, <2>4, <2>5
    <2>7. [n \in 1 .. 2 |-> numbered(s.imm_events, n - 1)]
              = <<numbered(s.imm_events, 0), numbered(s.imm_events, 1)>>
        OBVIOUS
    <2>8. Batch(s) = FlattenSeq(<< <<e>>, <<f>> >>)
        BY <1>3, <2>6, <2>7 DEF Batch
    <2>9. FlattenSeq(Append(<< <<e>> >>, <<f>>)) = FlattenSeq(<< <<e>> >>) \o <<f>>
        <3>1. << <<e>> >> \in Seq(Seq(Event(T)))
            BY <2>1
        <3> QED
            BY <2>1, <3>1, FlatAppend
    <2>10. FlattenSeq(<< <<e>> >>) = <<e>>
        BY <2>1, FlatOne
    <2>11. Append(<< <<e>> >>, <<f>>) = << <<e>>, <<f>> >> /\ <<e>> \o <<f>> = <<e, f>>
        BY PairLists
    <2>12. Batch(s) = <<e, f>>
        BY <2>8, <2>9, <2>10, <2>11
    <2>13. <<e, f>> \in Seq(Event(T))
        OBVIOUS
    <2>14. \A i \in DOMAIN s.imm_events : s.imm_events[i].cycles < s.delta
        BY <1>3
    <2> QED
        BY <2>12, <2>13, <2>14
<1>4. ASSUME NEW e \in Event(T), NEW f \in Event(T), endpoint(e.channel) # endpoint(f.channel), NEW ch
      PROVE  Sel(<<e, f>>, Bound(T, ch)) = Sel(<<f, e>>, Bound(T, ch))
    <2>1. ~ (e \in Bound(T, ch) /\ f \in Bound(T, ch))
        BY <1>4 DEF Bound
    <2> DEFINE B == Bound(T, ch)
    <2> HIDE DEF B
    <2>2. /\ Sel(<<e, f>>, B) = IF e \in B THEN (IF f \in B THEN <<e, f>> ELSE <<e>>)
                                ELSE IF f \in B THEN <<f>> ELSE <<>>
          /\ Sel(<<f, e>>, B) = IF f \in B THEN (IF e \in B THEN <<f, e>> ELSE <<f>>)
                                ELSE IF e \in B THEN <<e>> ELSE <<>>
        BY SelTwo
    <2> QED
        BY <2>1, <2>2 DEF B
<1>5. CASE \E e \in Event(T) : s.imm_events = <<e>> /\ s.delta = 1 /\ e.cycles = 0
    BY <1>2, <1>5
<1>6. CASE \E e \in Event(T), f \in Event(T) :
           /\ s.imm_events = <<f, e>> /\ s.delta = 2 /\ e.cycles = 0 /\ f.cycles = 1
           /\ endpoint(e.channel) # endpoint(f.channel)
    BY <1>3, <1>4, <1>6, ZenonT(60)
<1> QED
    BY <1>1, <1>5, <1>6 DEF ImmOk

IsArrived(v, w) ==
    /\ w.st = v.st \o v.now /\ w.pd = v.pd - Len(v.now)
    /\ w.now = <<>> /\ w.due = v.due

LEMMA FireEffect ==
    ASSUME NEW T, NEW s \in Platform(T), NEW l \in Nat, RegOk(s, l), ImmOk(T, s)
    PROVE  LET r == fire_immediate_events(s)
           IN  /\ r \in Platform(T) /\ RegOk(r, l) /\ r.imm_events = <<>> /\ r.delta = 0
               /\ \A ch \in Endpoint : IsArrived(View(s, l, ch), View(r, l, ch))
<1> DEFINE r == fire_immediate_events(s)
           f == fired(s, Batch(s))
           P == {i \in DOMAIN f.imm_events : f.imm_events[i].cycles >= s.delta}
           m == among(f.imm_events, P)
<1>1. /\ Batch(s) \in Seq(Event(T))
      /\ \A ch : Sel(Batch(s), Bound(T, ch)) = Sel(s.imm_events, Bound(T, ch))
      /\ \A i \in DOMAIN s.imm_events : s.imm_events[i].cycles < s.delta
    BY BatchIs
<1>2. Received(T, s, Batch(s), f)
    BY <1>1, FiredIs
<1>3. r = [f EXCEPT !.imm_events = m, !.delta = 0]
    BY DEF fire_immediate_events, Batch
<1> HIDE DEF f, r
<1>4. f \in Platform(T) /\ f.imm_events = s.imm_events /\ s.imm_events \in Seq(Event(T)) /\ s.delta \in Nat
    BY <1>2 DEF Received, Platform
<1>5. m = <<>>
    <2>1. \A i \in 1 .. Len(s.imm_events) : s.imm_events[i].cycles \in Int
        <3>1. \A i \in 1 .. Len(s.imm_events) : s.imm_events[i] \in Event(T)
            BY <1>4
        <3>2. \A e \in Event(T) : e.cycles \in Int
            BY DEF Event
        <3> QED
            BY <3>1, <3>2
    <2>2. \A i \in 1 .. Len(s.imm_events) : i \in P <=> s.imm_events[i] \in {}
        BY <1>1, <1>4, <2>1
    <2> HIDE DEF P
    <2>3. among(s.imm_events, P) = Sel(s.imm_events, {})
        BY <1>4, <2>2, AmongSel
    <2>4. Sel(s.imm_events, {}) = <<>>
        BY <1>4, SelNone
    <2> QED
        BY <1>4, <2>3, <2>4
<1> HIDE DEF m
<1>6. /\ r \in Platform(T) /\ r.imm_events = <<>> /\ r.delta = 0
      /\ r.storage = f.storage /\ r.pending = f.pending
      /\ r.reg_events = f.reg_events /\ r.cycles = f.cycles
    <2>1. <<>> \in Seq(Event(T)) /\ 0 \in Nat
        OBVIOUS
    <2> QED
        BY <1>3, <1>4, <1>5, <2>1 DEF Platform
<1>7. r.reg_events = s.reg_events /\ r.cycles = s.cycles
    BY <1>2, <1>6 DEF Received
<1>8. RegOk(r, l)
    BY <1>7 DEF RegOk
<1>9. ASSUME NEW ch \in Endpoint PROVE IsArrived(View(s, l, ch), View(r, l, ch))
    <2> DEFINE q == NowIn(s, ch)
    <2>1. q = Sel(s.imm_events, Bound(T, ch)) /\ q \in Seq(Event(T))
        BY NowIs
    <2>2. r.storage[ch] = s.storage[ch] \o Pkts(q) /\ r.pending[ch] = s.pending[ch] - Len(q)
        BY <1>1, <1>2, <1>6, <2>1 DEF Received
    <2>3. Len(Pkts(q)) = Len(q)
        BY <2>1, PktsType
    <2>4. NowIn(r, ch) = <<>>
        BY <1>6, AmongEmpty DEF NowIn
    <2>5. Pkts(<<>>) = <<>>
        BY DEF Pkts
    <2>6. \A n : DueIn(r, n, ch) = DueIn(s, n, ch)
        BY <1>7 DEF DueIn
    <2>7. [n \in 1 .. l |-> Pkts(DueIn(r, n, ch))] = [n \in 1 .. l |-> Pkts(DueIn(s, n, ch))]
        BY <2>6
    <2>8. /\ View(s, l, ch).st = s.storage[ch] /\ View(s, l, ch).pd = s.pending[ch]
          /\ View(s, l, ch).now = Pkts(q)
          /\ View(s, l, ch).due = [n \in 1 .. l |-> Pkts(DueIn(s, n, ch))]
          /\ View(r, l, ch).st = r.storage[ch] /\ View(r, l, ch).pd = r.pending[ch]
          /\ View(r, l, ch).now = Pkts(NowIn(r, ch))
          /\ View(r, l, ch).due = [n \in 1 .. l |-> Pkts(DueIn(r, n, ch))]
        BY DEF View
    <2> HIDE DEF q
    <2> QED
        BY <2>2, <2>3, <2>4, <2>5, <2>7, <2>8 DEF IsArrived
<1> QED
    BY <1>6, <1>8, <1>9 DEF r

-------------------------------------------------------------------------------
(* The operations on a view as operations on all that was sent. *)

(* What is on the way to a channel, the next to arrive first, and everything it
   holds and will hold. *)
Way(v) == v.now \o FlattenSeq(v.due)
All(v) == v.st \o Way(v)

LEMMA EqualSeq ==
    ASSUME NEW T, NEW s \in Seq(T), NEW t \in Seq(T), Len(s) = Len(t),
           \A i \in 1 .. Len(s) : s[i] = t[i]
    PROVE  s = t
OBVIOUS

LEMMA ConcatIs ==
    ASSUME NEW T, NEW a \in Seq(T), NEW b \in Seq(T)
    PROVE  /\ a \o b \in Seq(T) /\ Len(a \o b) = Len(a) + Len(b) /\ Len(a) \in Nat /\ Len(b) \in Nat
           /\ \A i \in 1 .. Len(a) + Len(b) : (a \o b)[i] = IF i <= Len(a) THEN a[i] ELSE b[i - Len(a)]
OBVIOUS

LEMMA ViewParts ==
    ASSUME NEW T, NEW l, NEW v \in Views(T, l)
    PROVE  /\ v.st \in Seq(T) /\ v.pd \in Int /\ v.now \in Seq(T)
           /\ v.due \in Seq(Seq(T)) /\ Len(v.due) = l
BY DEF Views

LEMMA WayType ==
    ASSUME NEW T, NEW l, NEW v \in Views(T, l)
    PROVE  Way(v) \in Seq(T) /\ All(v) \in Seq(T) /\ FlattenSeq(v.due) \in Seq(T)
           /\ Len(Way(v)) = Len(v.now) + Len(FlattenSeq(v.due)) /\ Len(All(v)) = Len(v.st) + Len(Way(v))
<1>1. v.st \in Seq(T) /\ v.now \in Seq(T) /\ FlattenSeq(v.due) \in Seq(T)
    BY ViewParts, FlatType
<1>2. PICK a \in Seq(T), b \in Seq(T), c \in Seq(T) : a = v.st /\ b = v.now /\ c = FlattenSeq(v.due)
    BY <1>1
<1>3. b \o c \in Seq(T) /\ Len(b \o c) = Len(b) + Len(c)
    BY ConcatLen
<1>4. Way(v) = b \o c /\ All(v) = a \o Way(v)
    BY <1>2 DEF Way, All
<1>5. a \o Way(v) \in Seq(T) /\ Len(a \o Way(v)) = Len(a) + Len(Way(v))
    <2>1. Way(v) \in Seq(T)
        BY <1>3, <1>4
    <2> QED
        BY <2>1, ConcatLen
<1> QED
    BY <1>1, <1>2, <1>3, <1>4, <1>5

LEMMA SameParts ==
    ASSUME NEW T, NEW l, NEW v \in Views(T, l), NEW w \in Views(T, l),
           w.st = v.st, w.pd = v.pd, w.now = v.now, w.due = v.due
    PROVE  w = v
BY DEF Views

(* Nothing on the way with no delay: only what was sent in this tick. *)
LEMMA WayAtOnce ==
    ASSUME NEW T, NEW v \in Views(T, 0)
    PROVE  v.due = <<>> /\ Way(v) = v.now
<1>1. v.due = <<>>
    BY ViewParts
<1>2. v.now \o <<>> = v.now
    BY ViewParts, ConcatEmpty
<1> QED
    BY <1>1, <1>2, FlatEmpty DEF Way

(* The last of the cycles that events wait. *)
LEMMA DueLast ==
    ASSUME NEW T, NEW l \in Nat \ {0}, NEW v \in Views(T, l)
    PROVE  \E f \in Seq(Seq(T)) : /\ Len(f) = l - 1 /\ v.due = Append(f, v.due[l])
                                  /\ \A n \in 1 .. l - 1 : f[n] = v.due[n]
<1>1. v.due \in Seq(Seq(T)) /\ Len(v.due) = l
    BY ViewParts
<1>2. PICK d \in Seq(Seq(T)) : d = v.due
    BY <1>1
<1> DEFINE S == Seq(T)
<1>3. d \in Seq(S) /\ d # <<>> /\ Len(d) = l
    BY <1>1, <1>2
<1> HIDE DEF S
<1>4. PICK f \in Seq(S), e \in S : Len(f) = l - 1 /\ d = Append(f, e)
    BY <1>3, SplitEnd, ZenonT(60)
<1>5. d[Len(f) + 1] = e /\ \A n \in 1 .. Len(f) : d[n] = f[n]
    BY <1>4, AppendIs
<1>6. Len(f) + 1 = l
    BY <1>4
<1> QED
    BY <1>2, <1>4, <1>5, <1>6 DEF S

LEMMA WaySent ==
    ASSUME NEW T, NEW l \in Nat, NEW v \in Views(T, l), NEW w \in Views(T, l), NEW x \in T,
           MaySend(v, l), IsSent(v, w, x, l)
    PROVE  Way(w) = Append(Way(v), x) /\ All(w) = Append(All(v), x)
<1>1. Way(w) = Append(Way(v), x)
    <2>1. CASE l = 0
        <3>1. v \in Views(T, 0) /\ w \in Views(T, 0)
            BY <2>1
        <3>2. Way(w) = w.now /\ Way(v) = v.now
            BY <3>1, WayAtOnce
        <3>3. v.now = <<>> /\ w.now = <<x>>
            BY <2>1 DEF MaySend, IsSent
        <3> QED
            BY <3>2, <3>3, PairLists
    <2>2. CASE l # 0
        <3>1. l \in Nat \ {0} /\ l \in 1 .. l
            BY <2>2
        <3>2. PICK f \in Seq(Seq(T)) : /\ Len(f) = l - 1 /\ v.due = Append(f, v.due[l])
                                       /\ \A n \in 1 .. l - 1 : f[n] = v.due[n]
            BY <3>1, DueLast, ZenonT(60)
        <3>3. PICK g \in Seq(Seq(T)) : /\ Len(g) = l - 1 /\ w.due = Append(g, w.due[l])
                                       /\ \A n \in 1 .. l - 1 : g[n] = w.due[n]
            BY <3>1, DueLast, ZenonT(60)
        <3>4. v.due[l] = <<>> /\ w.due[l] = <<x>> /\ w.now = v.now
            BY <2>2, <3>1 DEF MaySend, IsSent
        <3>5. f = g
            <4>1. \A n \in 1 .. l - 1 : w.due[n] = v.due[n]
                <5>1. \A n \in 1 .. l - 1 : n \in 1 .. l /\ n # l
                    BY <3>1
                <5>2. \A n \in 1 .. l : n # l => w.due[n] = v.due[n]
                    BY DEF IsSent
                <5> QED
                    BY <5>1, <5>2
            <4> QED
                <5>1. Len(f) = Len(g) /\ Len(f) = l - 1 /\ \A n \in 1 .. l - 1 : f[n] = g[n]
                    BY <3>2, <3>3, <4>1
                <5> DEFINE S == Seq(T)
                <5>2. f \in Seq(S) /\ g \in Seq(S)
                    BY <3>2, <3>3
                <5> HIDE DEF S
                <5> QED
                    BY <5>1, <5>2, EqualSeq
        <3>6. FlattenSeq(v.due) = FlattenSeq(f)
            <4>1. <<>> \in Seq(T) /\ FlattenSeq(f) \in Seq(T)
                BY FlatType
            <4>2. FlattenSeq(Append(f, <<>>)) = FlattenSeq(f) \o <<>>
                BY <4>1, FlatAppend
            <4>3. FlattenSeq(f) \o <<>> = FlattenSeq(f)
                BY <4>1, ConcatEmpty
            <4> QED
                BY <3>2, <3>4, <4>2, <4>3
        <3>7. FlattenSeq(w.due) = FlattenSeq(f) \o <<x>>
            <4>1. <<x>> \in Seq(T)
                OBVIOUS
            <4>2. FlattenSeq(Append(f, <<x>>)) = FlattenSeq(f) \o <<x>>
                BY <4>1, FlatAppend
            <4> QED
                BY <3>3, <3>4, <3>5, <4>2
        <3>8. PICK a \in Seq(T), b \in Seq(T) : a = v.now /\ b = FlattenSeq(f)
            BY FlatType, ViewParts
        <3>9. b \o <<x>> = Append(b, x) /\ a \o Append(b, x) = Append(a \o b, x)
            BY ConcatAppend
        <3>10. Way(v) = a \o b /\ Way(w) = a \o (b \o <<x>>)
            BY <3>4, <3>6, <3>7, <3>8 DEF Way
        <3> QED
            BY <3>9, <3>10
    <2> QED
        BY <2>1, <2>2
<1>2. PICK a \in Seq(T), b \in Seq(T) : a = v.st /\ b = Way(v)
    BY ViewParts, WayType
<1>3. a \o Append(b, x) = Append(a \o b, x)
    BY ConcatAppend
<1>4. w.st = a
    BY <1>2 DEF IsSent
<1>5. All(w) = Append(All(v), x)
    BY <1>1, <1>2, <1>3, <1>4 DEF All
<1> QED
    BY <1>1, <1>5

LEMMA WayArrived ==
    ASSUME NEW T, NEW l \in Nat, NEW v \in Views(T, l), NEW w \in Views(T, l), IsArrived(v, w)
    PROVE  All(w) = All(v) /\ Len(Way(w)) = Len(Way(v)) - Len(v.now)
<1>1. PICK a \in Seq(T), b \in Seq(T), c \in Seq(T) :
          a = v.st /\ b = v.now /\ c = FlattenSeq(v.due)
    BY ViewParts, WayType
<1>2. w.st = a \o b /\ w.now = <<>> /\ FlattenSeq(w.due) = c
    BY <1>1 DEF IsArrived
<1>3. <<>> \o c = c
    BY ConcatEmpty
<1>4. Way(w) = c /\ Way(v) = b \o c
    BY <1>1, <1>2, <1>3 DEF Way
<1>5. (a \o b) \o c = a \o (b \o c)
    BY ConcatAssoc, SMTT(60)
<1>6. All(w) = All(v)
    BY <1>1, <1>2, <1>4, <1>5 DEF All
<1>7. Len(b \o c) = Len(b) + Len(c) /\ Len(b) \in Nat /\ Len(c) \in Nat
    BY ConcatLen
<1>8. Len(Way(w)) = Len(Way(v)) - Len(v.now)
    BY <1>1, <1>4, <1>7
<1> QED
    BY <1>6, <1>8

LEMMA TailConcat ==
    ASSUME NEW T, NEW a \in Seq(T), NEW b \in Seq(T), a # <<>>
    PROVE  Tail(a \o b) = Tail(a) \o b /\ a \o b # <<>> /\ Head(a \o b) = Head(a)
<1> DEFINE c == a \o b
           t == Tail(a)
           p == Tail(c)
           q == t \o b
<1>1. /\ c \in Seq(T) /\ Len(c) = Len(a) + Len(b) /\ Len(a) \in Nat /\ Len(b) \in Nat
      /\ \A i \in 1 .. Len(a) + Len(b) : c[i] = IF i <= Len(a) THEN a[i] ELSE b[i - Len(a)]
    OBVIOUS
<1>2. Len(a) # 0
    OBVIOUS
<1>3. t \in Seq(T) /\ Len(t) = Len(a) - 1 /\ Head(a) = a[1] /\ \A i \in 1 .. Len(a) - 1 : t[i] = a[i + 1]
    BY SplitHead
<1> HIDE DEF c, t
<1>4. c # <<>>
    BY <1>1, <1>2
<1>5. p \in Seq(T) /\ Len(p) = Len(c) - 1 /\ Head(c) = c[1] /\ \A i \in 1 .. Len(c) - 1 : p[i] = c[i + 1]
    BY <1>1, <1>4, SplitHead
<1>6. /\ q \in Seq(T) /\ Len(q) = Len(t) + Len(b)
      /\ \A i \in 1 .. Len(t) + Len(b) : q[i] = IF i <= Len(t) THEN t[i] ELSE b[i - Len(t)]
    BY <1>3, ConcatIs
<1> HIDE DEF p, q
<1>7. ASSUME NEW i \in 1 .. Len(p) PROVE p[i] = q[i]
    <2>1. i \in 1 .. Len(c) - 1 /\ p[i] = c[i + 1]
        BY <1>1, <1>2, <1>5, <1>7
    <2>2. i + 1 \in 1 .. Len(a) + Len(b) /\ i \in 1 .. Len(t) + Len(b)
        BY <1>1, <1>2, <1>3, <2>1
    <2>3. CASE i <= Len(t)
        <3>1. i \in 1 .. Len(a) - 1 /\ i + 1 <= Len(a)
            BY <1>1, <1>3, <2>1, <2>3
        <3> QED
            BY <1>1, <1>3, <1>6, <2>1, <2>2, <2>3, <3>1
    <2>4. CASE ~ (i <= Len(t))
        <3>1. ~ (i + 1 <= Len(a)) /\ i + 1 - Len(a) = i - Len(t)
            BY <1>1, <1>3, <2>1, <2>4
        <3>2. c[i + 1] = b[i + 1 - Len(a)] /\ q[i] = b[i - Len(t)]
            BY <1>1, <1>6, <2>2, <2>4, <3>1
        <3> QED
            BY <2>1, <3>1, <3>2
    <2> QED
        BY <2>3, <2>4
<1>8. Len(p) = Len(q)
    BY <1>1, <1>2, <1>3, <1>5, <1>6
<1>9. p = q
    BY <1>5, <1>6, <1>7, <1>8
<1>10. c[1] = a[1]
    BY <1>1, <1>2
<1> QED
    BY <1>3, <1>4, <1>5, <1>9, <1>10 DEF p, q, c, t

LEMMA WayPopped ==
    ASSUME NEW T, NEW l \in Nat, NEW v \in Views(T, l), NEW w \in Views(T, l), IsPopped(v, w),
           v.st # <<>>
    PROVE  Way(w) = Way(v) /\ All(w) = Tail(All(v)) /\ All(v) # <<>> /\ Head(All(v)) = Head(v.st)
<1>1. PICK a \in Seq(T), b \in Seq(T) : a = v.st /\ b = Way(v)
    BY ViewParts, WayType
<1>2. Way(w) = b /\ w.st = Tail(a)
    BY <1>1 DEF IsPopped, Way
<1>3. a # <<>>
    BY <1>1
<1>4. Tail(a \o b) = Tail(a) \o b /\ a \o b # <<>> /\ Head(a \o b) = Head(a)
    BY <1>3, TailConcat
<1> QED
    BY <1>1, <1>2, <1>4 DEF All

LEMMA WayAdvanced ==
    ASSUME NEW T, NEW l \in Nat, NEW v \in Views(T, l), NEW w \in Views(T, l), IsAdvanced(v, w, l),
           v.now = <<>>
    PROVE  /\ All(w) = All(v)
           /\ Len(Way(w)) = IF l = 0 THEN Len(Way(v)) ELSE Len(Way(v)) - Len(v.due[1])
<1>1. CASE l = 0
    <2>1. v \in Views(T, 0) /\ w \in Views(T, 0)
        BY <1>1
    <2>2. Way(v) = v.now /\ Way(w) = w.now
        BY <2>1, WayAtOnce
    <2>3. w.now = v.now /\ w.st = v.st
        BY <1>1 DEF IsAdvanced
    <2> QED
        BY <1>1, <2>2, <2>3 DEF All
<1>2. CASE l # 0
    <2>1. l \in Nat \ {0} /\ 1 \in 1 .. l /\ l \in 1 .. l
        BY <1>2
    <2>2. /\ v.due \in Seq(Seq(T)) /\ Len(v.due) = l
          /\ w.due \in Seq(Seq(T)) /\ Len(w.due) = l
        BY ViewParts
    <2>3. PICK d \in Seq(Seq(T)), e \in Seq(Seq(T)) : d = v.due /\ e = w.due /\ Len(d) = l /\ Len(e) = l
        BY <2>2
    <2> DEFINE S == Seq(T)
    <2>4. d \in Seq(S) /\ d # <<>> /\ e \in Seq(S)
        BY <1>2, <2>3
    <2> HIDE DEF S
    <2>5. /\ Head(d) \in S /\ Tail(d) \in Seq(S) /\ Len(Tail(d)) = l - 1 /\ Head(d) = d[1]
          /\ \A i \in 1 .. l - 1 : Tail(d)[i] = d[i + 1]
        BY <2>3, <2>4, SplitHead
    <2>6. \A n \in 1 .. l : e[n] = IF n = l THEN <<>> ELSE d[n + 1]
        BY <2>3 DEF IsAdvanced
    <2>7. e = Append(Tail(d), <<>>)
        <3> DEFINE t == Tail(d)
                   u == Append(t, <<>>)
        <3>1. t \in Seq(S) /\ Len(t) = l - 1 /\ \A i \in 1 .. l - 1 : t[i] = d[i + 1]
            BY <2>5
        <3>2. <<>> \in S
            BY DEF S
        <3> HIDE DEF t
        <3>3. u \in Seq(S) /\ Len(u) = Len(t) + 1 /\ u[Len(t) + 1] = <<>> /\ \A i \in 1 .. Len(t) : u[i] = t[i]
            BY <3>1, <3>2, AppendIs
        <3> HIDE DEF u
        <3>4. Len(t) + 1 = l
            BY <3>1
        <3>5. ASSUME NEW n \in 1 .. l PROVE e[n] = u[n]
            <4>1. CASE n = l
                BY <2>6, <3>3, <3>4, <4>1
            <4>2. CASE n # l
                <5>1. n \in 1 .. l - 1
                    BY <4>2
                <5> QED
                    BY <2>6, <3>1, <3>3, <4>2, <5>1
            <4> QED
                BY <4>1, <4>2
        <3>6. u = e
            BY <2>3, <2>4, <3>3, <3>4, <3>5, EqualSeq
        <3> QED
            BY <3>6 DEF u, t
    <2>8. FlattenSeq(e) = FlattenSeq(Tail(d))
        <3>1. Tail(d) \in Seq(Seq(T)) /\ <<>> \in Seq(T)
            BY <2>5 DEF S
        <3>2. FlattenSeq(Append(Tail(d), <<>>)) = FlattenSeq(Tail(d)) \o <<>>
            BY <3>1, FlatAppend
        <3>3. FlattenSeq(Tail(d)) \in Seq(T)
            BY <3>1, FlatType
        <3>4. FlattenSeq(Tail(d)) \o <<>> = FlattenSeq(Tail(d))
            BY <3>3, ConcatEmpty
        <3> QED
            BY <2>7, <3>2, <3>4
    <2>9. FlattenSeq(d) = Head(d) \o FlattenSeq(Tail(d))
        <3>1. d \in Seq(Seq(T)) /\ d # <<>>
            BY <2>3, <2>4
        <3> QED
            BY <3>1, FlatTail
    <2>10. PICK a \in Seq(T), b \in Seq(T), c \in Seq(T) :
               a = v.st /\ b = d[1] /\ c = FlattenSeq(Tail(d))
        <3>1. v.st \in Seq(T) /\ d[1] \in Seq(T)
            BY <2>5, ViewParts DEF S
        <3>2. FlattenSeq(Tail(d)) \in Seq(T)
            BY <2>5, FlatType DEF S
        <3> QED
            BY <3>1, <3>2
    <2>11. <<>> \o (b \o c) = b \o c /\ <<>> \o c = c
        <3>1. b \o c \in Seq(T)
            OBVIOUS
        <3> QED
            BY <3>1, ConcatEmpty
    <2>12. Way(v) = b \o c
        BY <2>3, <2>5, <2>9, <2>10, <2>11 DEF Way
    <2>13. w.now = <<>> /\ w.st = a \o b
        BY <1>2, <2>3, <2>10 DEF IsAdvanced
    <2>14. Way(w) = c
        BY <2>3, <2>8, <2>10, <2>11, <2>13 DEF Way
    <2>15. (a \o b) \o c = a \o (b \o c)
        BY ConcatAssoc, SMTT(60)
    <2>16. Len(b \o c) = Len(b) + Len(c) /\ Len(b) \in Nat /\ Len(c) \in Nat
        BY ConcatLen
    <2>17. All(w) = All(v)
        BY <2>10, <2>12, <2>13, <2>14, <2>15 DEF All
    <2>18. Len(Way(w)) = Len(Way(v)) - Len(v.due[1])
        <3>1. Len(v.due[1]) = Len(b)
            BY <2>3, <2>10
        <3>2. Len(Way(v)) = Len(b) + Len(c) /\ Len(Way(w)) = Len(c)
            BY <2>12, <2>14, <2>16
        <3> QED
            BY <2>16, <3>1, <3>2
    <2> QED
        BY <1>2, <2>17, <2>18
<1> QED
    BY <1>1, <1>2

(* A channel between two ticks: nothing is sent and not fired, a reservation is
   a packet on the way, packets and reservations fit, and no two packets are due
   in the same cycle. *)
ChanOk(v, l) ==
    /\ v.now = <<>> /\ v.pd = Len(Way(v)) /\ Len(v.st) + v.pd <= CAPACITY
    /\ \A n \in 1 .. l : Len(v.due[n]) <= 1

Ready(v, l) == l # 0 => v.due[l] = <<>>

LEMMA AllHolds ==
    ASSUME NEW T, NEW l \in Nat, NEW v \in Views(T, l), v.now = <<>>, NEW x
    PROVE  Holds(All(v), x) <=> Holds(v.st, x) \/ \E n \in 1 .. l : Holds(v.due[n], x)
<1>1. PICK a \in Seq(T), b \in Seq(T) : a = v.st /\ b = FlattenSeq(v.due)
    BY ViewParts, WayType
<1>2. <<>> \o b = b
    BY ConcatEmpty
<1>3. All(v) = a \o b
    BY <1>1, <1>2 DEF All, Way
<1>4. Holds(a \o b, x) <=> Holds(a, x) \/ Holds(b, x)
    BY HoldsConcat
<1>5. v.due \in Seq(Seq(T)) /\ DOMAIN v.due = 1 .. l
    BY ViewParts
<1>6. Holds(FlattenSeq(v.due), x) <=> \E i \in DOMAIN v.due : Holds(v.due[i], x)
    BY <1>5, FlatHolds
<1> QED
    BY <1>1, <1>3, <1>4, <1>5, <1>6

LEMMA AllEmpty ==
    ASSUME NEW T, NEW l \in Nat, NEW v \in Views(T, l), v.now = <<>>
    PROVE  /\ Len(All(v)) = Len(v.st) + Len(Way(v)) /\ Len(v.st) \in Nat /\ Len(Way(v)) \in Nat
           /\ v.st # <<>> => Len(v.st) >= 1
           /\ \A n \in 1 .. l : v.due[n] \in Seq(T) /\ (v.due[n] # <<>> => Len(Way(v)) >= 1)
           /\ Len(Way(v)) >= 1 => \E n \in 1 .. l : v.due[n] # <<>>
<1>1. PICK a \in Seq(T), b \in Seq(T) : a = v.st /\ b = FlattenSeq(v.due)
    BY ViewParts, WayType
<1>2. <<>> \o b = b
    BY ConcatEmpty
<1>3. Way(v) = b
    BY <1>1, <1>2 DEF Way
<1>4. Len(All(v)) = Len(v.st) + Len(Way(v)) /\ Len(v.st) \in Nat /\ Len(Way(v)) \in Nat
    <2>1. Len(All(v)) = Len(v.st) + Len(Way(v))
        BY WayType
    <2> QED
        BY <1>1, <1>3, <2>1
<1>5. v.st # <<>> => Len(v.st) >= 1
    BY <1>1
<1>6. v.due \in Seq(Seq(T)) /\ DOMAIN v.due = 1 .. l
    BY ViewParts
<1>7. \A x : Holds(b, x) <=> \E i \in 1 .. l : Holds(v.due[i], x)
    <2> TAKE x
    <2>1. Holds(FlattenSeq(v.due), x) <=> \E i \in DOMAIN v.due : Holds(v.due[i], x)
        BY <1>6, FlatHolds
    <2> QED
        BY <1>1, <1>6, <2>1
<1>8. ASSUME NEW n \in 1 .. l PROVE v.due[n] \in Seq(T) /\ (v.due[n] # <<>> => Len(Way(v)) >= 1)
    <2>1. v.due[n] \in Seq(T)
        BY <1>6
    <2>2. ASSUME v.due[n] # <<>> PROVE Len(Way(v)) >= 1
        <3>1. PICK d \in Seq(T) : d = v.due[n]
            BY <2>1
        <3>2. 1 \in DOMAIN d
            BY <2>2, <3>1
        <3>3. PICK x : x = d[1]
            OBVIOUS
        <3>4. Holds(v.due[n], x)
            BY <3>1, <3>2, <3>3 DEF Holds
        <3>5. Holds(b, x)
            BY <1>7, <3>4
        <3>6. PICK j \in DOMAIN b : b[j] = x
            BY <3>5 DEF Holds
        <3> QED
            BY <1>3, <3>6
    <2> QED
        BY <2>1, <2>2
<1>9. ASSUME Len(Way(v)) >= 1 PROVE \E n \in 1 .. l : v.due[n] # <<>>
    <2>1. 1 \in DOMAIN b
        BY <1>3, <1>9
    <2>2. PICK x : x = b[1]
        OBVIOUS
    <2>3. Holds(b, x)
        BY <2>1, <2>2 DEF Holds
    <2>4. PICK n \in 1 .. l : Holds(v.due[n], x)
        BY <1>7, <2>3
    <2> QED
        BY <2>4 DEF Holds
<1> QED
    BY <1>4, <1>5, <1>8, <1>9

(* A packet is put on a channel: sent, and fired at the end of the tick. *)
LEMMA ChanPut ==
    ASSUME NEW T, NEW l \in Nat, NEW v \in Views(T, l), NEW u \in Views(T, l), NEW w \in Views(T, l),
           NEW x \in T, ChanOk(v, l), Ready(v, l), Len(v.st) + v.pd < CAPACITY,
           IsSent(v, u, x, l), IsArrived(u, w)
    PROVE  /\ ChanOk(w, l) /\ All(w) = Append(All(v), x)
           /\ w.st = IF l = 0 THEN Append(v.st, x) ELSE v.st
           /\ \A n \in 1 .. l : w.due[n] = IF n = l THEN <<x>> ELSE v.due[n]
<1>1. MaySend(v, l)
    BY DEF ChanOk, Ready, MaySend
<1>2. Way(u) = Append(Way(v), x) /\ All(u) = Append(All(v), x)
    BY <1>1, WaySent
<1>3. All(w) = All(u) /\ Len(Way(w)) = Len(Way(u)) - Len(u.now)
    BY WayArrived
<1>4. Way(v) \in Seq(T) /\ v.st \in Seq(T) /\ Len(Way(v)) \in Nat /\ Len(v.st) \in Nat
    <2>1. Way(v) \in Seq(T) /\ v.st \in Seq(T)
        BY WayType, ViewParts
    <2> QED
        BY <2>1
<1>5. Len(Way(u)) = Len(Way(v)) + 1
    BY <1>2, <1>4, AppendIs
<1>6. /\ u.st = v.st /\ u.pd = v.pd + 1 /\ u.now = IF l = 0 THEN <<x>> ELSE <<>>
      /\ \A n \in 1 .. l : u.due[n] = IF n = l THEN <<x>> ELSE v.due[n]
    BY DEF IsSent, ChanOk
<1>7. Len(u.now) = IF l = 0 THEN 1 ELSE 0
    BY <1>6
<1>8. v.pd = Len(Way(v))
    BY DEF ChanOk
<1>9. w.pd = u.pd - Len(u.now) /\ w.now = <<>> /\ w.due = u.due /\ w.st = u.st \o u.now
    BY DEF IsArrived
<1>10. w.pd = Len(Way(w))
    BY <1>3, <1>4, <1>5, <1>6, <1>7, <1>8, <1>9
<1>11. w.st = IF l = 0 THEN Append(v.st, x) ELSE v.st
    <2>1. PICK a \in Seq(T) : a = v.st
        BY <1>4
    <2>2. a \o <<x>> = Append(a, x) /\ a \o <<>> = a
        <3>1. a \o <<x>> = Append(a, x)
            OBVIOUS
        <3>2. a \o <<>> = a
            BY ConcatEmpty
        <3> QED
            BY <3>1, <3>2
    <2> QED
        BY <1>6, <1>9, <2>1, <2>2
<1>12. Len(w.st) = IF l = 0 THEN Len(v.st) + 1 ELSE Len(v.st)
    BY <1>4, <1>11, AppendIs
<1>13. Len(w.st) + w.pd <= CAPACITY
    <2>1. w.pd = IF l = 0 THEN v.pd ELSE v.pd + 1
        BY <1>4, <1>6, <1>7, <1>8, <1>9
    <2>2. CAPACITY \in Nat
        BY PlatformAssumption
    <2>3. PICK m \in Nat, k \in Nat : m = Len(v.st) /\ k = v.pd
        BY <1>4, <1>8
    <2>4. m + k < CAPACITY
        BY <2>3
    <2>5. CASE l = 0
        <3>1. Len(w.st) = m + 1 /\ w.pd = k
            BY <1>12, <2>1, <2>3, <2>5
        <3> QED
            BY <2>2, <2>3, <2>4, <3>1
    <2>6. CASE l # 0
        <3>1. Len(w.st) = m /\ w.pd = k + 1
            BY <1>12, <2>1, <2>3, <2>6
        <3> QED
            BY <2>2, <2>3, <2>4, <3>1
    <2> QED
        BY <2>5, <2>6
<1>14. \A n \in 1 .. l : w.due[n] = IF n = l THEN <<x>> ELSE v.due[n]
    BY <1>6, <1>9
<1>15. \A n \in 1 .. l : Len(w.due[n]) <= 1
    <2>1. Len(<<x>>) = 1
        OBVIOUS
    <2>2. \A n \in 1 .. l : Len(v.due[n]) <= 1
        BY DEF ChanOk
    <2> TAKE n \in 1 .. l
    <2>3. CASE n = l
        <3>1. w.due[n] = <<x>>
            BY <1>14, <2>3
        <3> QED
            BY <2>1, <3>1
    <2>4. CASE n # l
        BY <1>14, <2>2, <2>4
    <2> QED
        BY <2>3, <2>4
<1> QED
    BY <1>2, <1>3, <1>9, <1>10, <1>11, <1>13, <1>14, <1>15 DEF ChanOk

LEMMA ChanPop ==
    ASSUME NEW T, NEW l \in Nat, NEW v \in Views(T, l), NEW w \in Views(T, l),
           ChanOk(v, l), v.st # <<>>, IsPopped(v, w)
    PROVE  /\ ChanOk(w, l) /\ All(w) = Tail(All(v)) /\ All(v) # <<>> /\ Head(All(v)) = Head(v.st)
           /\ w.st = Tail(v.st) /\ w.due = v.due
<1>1. Way(w) = Way(v) /\ All(w) = Tail(All(v)) /\ All(v) # <<>> /\ Head(All(v)) = Head(v.st)
    BY WayPopped
<1>2. w.st = Tail(v.st) /\ w.pd = v.pd /\ w.now = v.now /\ w.due = v.due
    BY DEF IsPopped
<1>3. Len(w.st) = Len(v.st) - 1 /\ v.pd \in Int /\ Len(v.st) \in Nat
    <2>1. v.st \in Seq(T) /\ v.pd \in Int
        BY ViewParts
    <2> QED
        BY <1>2, <2>1, SplitHead
<1>4. CAPACITY \in Nat
    BY PlatformAssumption
<1> QED
    BY <1>1, <1>2, <1>3, <1>4 DEF ChanOk

Moved(T, v, w, l) ==
    /\ ChanOk(w, l) /\ Ready(w, l) /\ All(w) = All(v)
    /\ w.st = IF l = 0 THEN v.st ELSE v.st \o v.due[1]
    /\ \A n \in 1 .. l : w.due[n] = IF n = l THEN <<>> ELSE v.due[n + 1]
    /\ l # 0 => v.due[1] \in Seq(T) /\ Len(v.due[1]) <= 1 /\ Len(v.st) + Len(v.due[1]) <= CAPACITY

LEMMA ChanAdvance ==
    ASSUME NEW T, NEW l \in Nat, NEW v \in Views(T, l), NEW w \in Views(T, l),
           ChanOk(v, l), IsAdvanced(v, w, l)
    PROVE  Moved(T, v, w, l)
<1>0. v.now = <<>> /\ v.pd = Len(Way(v)) /\ Len(v.st) + v.pd <= CAPACITY
    BY DEF ChanOk
<1>1. /\ All(w) = All(v)
      /\ Len(Way(w)) = IF l = 0 THEN Len(Way(v)) ELSE Len(Way(v)) - Len(v.due[1])
    BY <1>0, WayAdvanced
<1>2. /\ w.now = v.now
      /\ w.st = IF l = 0 THEN v.st ELSE v.st \o v.due[1]
      /\ w.pd = IF l = 0 THEN v.pd ELSE v.pd - Len(v.due[1])
      /\ \A n \in 1 .. l : w.due[n] = IF n = l THEN <<>> ELSE v.due[n + 1]
    BY DEF IsAdvanced
<1>3. w.pd = Len(Way(w))
    BY <1>0, <1>1, <1>2
<1>4. Ready(w, l)
    <2>1. l # 0 => l \in 1 .. l
        OBVIOUS
    <2> QED
        BY <1>2, <2>1 DEF Ready
<1>5. \A n \in 1 .. l : Len(w.due[n]) <= 1
    <2> TAKE n \in 1 .. l
    <2>1. CASE n = l
        BY <1>2, <2>1
    <2>2. CASE n # l
        <3>1. n + 1 \in 1 .. l
            BY <2>2
        <3>2. Len(v.due[n + 1]) <= 1
            BY <3>1 DEF ChanOk
        <3> QED
            BY <1>2, <2>2, <3>2
    <2> QED
        BY <2>1, <2>2
<1>6. v.st \in Seq(T) /\ Len(v.st) \in Nat /\ v.pd \in Int /\ Len(Way(v)) \in Nat /\ CAPACITY \in Nat
    <2>1. v.st \in Seq(T) /\ v.pd \in Int /\ Way(v) \in Seq(T)
        BY ViewParts, WayType
    <2>2. CAPACITY \in Nat
        BY PlatformAssumption
    <2> QED
        BY <2>1, <2>2
<1>7. CASE l = 0
    <2>1. Len(w.st) + w.pd <= CAPACITY
        BY <1>0, <1>2, <1>7
    <2> QED
        BY <1>0, <1>1, <1>2, <1>3, <1>4, <1>5, <1>7, <2>1 DEF ChanOk, Moved
<1>8. CASE l # 0
    <2>1. 1 \in 1 .. l
        BY <1>8
    <2>2. v.due[1] \in Seq(T) /\ Len(v.due[1]) <= 1
        <3>1. v.due[1] \in Seq(T)
            BY <1>0, <2>1, AllEmpty
        <3> QED
            BY <2>1, <3>1 DEF ChanOk
    <2>3. v.due[1] # <<>> => Len(Way(v)) >= 1
        BY <1>0, <2>1, AllEmpty
    <2>4. PICK a \in Seq(T), d \in Seq(T) : a = v.st /\ d = v.due[1]
        BY <1>6, <2>2
    <2>5. Len(a \o d) = Len(a) + Len(d) /\ Len(a) \in Nat /\ Len(d) \in Nat /\ (d = <<>> => Len(d) = 0)
        BY ConcatIs
    <2>6. Len(w.st) = Len(v.st) + Len(v.due[1])
        BY <1>2, <1>8, <2>4, <2>5
    <2>9. PICK m \in Nat, k \in Nat, j \in Nat : m = Len(v.st) /\ k = v.pd /\ j = Len(v.due[1])
        BY <1>0, <1>6, <2>4, <2>5
    <2>10. m + k <= CAPACITY
        BY <1>0, <2>9
    <2>11. CAPACITY \in Nat
        BY PlatformAssumption
    <2>7. Len(w.st) + w.pd <= CAPACITY
        <3>1. w.pd = k - j
            BY <1>2, <1>8, <2>9
        <3>2. Len(w.st) = m + j
            BY <2>6, <2>9
        <3>3. m + j + (k - j) <= CAPACITY
            BY <2>10, <2>11
        <3> QED
            BY <3>1, <3>2, <3>3
    <2>8. Len(v.st) + Len(v.due[1]) <= CAPACITY
        <3>1. Len(v.due[1]) <= v.pd
            BY <1>0, <1>6, <2>2, <2>3, <2>4, <2>5
        <3>2. j <= k
            BY <2>9, <3>1
        <3>3. m + j <= CAPACITY
            BY <2>10, <2>11, <3>2
        <3> QED
            BY <2>9, <3>3
    <2> QED
        BY <1>0, <1>1, <1>2, <1>3, <1>4, <1>5, <1>8, <2>2, <2>7, <2>8 DEF ChanOk, Moved
<1> QED
    BY <1>7, <1>8

(* The requests of a port: only the last of them can be a read. *)
OnlyLast(s) == \A i \in 1 .. Len(s) - 1 : s[i].is_write
Reads(s) == \E i \in DOMAIN s : ~ s[i].is_write
NoWrite(s) == \A i \in DOMAIN s : ~ s[i].is_write

LEMMA OrderAppend ==
    ASSUME NEW T, NEW s \in Seq(T), NEW x \in T, ~ Reads(s)
    PROVE  /\ OnlyLast(Append(s, x))
           /\ Reads(Append(s, x)) <=> ~ x.is_write
           /\ NoWrite(s) => s = <<>>
           /\ NoWrite(s) /\ ~ x.is_write => NoWrite(Append(s, x))
<1> DEFINE u == Append(s, x)
<1>1. /\ u \in Seq(T) /\ Len(u) = Len(s) + 1 /\ u[Len(s) + 1] = x
      /\ \A i \in 1 .. Len(s) : u[i] = s[i]
    BY AppendIs
<1>2. Len(s) \in Nat /\ DOMAIN s = 1 .. Len(s)
    OBVIOUS
<1> HIDE DEF u
<1>3. DOMAIN u = 1 .. Len(s) + 1
    BY <1>1
<1>4. \A i \in 1 .. Len(s) : s[i].is_write
    BY <1>2 DEF Reads
<1>5. OnlyLast(u)
    BY <1>1, <1>2, <1>4 DEF OnlyLast
<1>6. Reads(u) <=> ~ x.is_write
    <2>1. ASSUME ~ x.is_write PROVE Reads(u)
        <3>1. Len(s) + 1 \in DOMAIN u
            BY <1>2, <1>3
        <3> QED
            BY <1>1, <2>1, <3>1 DEF Reads
    <2>2. ASSUME Reads(u) PROVE ~ x.is_write
        <3>1. PICK i \in DOMAIN u : ~ u[i].is_write
            BY <2>2 DEF Reads
        <3>2. i \in 1 .. Len(s) \/ i = Len(s) + 1
            BY <1>2, <1>3
        <3> QED
            BY <1>1, <1>4, <3>1, <3>2
    <2> QED
        BY <2>1, <2>2
<1>7. NoWrite(s) => s = <<>>
    BY <1>2, <1>4 DEF NoWrite
<1>8. NoWrite(s) /\ ~ x.is_write => NoWrite(u)
    <2>1. ASSUME NoWrite(s), ~ x.is_write, NEW i \in DOMAIN u PROVE ~ u[i].is_write
        <3>1. i \in 1 .. Len(s) \/ i = Len(s) + 1
            BY <1>2, <1>3
        <3> QED
            BY <1>1, <1>2, <2>1, <3>1 DEF NoWrite
    <2> QED
        BY <2>1 DEF NoWrite
<1> QED
    BY <1>5, <1>6, <1>7, <1>8 DEF u

LEMMA OrderTail ==
    ASSUME NEW T, NEW s \in Seq(T), s # <<>>, OnlyLast(s)
    PROVE  /\ OnlyLast(Tail(s))
           /\ Head(s).is_write => (Reads(Tail(s)) <=> Reads(s))
           /\ ~ Head(s).is_write => Len(s) = 1 /\ Reads(s) /\ ~ Reads(Tail(s))
           /\ NoWrite(s) => NoWrite(Tail(s))
<1> DEFINE u == Tail(s)
<1>1. /\ u \in Seq(T) /\ Len(u) = Len(s) - 1 /\ Head(s) = s[1]
      /\ \A i \in 1 .. Len(s) - 1 : u[i] = s[i + 1]
    BY SplitHead
<1>2. Len(s) \in Nat /\ Len(s) >= 1 /\ DOMAIN s = 1 .. Len(s)
    OBVIOUS
<1> HIDE DEF u
<1>3. DOMAIN u = 1 .. Len(s) - 1
    BY <1>1
<1>4. OnlyLast(u)
    <2>1. ASSUME NEW i \in 1 .. Len(u) - 1 PROVE u[i].is_write
        <3>1. i \in 1 .. Len(s) - 1 /\ i + 1 \in 1 .. Len(s) - 1
            BY <1>1, <1>2
        <3> QED
            BY <1>1, <3>1 DEF OnlyLast
    <2> QED
        BY <2>1 DEF OnlyLast
<1>5. ASSUME NEW i \in DOMAIN u PROVE i + 1 \in DOMAIN s /\ u[i] = s[i + 1]
    BY <1>1, <1>2, <1>3
<1>6. ASSUME NEW i \in DOMAIN s, i # 1 PROVE i - 1 \in DOMAIN u /\ u[i - 1] = s[i]
    <2>1. i - 1 \in 1 .. Len(s) - 1 /\ (i - 1) + 1 = i
        BY <1>2, <1>6
    <2>2. u[i - 1] = s[(i - 1) + 1]
        BY <1>1, <2>1
    <2> QED
        BY <1>3, <2>1, <2>2
<1>7. Reads(u) => Reads(s)
    BY <1>5 DEF Reads
<1>8. Head(s).is_write /\ Reads(s) => Reads(u)
    <2>1. ASSUME Head(s).is_write, NEW i \in DOMAIN s, ~ s[i].is_write PROVE Reads(u)
        <3>1. i # 1
            BY <1>1, <2>1
        <3> QED
            BY <1>6, <2>1, <3>1 DEF Reads
    <2> QED
        BY <2>1 DEF Reads
<1>9. ~ Head(s).is_write => Len(s) = 1 /\ Reads(s) /\ ~ Reads(u)
    <2>1. ASSUME ~ Head(s).is_write PROVE Len(s) = 1
        <3>1. 1 \notin 1 .. Len(s) - 1
            BY <1>1, <2>1 DEF OnlyLast
        <3> QED
            BY <1>2, <3>1
    <2>2. ASSUME ~ Head(s).is_write PROVE Reads(s)
        <3>1. 1 \in DOMAIN s
            BY <1>2
        <3> QED
            BY <1>1, <2>2, <3>1 DEF Reads
    <2>3. ASSUME Len(s) = 1 PROVE ~ Reads(u)
        <3>1. DOMAIN u = {}
            BY <1>3, <2>3
        <3> QED
            BY <3>1 DEF Reads
    <2> QED
        BY <2>1, <2>2, <2>3
<1>10. NoWrite(s) => NoWrite(u)
    BY <1>5 DEF NoWrite
<1> QED
    BY <1>4, <1>7, <1>8, <1>9, <1>10 DEF u

LEMMA ReadsHolds ==
    ASSUME NEW s
    PROVE  Reads(s) <=> \E x : Holds(s, x) /\ ~ x.is_write
<1>1. ASSUME NEW i \in DOMAIN s, ~ s[i].is_write PROVE Holds(s, s[i]) /\ ~ s[i].is_write
    BY <1>1 DEF Holds
<1>2. ASSUME Reads(s) PROVE \E x : Holds(s, x) /\ ~ x.is_write
    BY <1>1, <1>2 DEF Reads
<1>3. ASSUME NEW x, Holds(s, x), ~ x.is_write PROVE Reads(s)
    BY <1>3 DEF Holds, Reads
<1> QED
    BY <1>2, <1>3

-------------------------------------------------------------------------------
(* A port. *)
AheadOf(p) == IF p = "imem" THEN 0 ELSE CAPACITY - 1
Arrival(l) == IF l = 0 THEN 1 ELSE l
Trip(l)    == IF l = 0 THEN 1 ELSE 2 * l

Order(p, w, q, r) ==
    /\ OnlyLast(All(q)) /\ (Reads(All(q)) => w)
    /\ Len(All(r)) = IF w /\ ~ Reads(All(q)) THEN 1 ELSE 0
    /\ p = "imem" => NoWrite(All(q))

ReadInWay(l, a, q) == \A n \in 1 .. l : \A x : Holds(q.due[n], x) /\ ~ x.is_write => a + n = l

AnswerInWay(l, p, a, r) == \A n \in 1 .. l : r.due[n] # <<>> => a + n \in 2 * l .. 2 * l + AheadOf(p)

ReadArrived(l, p, a, q, t) ==
    \A i \in DOMAIN q.st : ~ q.st[i].is_write =>
        IF t = "memory" THEN Arrival(l) <= a /\ a + i <= Arrival(l) + 1 + AheadOf(p)
        ELSE l <= a /\ a + i <= Arrival(l) + AheadOf(p)

AnswerArrived(l, p, a, r, t) ==
    r.st # <<>> => t \in {"memory", "imem", p} /\ a \in Trip(l) .. Trip(l) + AheadOf(p)

Ages(l, p, w, a, q, r, t) ==
    /\ w \in BOOLEAN /\ a \in Nat /\ (~ w => a = 0)
    /\ ReadInWay(l, a, q) /\ AnswerInWay(l, p, a, r)
    /\ ReadArrived(l, p, a, q, t) /\ AnswerArrived(l, p, a, r, t)

PortOk(l, p, w, a, q, r, t) ==
    /\ ChanOk(q, l) /\ ChanOk(r, l)
    /\ t \in {"memory", "imem", p} => Ready(q, l)
    /\ t = "memory" => Ready(r, l)
    /\ Order(p, w, q, r) /\ Ages(l, p, w, a, q, r, t)

LEMMA AheadIs ==
    ASSUME NEW p \in Port
    PROVE  AheadOf(p) \in Nat
<1>1. CAPACITY \in Nat \ {0}
    BY PlatformAssumption
<1>2. CAPACITY - 1 \in Nat
    BY <1>1
<1> QED
    BY <1>2 DEF AheadOf

-------------------------------------------------------------------------------
(* Each tick leaves a port right: that of the memory, *)

(* A port without an answer. *)
Quiet(r, l) ==
    /\ r.st = <<>> /\ Len(r.st) + r.pd = 0
    /\ \A n \in 1 .. l : r.due[n] = <<>>

LEMMA QuietAnswers ==
    ASSUME NEW T, NEW l \in Nat, NEW r \in Views(T, l), ChanOk(r, l), Len(All(r)) = 0
    PROVE  Quiet(r, l)
<1>1. Len(All(r)) = 0
    OBVIOUS
<1>2. r.now = <<>> /\ r.pd = Len(Way(r))
    BY DEF ChanOk
<1>3. /\ Len(All(r)) = Len(r.st) + Len(Way(r)) /\ Len(r.st) \in Nat /\ Len(Way(r)) \in Nat
      /\ r.st # <<>> => Len(r.st) >= 1
      /\ \A n \in 1 .. l : r.due[n] # <<>> => Len(Way(r)) >= 1
    BY <1>2, AllEmpty
<1>4. Len(r.st) = 0 /\ Len(Way(r)) = 0
    BY <1>1, <1>3
<1> QED
    BY <1>1, <1>2, <1>3, <1>4 DEF Quiet

LEMMA HeadIsFirst ==
    ASSUME NEW T, NEW s \in Seq(T), s # <<>>
    PROVE  1 \in DOMAIN s /\ Head(s) = s[1] /\ Holds(s, Head(s))
<1>1. 1 \in DOMAIN s /\ Head(s) = s[1]
    OBVIOUS
<1> QED
    BY <1>1 DEF Holds

(* A read that has arrived is all that has been asked. *)
LEMMA ReadAtHead ==
    ASSUME NEW T, NEW l \in Nat, NEW p \in Port, NEW w, NEW a, NEW q \in Views(T, l),
           NEW r \in Views(T, l), NEW t, PortOk(l, p, w, a, q, r, t),
           q.st # <<>>, ~ Head(q.st).is_write
    PROVE  Len(All(q)) = 1 /\ Reads(All(q)) /\ ~ Reads(Tail(All(q))) /\ w
<1>1. q.now = <<>> /\ q.st \in Seq(T) /\ All(q) \in Seq(T)
    BY ViewParts, WayType DEF PortOk, ChanOk
<1>2. All(q) # <<>> /\ Head(All(q)) = Head(q.st)
    <2>1. PICK s \in Seq(T), y \in Seq(T) : s = q.st /\ y = Way(q)
        BY <1>1, WayType
    <2>2. s \o y # <<>> /\ Head(s \o y) = Head(s)
        <3>1. s # <<>>
            BY <2>1
        <3> QED
            BY <3>1, TailConcat
    <2> QED
        BY <2>1, <2>2 DEF All
<1>3. OnlyLast(All(q)) /\ (Reads(All(q)) => w)
    BY DEF PortOk, Order
<1>4. Len(All(q)) = 1 /\ Reads(All(q)) /\ ~ Reads(Tail(All(q)))
    BY <1>1, <1>2, <1>3, OrderTail
<1> QED
    BY <1>3, <1>4

(* What the tick of the memory does at a port, x being what a read finds. *)
MemoryMove(x, T, l, q, r, q1, r1) ==
    \/ q.st = <<>> /\ q1 = q /\ r1 = r
    \/ /\ q.st # <<>> /\ Head(q.st).is_write
       /\ IsPopped(q, q1) /\ r1 = r
    \/ /\ q.st # <<>> /\ ~ Head(q.st).is_write /\ Len(r.st) + r.pd >= CAPACITY
       /\ q1 = q /\ r1 = r
    \/ /\ q.st # <<>> /\ ~ Head(q.st).is_write /\ Len(r.st) + r.pd < CAPACITY
       /\ IsPopped(q, q1)
       /\ \E u \in Views(T, l) : IsSent(r, u, x, l) /\ IsArrived(u, r1)

LEMMA ReadPopped ==
    ASSUME NEW T, NEW l \in Nat, NEW p \in Port, NEW a \in Nat, NEW q \in Views(T, l), q.st # <<>>,
           NEW q1 \in Views(T, l), q1.st = Tail(q.st), ReadArrived(l, p, a, q, "memory")
    PROVE  ReadArrived(l, p, a, q1, "imem")
<1>1. q.st \in Seq(T)
    BY ViewParts
<1>2. /\ q1.st \in Seq(T) /\ Len(q1.st) = Len(q.st) - 1 /\ \A i \in 1 .. Len(q.st) - 1 : q1.st[i] = q.st[i + 1]
    BY <1>1, SplitHead
<1>3. ASSUME NEW i \in DOMAIN q1.st, ~ q1.st[i].is_write
      PROVE  l <= a /\ a + i <= Arrival(l) + AheadOf(p)
    <2>1. Len(q.st) \in Nat
        BY <1>1
    <2>2. i \in 1 .. Len(q.st) - 1 /\ i + 1 \in DOMAIN q.st /\ i \in Nat
        BY <1>1, <1>2, <2>1
    <2>3. ~ q.st[i + 1].is_write
        BY <1>2, <1>3, <2>2
    <2>4. Arrival(l) <= a /\ a + (i + 1) <= Arrival(l) + 1 + AheadOf(p)
        BY <2>2, <2>3 DEF ReadArrived
    <2>5. AheadOf(p) \in Nat /\ Arrival(l) \in Nat /\ l <= Arrival(l)
        BY AheadIs DEF Arrival
    <2> QED
        BY <2>2, <2>4, <2>5
<1> QED
    BY <1>3 DEF ReadArrived

LEMMA PortMemory ==
    ASSUME NEW T, NEW l \in Nat, NEW p \in Port, NEW w, NEW a, NEW q \in Views(T, l),
           NEW r \in Views(T, l), NEW q1 \in Views(T, l), NEW r1 \in Views(T, l), NEW x \in T,
           PortOk(l, p, w, a, q, r, "memory"), MemoryMove(x, T, l, q, r, q1, r1)
    PROVE  PortOk(l, p, w, a, q1, r1, "imem")
<1>1. /\ ChanOk(q, l) /\ ChanOk(r, l) /\ Ready(q, l) /\ Ready(r, l) /\ Order(p, w, q, r)
      /\ Ages(l, p, w, a, q, r, "memory")
    BY DEF PortOk
<1>2. /\ w \in BOOLEAN /\ a \in Nat /\ (~ w => a = 0)
      /\ ReadInWay(l, a, q) /\ AnswerInWay(l, p, a, r)
      /\ ReadArrived(l, p, a, q, "memory") /\ AnswerArrived(l, p, a, r, "memory")
    BY <1>1 DEF Ages
<1>3. AnswerArrived(l, p, a, r, "imem")
    BY <1>2 DEF AnswerArrived
<1>4. CASE q.st = <<>> /\ q1 = q /\ r1 = r
    <2>1. ReadArrived(l, p, a, q, "imem")
        <3>1. DOMAIN q.st = {}
            BY <1>4
        <3> QED
            BY <3>1 DEF ReadArrived
    <2> QED
        BY <1>1, <1>2, <1>3, <1>4, <2>1 DEF PortOk, Ages
<1>5. ASSUME q.st # <<>>, IsPopped(q, q1)
      PROVE  /\ ChanOk(q1, l) /\ Ready(q1, l) /\ All(q1) = Tail(All(q)) /\ All(q) \in Seq(T)
             /\ All(q) # <<>> /\ Head(All(q)) = Head(q.st)
             /\ ReadInWay(l, a, q1) /\ ReadArrived(l, p, a, q1, "imem")
    <2>1. /\ ChanOk(q1, l) /\ All(q1) = Tail(All(q)) /\ All(q) # <<>> /\ Head(All(q)) = Head(q.st)
          /\ q1.st = Tail(q.st) /\ q1.due = q.due
        BY <1>1, <1>5, ChanPop
    <2>2. Ready(q1, l) /\ ReadInWay(l, a, q1)
        BY <1>1, <1>2, <2>1 DEF Ready, ReadInWay
    <2>3. ReadArrived(l, p, a, q1, "imem")
        BY <1>2, <1>5, <2>1, ReadPopped
    <2> QED
        BY <2>1, <2>2, <2>3, WayType
<1>6. CASE q.st # <<>> /\ Head(q.st).is_write /\ IsPopped(q, q1) /\ r1 = r
    <2>1. /\ OnlyLast(All(q1)) /\ (Reads(All(q1)) <=> Reads(All(q)))
          /\ NoWrite(All(q)) => NoWrite(All(q1))
        BY <1>1, <1>5, <1>6, OrderTail DEF Order
    <2>2. Order(p, w, q1, r1)
        BY <1>1, <1>6, <2>1 DEF Order
    <2> QED
        BY <1>1, <1>2, <1>3, <1>5, <1>6, <2>2 DEF PortOk, Ages
<1>7. CASE q.st # <<>> /\ ~ Head(q.st).is_write /\ Len(r.st) + r.pd >= CAPACITY
    <2>1. Reads(All(q))
        BY <1>7, ReadAtHead
    <2>4. Len(All(r)) = 0
        BY <1>1, <2>1 DEF Order
    <2>2. Len(r.st) + r.pd = 0
        BY <1>1, <2>4, QuietAnswers DEF Quiet
    <2>3. CAPACITY \in Nat \ {0}
        BY PlatformAssumption
    <2> QED
        BY <1>7, <2>2, <2>3
<1>8. CASE /\ q.st # <<>> /\ ~ Head(q.st).is_write /\ Len(r.st) + r.pd < CAPACITY
           /\ IsPopped(q, q1)
           /\ \E u \in Views(T, l) : IsSent(r, u, x, l) /\ IsArrived(u, r1)
    <2>1. PICK u \in Views(T, l) : IsSent(r, u, x, l) /\ IsArrived(u, r1)
        BY <1>8
    <2>2. /\ ChanOk(r1, l) /\ All(r1) = Append(All(r), x)
          /\ r1.st = IF l = 0 THEN Append(r.st, x) ELSE r.st
          /\ \A n \in 1 .. l : r1.due[n] = IF n = l THEN <<x>> ELSE r.due[n]
        BY <1>1, <1>8, <2>1, ChanPut
    <2>3. Len(All(q)) = 1 /\ Reads(All(q)) /\ ~ Reads(Tail(All(q))) /\ w
        BY <1>8, ReadAtHead
    <2>4. Len(All(r)) = 0 /\ r.st = <<>> /\ \A n \in 1 .. l : r.due[n] = <<>>
        <3>1. Len(All(r)) = 0
            BY <1>1, <2>3 DEF Order
        <3>2. Quiet(r, l)
            BY <1>1, <3>1, QuietAnswers
        <3> QED
            BY <3>1, <3>2 DEF Quiet
    <2>5. OnlyLast(All(q1)) /\ ~ Reads(All(q1)) /\ (NoWrite(All(q)) => NoWrite(All(q1)))
        BY <1>1, <1>5, <1>8, <2>3, OrderTail DEF Order
    <2>6. Len(All(r1)) = 1
        <3>1. All(r) \in Seq(T)
            BY WayType
        <3> QED
            BY <2>2, <2>4, <3>1, AppendIs
    <2>7. Order(p, w, q1, r1)
        BY <1>1, <2>3, <2>5, <2>6 DEF Order
    <2>8. a \in Arrival(l) .. Arrival(l) + AheadOf(p)
        <3>1. 1 \in DOMAIN q.st /\ Head(q.st) = q.st[1]
            BY <1>8, ViewParts, HeadIsFirst
        <3>2. Arrival(l) <= a /\ a + 1 <= Arrival(l) + 1 + AheadOf(p)
            BY <1>2, <1>8, <3>1 DEF ReadArrived
        <3>3. AheadOf(p) \in Nat /\ Arrival(l) \in Nat
            BY AheadIs DEF Arrival
        <3> QED
            BY <1>2, <3>2, <3>3
    <2>9. AnswerInWay(l, p, a, r1)
        <3>1. ASSUME NEW n \in 1 .. l, r1.due[n] # <<>> PROVE a + n \in 2 * l .. 2 * l + AheadOf(p)
            <4>1. n = l /\ l # 0
                BY <2>2, <2>4, <3>1
            <4>2. Arrival(l) = l
                BY <4>1 DEF Arrival
            <4>3. AheadOf(p) \in Nat
                BY AheadIs
            <4> QED
                BY <1>2, <2>8, <4>1, <4>2, <4>3
        <3> QED
            BY <3>1 DEF AnswerInWay
    <2>10. AnswerArrived(l, p, a, r1, "imem")
        <3>1. ASSUME r1.st # <<>> PROVE a \in Trip(l) .. Trip(l) + AheadOf(p)
            <4>1. l = 0
                BY <2>2, <2>4, <3>1
            <4> QED
                BY <2>8, <4>1 DEF Arrival, Trip
        <3> QED
            BY <3>1 DEF AnswerArrived
    <2> QED
        BY <1>1, <1>2, <1>5, <1>8, <2>2, <2>7, <2>9, <2>10 DEF PortOk, Ages
<1> QED
    BY <1>4, <1>6, <1>7, <1>8 DEF MemoryMove

(* What has been asked and answered at the port, when a read finds x. *)
Answered(x, q, r, q1, r1) ==
    IF q.st = <<>> THEN All(q1) = All(q) /\ All(r1) = All(r)
    ELSE /\ All(q) # <<>> /\ Head(All(q)) = Head(q.st) /\ All(q1) = Tail(All(q))
         /\ Head(q.st).is_write => All(r1) = All(r)
         /\ ~ Head(q.st).is_write => All(r1) = Append(All(r), x) /\ Len(All(r)) < CAPACITY

LEMMA PortAnswered ==
    ASSUME NEW T, NEW l \in Nat, NEW p \in Port, NEW w, NEW a, NEW q \in Views(T, l),
           NEW r \in Views(T, l), NEW q1 \in Views(T, l), NEW r1 \in Views(T, l), NEW x \in T,
           PortOk(l, p, w, a, q, r, "memory"), MemoryMove(x, T, l, q, r, q1, r1)
    PROVE  Answered(x, q, r, q1, r1)
<1>1. /\ ChanOk(q, l) /\ ChanOk(r, l) /\ Ready(q, l) /\ Ready(r, l) /\ Order(p, w, q, r)
    BY DEF PortOk
<1>2. CASE q.st = <<>> /\ q1 = q /\ r1 = r
    BY <1>2 DEF Answered
<1>3. ASSUME q.st # <<>>, IsPopped(q, q1)
      PROVE  All(q1) = Tail(All(q)) /\ All(q) # <<>> /\ Head(All(q)) = Head(q.st)
    BY <1>1, <1>3, ChanPop
<1>4. CASE q.st # <<>> /\ Head(q.st).is_write /\ IsPopped(q, q1) /\ r1 = r
    BY <1>3, <1>4 DEF Answered
<1>5. CASE q.st # <<>> /\ ~ Head(q.st).is_write /\ Len(r.st) + r.pd >= CAPACITY
    <2>1. Reads(All(q))
        BY <1>5, ReadAtHead
    <2>2. Len(All(r)) = 0
        BY <1>1, <2>1 DEF Order
    <2>3. Len(r.st) + r.pd = 0
        BY <1>1, <2>2, QuietAnswers DEF Quiet
    <2>4. CAPACITY \in Nat \ {0}
        BY PlatformAssumption
    <2> QED
        BY <1>5, <2>3, <2>4
<1>6. CASE /\ q.st # <<>> /\ ~ Head(q.st).is_write /\ Len(r.st) + r.pd < CAPACITY
           /\ IsPopped(q, q1)
           /\ \E u \in Views(T, l) : IsSent(r, u, x, l) /\ IsArrived(u, r1)
    <2>1. PICK u \in Views(T, l) : IsSent(r, u, x, l) /\ IsArrived(u, r1)
        BY <1>6
    <2>2. /\ ChanOk(r1, l) /\ All(r1) = Append(All(r), x)
          /\ r1.st = IF l = 0 THEN Append(r.st, x) ELSE r.st
          /\ \A n \in 1 .. l : r1.due[n] = IF n = l THEN <<x>> ELSE r.due[n]
        BY <1>1, <1>6, <2>1, ChanPut
    <2>3. Len(All(r)) = Len(r.st) + r.pd
        BY <1>1, WayType DEF ChanOk
    <2> QED
        BY <1>3, <1>6, <2>2, <2>3 DEF Answered
<1> QED
    BY <1>2, <1>4, <1>5, <1>6 DEF MemoryMove

-------------------------------------------------------------------------------
(* that of a cache, *)

After(p) == IF p = "imem" THEN "dmem" ELSE "clock"

(* The other port, while a cache ticks. *)
LEMMA PortOther ==
    ASSUME NEW T, NEW l \in Nat, NEW p \in Port, NEW w, NEW a, NEW q \in Views(T, l),
           NEW r \in Views(T, l), NEW t \in Port \ {p}, PortOk(l, p, w, a, q, r, t)
    PROVE  PortOk(l, p, w, a, q, r, After(t))
<1>1. After(t) \notin {"memory", "imem"} /\ t # "memory" /\ (After(t) = p => t = "imem")
    BY DEF After, Port
<1>2. ReadArrived(l, p, a, q, t) => ReadArrived(l, p, a, q, After(t))
    BY <1>1 DEF ReadArrived
<1>3. AnswerArrived(l, p, a, r, t) => AnswerArrived(l, p, a, r, After(t))
    <2>1. t = "imem" => p = "dmem" /\ After(t) = p
        BY DEF After, Port
    <2>2. t # "imem" => t = "dmem" /\ p = "imem"
        BY DEF Port
    <2> QED
        BY <2>1, <2>2 DEF AnswerArrived
<1> QED
    BY <1>1, <1>2, <1>3 DEF PortOk, Ages

(* A cache that stands by. *)
LEMMA PortStandBy ==
    ASSUME NEW T, NEW l \in Nat, NEW p \in Port, NEW w, NEW a, NEW q \in Views(T, l),
           NEW r \in Views(T, l), PortOk(l, p, w, a, q, r, p), w => r.st = <<>>
    PROVE  PortOk(l, p, w, a, q, r, After(p)) /\ r.st = <<>>
<1>1. After(p) \notin {"memory", "imem", p} /\ p # "memory"
    BY DEF After, Port
<1>2. ReadArrived(l, p, a, q, p) => ReadArrived(l, p, a, q, After(p))
    BY <1>1 DEF ReadArrived
<1>3. r.st = <<>>
    <2>1. CASE w
        BY <2>1
    <2>2. CASE ~ w
        <3>1. Len(All(r)) = 0
            BY <2>2 DEF PortOk, Order
        <3>2. ChanOk(r, l)
            BY DEF PortOk
        <3> QED
            BY <3>1, <3>2, QuietAnswers DEF Quiet
    <2> QED
        BY <2>1, <2>2
<1>4. AnswerArrived(l, p, a, r, After(p))
    BY <1>3 DEF AnswerArrived
<1> QED
    BY <1>1, <1>2, <1>3, <1>4 DEF PortOk, Ages

(* A cache that takes the answer. *)
LEMMA PortTake ==
    ASSUME NEW T, NEW l \in Nat, NEW p \in Port, NEW w, NEW a, NEW q \in Views(T, l),
           NEW r \in Views(T, l), NEW r1 \in Views(T, l), PortOk(l, p, w, a, q, r, p),
           w, r.st # <<>>, IsPopped(r, r1)
    PROVE  PortOk(l, p, FALSE, 0, q, r1, After(p))
<1>1. After(p) \notin {"memory", "imem", p} /\ p # "memory"
    BY DEF After, Port
<1>2. /\ ChanOk(q, l) /\ ChanOk(r, l) /\ Order(p, w, q, r) /\ Ages(l, p, w, a, q, r, p)
    BY DEF PortOk
<1>3. r.now = <<>> /\ q.now = <<>>
    BY <1>2 DEF ChanOk
<1>4. Len(All(r)) = Len(r.st) + Len(Way(r)) /\ Len(r.st) >= 1 /\ Len(r.st) \in Nat /\ Len(Way(r)) \in Nat
    BY <1>3, AllEmpty
<1>5. Len(All(r)) = 1 /\ ~ Reads(All(q))
    BY <1>2, <1>4 DEF Order
<1>6. ChanOk(r1, l) /\ All(r1) = Tail(All(r)) /\ All(r) # <<>> /\ r1.st = Tail(r.st) /\ r1.due = r.due
    BY <1>2, ChanPop
<1>7. Len(All(r1)) = 0
    <2>1. All(r) \in Seq(T)
        BY WayType
    <2>2. Len(Tail(All(r))) = Len(All(r)) - 1
        BY <1>6, <2>1, SplitHead
    <2> QED
        BY <1>5, <1>6, <2>2
<1>8. r1.st = <<>> /\ \A n \in 1 .. l : r1.due[n] = <<>>
    <2>1. r1.now = <<>>
        BY <1>6 DEF ChanOk
    <2>2. /\ Len(All(r1)) = Len(r1.st) + Len(Way(r1)) /\ Len(r1.st) \in Nat /\ Len(Way(r1)) \in Nat
          /\ r1.st # <<>> => Len(r1.st) >= 1
          /\ \A n \in 1 .. l : r1.due[n] # <<>> => Len(Way(r1)) >= 1
        BY <2>1, AllEmpty
    <2>3. Len(r1.st) = 0 /\ Len(Way(r1)) = 0
        BY <1>7, <2>2
    <2> QED
        BY <2>2, <2>3
<1>9. \A x : Holds(q.st, x) \/ (\E n \in 1 .. l : Holds(q.due[n], x)) => x.is_write
    <2> SUFFICES ASSUME NEW x, Holds(q.st, x) \/ (\E n \in 1 .. l : Holds(q.due[n], x))
                 PROVE  x.is_write
        OBVIOUS
    <2>1. Holds(All(q), x)
        BY <1>3, AllHolds
    <2> QED
        BY <1>5, <2>1, ReadsHolds
<1>10. ReadInWay(l, 0, q)
    BY <1>9 DEF ReadInWay
<1>11. ReadArrived(l, p, 0, q, After(p))
    BY <1>9 DEF ReadArrived, Holds
<1>12. AnswerInWay(l, p, 0, r1) /\ AnswerArrived(l, p, 0, r1, After(p))
    BY <1>8 DEF AnswerInWay, AnswerArrived
<1>13. Order(p, FALSE, q, r1)
    BY <1>2, <1>5, <1>7 DEF Order
<1>14. Ages(l, p, FALSE, 0, q, r1, After(p))
    BY <1>10, <1>11, <1>12 DEF Ages
<1> QED
    BY <1>1, <1>2, <1>6, <1>13, <1>14 DEF PortOk

(* A cache that sends a request. *)
LEMMA PortSend ==
    ASSUME NEW T, NEW l \in Nat, NEW p \in Port, NEW a, NEW q \in Views(T, l),
           NEW r \in Views(T, l), NEW q1 \in Views(T, l), NEW u \in Views(T, l), NEW x \in T,
           PortOk(l, p, FALSE, a, q, r, p), Len(q.st) + q.pd < CAPACITY,
           x.is_write \in BOOLEAN, p = "imem" => ~ x.is_write,
           IsSent(q, u, x, l), IsArrived(u, q1)
    PROVE  PortOk(l, p, ~ x.is_write, a, q1, r, After(p))
<1>1. After(p) \notin {"memory", "imem", p} /\ p # "memory" /\ p \in {"memory", "imem", p}
    BY DEF After, Port
<1>2. /\ ChanOk(q, l) /\ ChanOk(r, l) /\ Order(p, FALSE, q, r) /\ Ages(l, p, FALSE, a, q, r, p)
      /\ Ready(q, l)
    BY <1>1 DEF PortOk
<1>3. /\ ChanOk(q1, l) /\ All(q1) = Append(All(q), x)
      /\ q1.st = IF l = 0 THEN Append(q.st, x) ELSE q.st
      /\ \A n \in 1 .. l : q1.due[n] = IF n = l THEN <<x>> ELSE q.due[n]
    BY <1>2, ChanPut
<1>4. ~ Reads(All(q)) /\ Len(All(r)) = 0 /\ a = 0
    BY <1>2 DEF Order, Ages
<1>5. r.st = <<>> /\ \A n \in 1 .. l : r.due[n] = <<>>
    <2>1. Quiet(r, l)
        BY <1>2, <1>4, QuietAnswers
    <2> QED
        BY <2>1 DEF Quiet
<1>6. All(q) \in Seq(T) /\ q.now = <<>> /\ q.st \in Seq(T)
    BY <1>2, WayType, ViewParts DEF ChanOk
<1>7. /\ OnlyLast(All(q1))
      /\ Reads(All(q1)) <=> ~ x.is_write
      /\ NoWrite(All(q)) => All(q) = <<>>
      /\ NoWrite(All(q)) /\ ~ x.is_write => NoWrite(All(q1))
    BY <1>3, <1>4, <1>6, OrderAppend
<1>8. Order(p, ~ x.is_write, q1, r)
    BY <1>2, <1>4, <1>7 DEF Order
<1>9. \A y : Holds(q.st, y) \/ (\E n \in 1 .. l : Holds(q.due[n], y)) => y.is_write
    <2> SUFFICES ASSUME NEW y, Holds(q.st, y) \/ (\E n \in 1 .. l : Holds(q.due[n], y))
                 PROVE  y.is_write
        OBVIOUS
    <2>1. Holds(All(q), y)
        BY <1>6, AllHolds
    <2> QED
        BY <1>4, <2>1, ReadsHolds
<1>10. ReadInWay(l, 0, q1)
    <2>1. ASSUME NEW n \in 1 .. l, NEW y, Holds(q1.due[n], y), ~ y.is_write PROVE 0 + n = l
        <3>1. n # l => q1.due[n] = q.due[n]
            BY <1>3
        <3>2. n # l => FALSE
            BY <1>9, <2>1, <3>1
        <3> QED
            BY <3>2
    <2> QED
        BY <2>1 DEF ReadInWay
<1>11. ReadArrived(l, p, 0, q1, After(p))
    <2>1. ASSUME NEW i \in DOMAIN q1.st, ~ q1.st[i].is_write
          PROVE  l <= 0 /\ 0 + i <= Arrival(l) + AheadOf(p)
        <3>1. \A j \in DOMAIN q.st : q.st[j].is_write
            BY <1>9 DEF Holds
        <3>2. l = 0 /\ q1.st = Append(q.st, x)
            BY <1>3, <2>1, <3>1
        <3>3. i = Len(q.st) + 1 /\ Len(q.st) \in Nat
            <4> DEFINE s == Append(q.st, x)
            <4>1. Len(s) = Len(q.st) + 1 /\ s \in Seq(T) /\ \A j \in 1 .. Len(q.st) : s[j] = q.st[j]
                BY <1>6, AppendIs
            <4>2. Len(q.st) \in Nat /\ DOMAIN q.st = 1 .. Len(q.st)
                BY <1>6
            <4>3. s = q1.st
                BY <3>2
            <4> HIDE DEF s
            <4>4. i \in 1 .. Len(q.st) + 1
                BY <2>1, <4>1, <4>3
            <4>5. i \notin 1 .. Len(q.st)
                BY <2>1, <3>1, <4>1, <4>2, <4>3
            <4> QED
                BY <4>2, <4>4, <4>5
        <3>4. Arrival(l) = 1
            BY <3>2 DEF Arrival
        <3>5. Len(q.st) <= AheadOf(p)
            <4>1. CASE p = "imem"
                <5>1. All(q) = <<>>
                    BY <1>2, <1>7, <4>1 DEF Order
                <5>2. Len(All(q)) = 0 /\ Len(All(q)) = Len(q.st) + Len(Way(q)) /\ Len(Way(q)) \in Nat
                    BY <1>6, <5>1, AllEmpty
                <5>5. PICK m \in Nat, k \in Nat : m = Len(q.st) /\ k = Len(Way(q))
                    BY <3>3, <5>2
                <5>6. m + k = 0
                    BY <5>2, <5>5
                <5>7. m = 0
                    BY <5>6
                <5>3. Len(q.st) = 0
                    BY <5>5, <5>7
                <5>4. AheadOf(p) = 0
                    BY <4>1 DEF AheadOf
                <5> QED
                    BY <5>3, <5>4
            <4>2. CASE p # "imem"
                <5>1. q.pd \in Nat
                    BY <1>2, <1>6, AllEmpty DEF ChanOk
                <5>2. PICK m \in Nat, k \in Nat : m = Len(q.st) /\ k = q.pd
                    BY <3>3, <5>1
                <5>3. m + k < CAPACITY
                    BY <5>2
                <5>4. CAPACITY \in Nat
                    BY PlatformAssumption
                <5>5. m <= CAPACITY - 1
                    BY <5>3, <5>4
                <5> QED
                    BY <4>2, <5>2, <5>5 DEF AheadOf
            <4> QED
                BY <4>1, <4>2
        <3>6. AheadOf(p) \in Nat
            BY AheadIs
        <3> QED
            BY <3>2, <3>3, <3>4, <3>5, <3>6
    <2> QED
        BY <1>1, <2>1 DEF ReadArrived
<1>12. AnswerInWay(l, p, 0, r) /\ AnswerArrived(l, p, 0, r, After(p))
    BY <1>5 DEF AnswerInWay, AnswerArrived
<1>13. Ages(l, p, ~ x.is_write, 0, q1, r, After(p))
    BY <1>10, <1>11, <1>12 DEF Ages
<1> QED
    BY <1>1, <1>2, <1>3, <1>4, <1>8, <1>13 DEF PortOk

-------------------------------------------------------------------------------
(* and that of the clock. *)

(* The clock, at a port. *)
LEMMA ClockRead ==
    ASSUME NEW T, NEW l \in Nat, NEW p \in Port, NEW w, NEW a, NEW q \in Views(T, l),
           NEW r \in Views(T, l), NEW q1 \in Views(T, l),
           PortOk(l, p, w, a, q, r, "clock"), IsAdvanced(q, q1, l), w
    PROVE  ReadInWay(l, a + 1, q1) /\ ReadArrived(l, p, a + 1, q1, "memory")
<1>1. /\ ChanOk(q, l) /\ a \in Nat /\ ReadInWay(l, a, q) /\ ReadArrived(l, p, a, q, "clock")
    BY DEF PortOk, Ages
<1>2. /\ q1.st = IF l = 0 THEN q.st ELSE q.st \o q.due[1]
      /\ \A n \in 1 .. l : q1.due[n] = IF n = l THEN <<>> ELSE q.due[n + 1]
      /\ l # 0 => q.due[1] \in Seq(T) /\ Len(q.due[1]) <= 1 /\ Len(q.st) + Len(q.due[1]) <= CAPACITY
    <2>1. ChanOk(q, l)
        BY <1>1
    <2>2. Moved(T, q, q1, l)
        BY <2>1, ChanAdvance
    <2> QED
        BY <2>2 DEF Moved
<1>3. ReadInWay(l, a + 1, q1)
    <2>1. ASSUME NEW n \in 1 .. l, NEW x, Holds(q1.due[n], x), ~ x.is_write PROVE (a + 1) + n = l
        <3>1. n # l
            BY <1>2, <2>1 DEF Holds
        <3>2. n + 1 \in 1 .. l /\ Holds(q.due[n + 1], x)
            BY <1>2, <2>1, <3>1
        <3>3. a + (n + 1) = l
            BY <1>1, <2>1, <3>2 DEF ReadInWay
        <3> QED
            BY <1>1, <3>3
    <2> QED
        BY <2>1 DEF ReadInWay
<1>4. q.st \in Seq(T) /\ Len(q.st) \in Nat
    BY ViewParts
<1>5. AheadOf(p) \in Nat /\ Arrival(l) \in Nat /\ l <= Arrival(l) /\ Arrival(l) <= l + 1
    BY AheadIs DEF Arrival
<1>6. ASSUME NEW i \in DOMAIN q.st, ~ q.st[i].is_write
      PROVE  Arrival(l) <= a + 1 /\ (a + 1) + i <= Arrival(l) + 1 + AheadOf(p)
    <2>1. l <= a /\ a + i <= Arrival(l) + AheadOf(p) /\ i \in Nat
        BY <1>1, <1>4, <1>6 DEF ReadArrived
    <2> QED
        BY <1>1, <1>5, <2>1
<1>7. ASSUME l # 0, NEW i \in DOMAIN q1.st, i \notin DOMAIN q.st, ~ q1.st[i].is_write
      PROVE  Arrival(l) <= a + 1 /\ (a + 1) + i <= Arrival(l) + 1 + AheadOf(p)
    <2>1. PICK s \in Seq(T), d \in Seq(T) : s = q.st /\ d = q.due[1]
        BY <1>2, <1>4, <1>7
    <2> DEFINE z == s \o d
    <2>2. /\ z \in Seq(T) /\ Len(z) = Len(s) + Len(d) /\ Len(s) \in Nat /\ Len(d) \in Nat
          /\ \A j \in 1 .. Len(s) + Len(d) : z[j] = IF j <= Len(s) THEN s[j] ELSE d[j - Len(s)]
        BY ConcatIs
    <2>3. z = q1.st /\ Len(d) <= 1 /\ Len(s) + Len(d) <= CAPACITY
        BY <1>2, <1>7, <2>1
    <2> HIDE DEF z
    <2>4. i \in 1 .. Len(s) + Len(d) /\ ~ (i \in 1 .. Len(s))
        <3>1. DOMAIN z = 1 .. Len(s) + Len(d)
            BY <2>2
        <3>2. DOMAIN s = 1 .. Len(s)
            OBVIOUS
        <3> QED
            BY <1>7, <2>1, <2>3, <3>1, <3>2
    <2>5. Len(d) = 1 /\ i = Len(s) + 1
        <3>1. PICK m \in Nat, k \in Nat : m = Len(s) /\ k = Len(d)
            BY <2>2
        <3>2. i \in 1 .. m + k /\ ~ (i \in 1 .. m) /\ k <= 1
            BY <2>3, <2>4, <3>1
        <3>3. k = 1 /\ i = m + 1
            BY <3>2
        <3> QED
            BY <3>1, <3>3
    <2>6. i - Len(s) = 1 /\ ~ (i <= Len(s))
        BY <2>2, <2>5
    <2>7. z[i] = d[1] /\ 1 \in DOMAIN d
        BY <2>2, <2>4, <2>5, <2>6
    <2>8. PICK x : x = d[1]
        OBVIOUS
    <2>9. Holds(q.due[1], x) /\ ~ x.is_write
        BY <1>7, <2>1, <2>3, <2>7, <2>8 DEF Holds
    <2>10. a + 1 = l
        <3>1. 1 \in 1 .. l
            BY <1>7
        <3> QED
            BY <1>1, <2>9, <3>1 DEF ReadInWay
    <2>11. Arrival(l) = l
        BY <1>7 DEF Arrival
    <2>12. Len(s) <= AheadOf(p)
        <3>1. CASE p = "imem"
            <4>1. /\ OnlyLast(All(q)) /\ NoWrite(All(q)) /\ q.now = <<>> /\ All(q) \in Seq(T)
                BY <3>1, WayType DEF PortOk, Order, ChanOk
            <4>2. Len(All(q)) <= 1
                <5>1. ASSUME Len(All(q)) > 1 PROVE FALSE
                    <6>1. 1 \in 1 .. Len(All(q)) - 1 /\ 1 \in DOMAIN All(q)
                        BY <4>1, <5>1
                    <6> QED
                        BY <4>1, <6>1 DEF OnlyLast, NoWrite
                <5>2. Len(All(q)) \in Nat
                    BY <4>1
                <5> QED
                    BY <5>1, <5>2
            <4>3. Len(All(q)) = Len(q.st) + Len(Way(q)) /\ Len(Way(q)) \in Nat
                BY <4>1, AllEmpty
            <4>4. Len(Way(q)) >= 1
                <5>1. q.due[1] # <<>> /\ 1 \in 1 .. l
                    <6>1. 1 \in 1 .. l
                        BY <1>7
                    <6>2. d # <<>>
                        <7>1. Len(d) # 0
                            BY <2>5
                        <7> QED
                            BY <7>1
                    <6> QED
                        BY <2>1, <6>1, <6>2
                <5> QED
                    BY <4>1, <5>1, AllEmpty
            <4>5. PICK m \in Nat, k \in Nat : m = Len(s) /\ k = Len(Way(q))
                BY <2>2, <4>3
            <4>6. m + k <= 1 /\ k >= 1
                BY <2>1, <4>2, <4>3, <4>4, <4>5
            <4>7. m = 0
                BY <4>6
            <4>8. AheadOf(p) = 0
                BY <3>1 DEF AheadOf
            <4> QED
                BY <4>5, <4>7, <4>8
        <3>2. CASE p # "imem"
            <4>1. PICK m \in Nat : m = Len(s)
                BY <2>2
            <4>2. m + 1 <= CAPACITY /\ CAPACITY \in Nat
                BY <2>3, <2>5, <4>1, PlatformAssumption
            <4>3. AheadOf(p) = CAPACITY - 1
                BY <3>2 DEF AheadOf
            <4>4. m <= CAPACITY - 1
                BY <4>2
            <4> QED
                BY <4>1, <4>3, <4>4
        <3> QED
            BY <3>1, <3>2
    <2>13. PICK m \in Nat : m = Len(s)
        BY <2>2
    <2>14. i = m + 1 /\ m <= AheadOf(p)
        BY <2>5, <2>12, <2>13
    <2> QED
        BY <1>1, <1>5, <2>10, <2>11, <2>14
<1>8. ASSUME NEW i \in DOMAIN q1.st, i \in DOMAIN q.st PROVE q1.st[i] = q.st[i]
    <2>1. CASE l = 0
        BY <1>2, <2>1
    <2>2. CASE l # 0
        <3>1. PICK s \in Seq(T), d \in Seq(T) : s = q.st /\ d = q.due[1]
            BY <1>2, <1>4, <2>2
        <3>2. /\ Len(s) \in Nat /\ Len(d) \in Nat
              /\ \A j \in 1 .. Len(s) + Len(d) : (s \o d)[j] = IF j <= Len(s) THEN s[j] ELSE d[j - Len(s)]
            BY ConcatIs
        <3>3. i \in 1 .. Len(s)
            BY <1>8, <3>1
        <3>4. i \in 1 .. Len(s) + Len(d) /\ i <= Len(s)
            BY <3>2, <3>3
        <3> QED
            BY <1>2, <2>2, <3>1, <3>2, <3>4
    <2> QED
        BY <2>1, <2>2
<1>9. ReadArrived(l, p, a + 1, q1, "memory")
    <2>1. ASSUME NEW i \in DOMAIN q1.st, ~ q1.st[i].is_write
          PROVE  Arrival(l) <= a + 1 /\ (a + 1) + i <= Arrival(l) + 1 + AheadOf(p)
        <3>1. CASE i \in DOMAIN q.st
            BY <1>6, <1>8, <2>1, <3>1
        <3>2. CASE i \notin DOMAIN q.st
            <4>1. l # 0
                BY <1>2, <2>1, <3>2
            <4> QED
                BY <1>7, <2>1, <3>2, <4>1
        <3> QED
            BY <3>1, <3>2
    <2> QED
        BY <2>1 DEF ReadArrived
<1> QED
    BY <1>3, <1>9

LEMMA ClockAnswer ==
    ASSUME NEW T, NEW l \in Nat, NEW p \in Port, NEW w, NEW a, NEW q \in Views(T, l),
           NEW r \in Views(T, l), NEW r1 \in Views(T, l),
           PortOk(l, p, w, a, q, r, "clock"), IsAdvanced(r, r1, l)
    PROVE  AnswerInWay(l, p, a + 1, r1) /\ AnswerArrived(l, p, a + 1, r1, "memory")
<1>1. /\ ChanOk(r, l) /\ a \in Nat /\ AnswerInWay(l, p, a, r) /\ AnswerArrived(l, p, a, r, "clock")
    BY DEF PortOk, Ages
<1>2. /\ r1.st = IF l = 0 THEN r.st ELSE r.st \o r.due[1]
      /\ \A n \in 1 .. l : r1.due[n] = IF n = l THEN <<>> ELSE r.due[n + 1]
      /\ l # 0 => r.due[1] \in Seq(T)
    <2>1. ChanOk(r, l)
        BY <1>1
    <2>2. Moved(T, r, r1, l)
        BY <2>1, ChanAdvance
    <2> QED
        BY <2>2 DEF Moved
<1>3. AnswerInWay(l, p, a + 1, r1)
    <2>1. ASSUME NEW n \in 1 .. l, r1.due[n] # <<>> PROVE (a + 1) + n \in 2 * l .. 2 * l + AheadOf(p)
        <3>1. n # l
            BY <1>2, <2>1
        <3>2. n + 1 \in 1 .. l /\ r.due[n + 1] # <<>>
            BY <1>2, <2>1, <3>1
        <3>3. a + (n + 1) \in 2 * l .. 2 * l + AheadOf(p)
            BY <1>1, <3>2 DEF AnswerInWay
        <3>4. a + (n + 1) = (a + 1) + n
            BY <1>1
        <3> QED
            BY <3>3, <3>4
    <2> QED
        BY <2>1 DEF AnswerInWay
<1>4. r.st = <<>>
    <2>1. "clock" \notin {"memory", "imem", p}
        BY DEF Port
    <2> QED
        BY <1>1, <2>1 DEF AnswerArrived
<1>5. AnswerArrived(l, p, a + 1, r1, "memory")
    <2>1. ASSUME r1.st # <<>> PROVE a + 1 \in Trip(l) .. Trip(l) + AheadOf(p)
        <3>1. l # 0
            BY <1>2, <1>4, <2>1
        <3>2. r1.st = r.due[1]
            <4>1. <<>> \o r.due[1] = r.due[1]
                BY <1>2, <3>1, ConcatEmpty
            <4> QED
                BY <1>2, <1>4, <3>1, <4>1
        <3>3. 1 \in 1 .. l
            BY <3>1
        <3>4. a + 1 \in 2 * l .. 2 * l + AheadOf(p)
            BY <1>1, <2>1, <3>2, <3>3 DEF AnswerInWay
        <3> QED
            BY <3>1, <3>4 DEF Trip
    <2> QED
        BY <2>1 DEF AnswerArrived
<1> QED
    BY <1>3, <1>5

(* A port that waits for nothing has writes only, and no answer. *)
LEMMA NotWaiting ==
    ASSUME NEW T, NEW l \in Nat, NEW p \in Port, NEW a, NEW q \in Views(T, l),
           NEW r \in Views(T, l), NEW t, NEW s,
           ChanOk(q, l), ChanOk(r, l), Order(p, FALSE, q, r), t \in {"memory", "imem", "dmem", "clock"}
    PROVE  Ages(l, p, FALSE, 0, q, r, t)
<1>1. ~ Reads(All(q)) /\ Len(All(r)) = 0
    BY DEF Order
<1>2. Quiet(r, l)
    BY <1>1, QuietAnswers
<1>3. q.now = <<>>
    BY DEF ChanOk
<1>4. \A y : Holds(q.st, y) \/ (\E n \in 1 .. l : Holds(q.due[n], y)) => y.is_write
    <2> SUFFICES ASSUME NEW y, Holds(q.st, y) \/ (\E n \in 1 .. l : Holds(q.due[n], y))
                 PROVE  y.is_write
        OBVIOUS
    <2>1. Holds(All(q), y)
        BY <1>3, AllHolds
    <2> QED
        BY <1>1, <2>1, ReadsHolds
<1>5. ReadInWay(l, 0, q)
    BY <1>4 DEF ReadInWay
<1>6. ReadArrived(l, p, 0, q, t)
    BY <1>4 DEF ReadArrived, Holds
<1>7. AnswerInWay(l, p, 0, r) /\ AnswerArrived(l, p, 0, r, t)
    BY <1>2 DEF Quiet, AnswerInWay, AnswerArrived
<1> QED
    BY <1>5, <1>6, <1>7 DEF Ages

LEMMA PortClock ==
    ASSUME NEW T, NEW l \in Nat, NEW p \in Port, NEW w, NEW a, NEW q \in Views(T, l),
           NEW r \in Views(T, l), NEW q1 \in Views(T, l), NEW r1 \in Views(T, l),
           PortOk(l, p, w, a, q, r, "clock"), IsAdvanced(q, q1, l), IsAdvanced(r, r1, l)
    PROVE  PortOk(l, p, w, IF w THEN a + 1 ELSE 0, q1, r1, "memory")
<1>1. /\ ChanOk(q, l) /\ ChanOk(r, l) /\ Order(p, w, q, r) /\ Ages(l, p, w, a, q, r, "clock")
    BY DEF PortOk
<1>2. /\ ChanOk(q1, l) /\ Ready(q1, l) /\ All(q1) = All(q)
    <2>1. ChanOk(q, l)
        BY <1>1
    <2>2. Moved(T, q, q1, l)
        BY <2>1, ChanAdvance
    <2> QED
        BY <2>2 DEF Moved
<1>3. /\ ChanOk(r1, l) /\ Ready(r1, l) /\ All(r1) = All(r)
    <2>1. ChanOk(r, l)
        BY <1>1
    <2>2. Moved(T, r, r1, l)
        BY <2>1, ChanAdvance
    <2> QED
        BY <2>2 DEF Moved
<1>4. Order(p, w, q1, r1)
    BY <1>1, <1>2, <1>3 DEF Order
<1>5. w \in BOOLEAN /\ a \in Nat
    BY <1>1 DEF Ages
<1>6. CASE w = TRUE
    <2>1. ReadInWay(l, a + 1, q1) /\ ReadArrived(l, p, a + 1, q1, "memory")
        BY <1>6, ClockRead
    <2>2. AnswerInWay(l, p, a + 1, r1) /\ AnswerArrived(l, p, a + 1, r1, "memory")
        BY ClockAnswer
    <2>3. a + 1 \in Nat
        BY <1>5
    <2>4. Ages(l, p, w, a + 1, q1, r1, "memory")
        BY <1>5, <1>6, <2>1, <2>2, <2>3 DEF Ages
    <2>5. PortOk(l, p, w, a + 1, q1, r1, "memory")
        BY <1>2, <1>3, <1>4, <2>4 DEF PortOk
    <2> QED
        BY <1>6, <2>5
<1>7. CASE w = FALSE
    <2>1. Order(p, FALSE, q1, r1)
        BY <1>4, <1>7
    <2>2. Ages(l, p, FALSE, 0, q1, r1, "memory")
        BY <1>2, <1>3, <2>1, NotWaiting
    <2>3. PortOk(l, p, FALSE, 0, q1, r1, "memory")
        BY <1>2, <1>3, <2>1, <2>2 DEF PortOk
    <2> QED
        BY <1>7, <2>3
<1> QED
    BY <1>5, <1>6, <1>7

-------------------------------------------------------------------------------
(* The two ports and the platform. *)

Req(p) == <<p, "req">>
Rsp(p) == <<p, "to_cache">>

LEMMA TheChannels ==
    /\ Endpoint = Port \X {"req", "to_cache"}
    /\ \A p \in Port : /\ Req(p) \in Endpoint /\ Rsp(p) \in Endpoint /\ Req(p) # Rsp(p)
                       /\ <<p, "to_memory">> \in Channel /\ endpoint(<<p, "to_memory">>) = Req(p)
                       /\ <<p, "rsp">> \in Channel /\ endpoint(<<p, "rsp">>) = Rsp(p)
    /\ \A p \in Port, o \in Port : p # o => Req(p) # Req(o) /\ Rsp(p) # Rsp(o)
    /\ \A p \in Port, o \in Port : Req(p) # Rsp(o)
<1>1. Channel = Port \X {"to_memory", "req", "rsp", "to_cache"} /\ DOMAIN sink = Port \X {"to_memory", "rsp"}
    BY BindingAssumption DEF Channels, Bindings
<1>2. Endpoint = Port \X {"req", "to_cache"}
    BY <1>1 DEF Endpoint
<1>3. ASSUME NEW p \in Port
      PROVE  /\ Req(p) \in Endpoint /\ Rsp(p) \in Endpoint /\ Req(p) # Rsp(p)
             /\ <<p, "to_memory">> \in Channel /\ endpoint(<<p, "to_memory">>) = Req(p)
             /\ <<p, "rsp">> \in Channel /\ endpoint(<<p, "rsp">>) = Rsp(p)
    <2>1. Req(p) \in Endpoint /\ Rsp(p) \in Endpoint /\ Req(p) # Rsp(p)
        BY <1>2 DEF Req, Rsp
    <2>2. <<p, "to_memory">> \in DOMAIN sink /\ <<p, "rsp">> \in DOMAIN sink
        BY <1>1
    <2>3. sink[<<p, "to_memory">>] = Req(p) /\ sink[<<p, "rsp">>] = Rsp(p)
        BY <1>1, <2>2, BindingAssumption DEF Bindings, Req, Rsp
    <2>4. endpoint(<<p, "to_memory">>) = Req(p) /\ endpoint(<<p, "rsp">>) = Rsp(p)
        BY <2>2, <2>3 DEF endpoint
    <2>5. <<p, "to_memory">> \in Channel /\ <<p, "rsp">> \in Channel
        BY <1>1
    <2> QED
        BY <2>1, <2>4, <2>5
<1>4. \A p \in Port, o \in Port : p # o => Req(p) # Req(o) /\ Rsp(p) # Rsp(o)
    BY DEF Req, Rsp
<1>5. \A p \in Port, o \in Port : Req(p) # Rsp(o)
    BY DEF Req, Rsp
<1> QED
    BY <1>2, <1>3, <1>4, <1>5

LEMMA MoreTypes ==
    ASSUME NEW T, NEW S, T \subseteq S, NEW s \in Platform(T)
    PROVE  s \in Platform(S)
<1>1. Seq(T) \subseteq Seq(S)
    OBVIOUS
<1>2. Event(T) \subseteq Event(S)
    BY DEF Event
<1>3. Seq(Event(T)) \subseteq Seq(Event(S))
    BY <1>2
<1>4. [Endpoint -> Seq(T)] \subseteq [Endpoint -> Seq(S)]
    BY <1>1
<1>5. [Bucket -> Seq(Event(T))] \subseteq [Bucket -> Seq(Event(S))]
    BY <1>3
<1> HIDE DEF Event
<1> QED
    BY <1>3, <1>4, <1>5 DEF Platform

Ticks == {"memory", "imem", "dmem", "clock"}

(* The platform, and the two ports. *)
SysOk(T, s, l, w, a, t) ==
    /\ l \in Nat /\ t \in Ticks /\ s \in Platform(T) /\ RegOk(s, l)
    /\ s.imm_events = <<>> /\ s.delta = 0
    /\ \A p \in Port : PortOk(l, p, w[p], a[p], View(s, l, Req(p)), View(s, l, Rsp(p)), t)

(* A platform that has nothing to fire, and the channels of a port. *)
LEMMA NothingToFire ==
    ASSUME NEW T, NEW l \in Nat, NEW v \in Views(T, l), NEW w \in Views(T, l),
           IsArrived(v, w), v.now = <<>>
    PROVE  w = v
<1>1. w.st = v.st \o <<>> /\ w.pd = v.pd - Len(<<>>) /\ w.now = v.now /\ w.due = v.due
    BY DEF IsArrived
<1>2. v.st \o <<>> = v.st
    BY ViewParts, ConcatEmpty
<1>3. v.pd - Len(<<>>) = v.pd
    <2>1. v.pd \in Int /\ Len(<<>>) = 0
        BY ViewParts
    <2> QED
        BY <2>1
<1> QED
    BY <1>1, <1>2, <1>3, SameParts

LEMMA NowEmpty ==
    ASSUME NEW s, NEW l, NEW ch, s.imm_events = <<>>
    PROVE  View(s, l, ch).now = <<>>
<1>1. NowIn(s, ch) = <<>>
    BY AmongEmpty DEF NowIn
<1>2. Pkts(<<>>) = <<>>
    BY DEF Pkts
<1> QED
    BY <1>1, <1>2 DEF View

LEMMA FireNothing ==
    ASSUME NEW T, NEW s \in Platform(T), NEW l \in Nat, RegOk(s, l), s.imm_events = <<>>, s.delta = 0
    PROVE  LET r == fire_immediate_events(s)
           IN  /\ r \in Platform(T) /\ RegOk(r, l) /\ r.imm_events = <<>> /\ r.delta = 0
               /\ \A ch \in Endpoint : View(r, l, ch) = View(s, l, ch)
<1> DEFINE r == fire_immediate_events(s)
<1>1. ImmOk(T, s)
    BY DEF ImmOk
<1>2. /\ r \in Platform(T) /\ RegOk(r, l) /\ r.imm_events = <<>> /\ r.delta = 0
      /\ \A ch \in Endpoint : IsArrived(View(s, l, ch), View(r, l, ch))
    BY <1>1, FireEffect
<1> HIDE DEF r
<1>3. ASSUME NEW ch \in Endpoint PROVE View(r, l, ch) = View(s, l, ch)
    <2>1. View(s, l, ch).now = <<>>
        BY NowEmpty
    <2>2. View(s, l, ch) \in Views(T, l) /\ View(r, l, ch) \in Views(T, l)
        BY <1>2, ViewType
    <2>3. IsArrived(View(s, l, ch), View(r, l, ch))
        BY <1>2
    <2> DEFINE v == View(s, l, ch)
               u == View(r, l, ch)
    <2> HIDE DEF v, u
    <2>4. v \in Views(T, l) /\ u \in Views(T, l) /\ v.now = <<>> /\ IsArrived(v, u)
        BY <2>1, <2>2, <2>3 DEF v, u
    <2>5. u = v
        BY <2>4, NothingToFire
    <2> QED
        BY <2>5 DEF u, v
<1> QED
    BY <1>2, <1>3 DEF r

(* What service_port makes of the platform, x being what a read finds. *)
Served(s, x, p, l) ==
    IF empty(s, Req(p)) THEN s
    ELSE IF peek(s, Req(p)).is_write THEN pop(s, Req(p))
    ELSE IF full(s, <<p, "rsp">>) THEN s
    ELSE pop(send(s, <<p, "rsp">>, x, l), Req(p))

(* What it does at the port, before the events are fired. *)
ServeMove(x, T, l, q, r, q1, r1) ==
    \/ q.st = <<>> /\ q1 = q /\ r1 = r
    \/ /\ q.st # <<>> /\ Head(q.st).is_write
       /\ IsPopped(q, q1) /\ r1 = r
    \/ /\ q.st # <<>> /\ ~ Head(q.st).is_write /\ Len(r.st) + r.pd >= CAPACITY
       /\ q1 = q /\ r1 = r
    \/ /\ q.st # <<>> /\ ~ Head(q.st).is_write /\ Len(r.st) + r.pd < CAPACITY
       /\ IsPopped(q, q1)
       /\ IsSent(r, r1, x, l)

(* What it adds to the events that take no time. *)
Sends(T, c, l, s, r) ==
    \/ r.imm_events = s.imm_events /\ r.delta = s.delta
    \/ \E x \in T : /\ l = 0 /\ r.delta = s.delta + 1
                    /\ r.imm_events = push_back(s.imm_events, EventOf(c, x, s.delta))

LEMMA ServeEffect ==
    ASSUME NEW T, NEW s \in Platform(T), NEW l \in Nat, RegOk(s, l), NEW p \in Port, NEW x \in T,
           MaySend(View(s, l, Rsp(p)), l)
    PROVE  LET r == Served(s, x, p, l)
           IN  /\ r \in Platform(T) /\ RegOk(r, l)
               /\ ServeMove(x, T, l, View(s, l, Req(p)), View(s, l, Rsp(p)),
                                  View(r, l, Req(p)), View(r, l, Rsp(p)))
               /\ \A ch \in Endpoint \ {Req(p), Rsp(p)} : View(r, l, ch) = View(s, l, ch)
               /\ Sends(T, <<p, "rsp">>, l, s, r)
<1> DEFINE r == Served(s, x, p, l)
           c == <<p, "rsp">>
           a == Req(p)
           b == Rsp(p)
<1>1. /\ a \in Endpoint /\ b \in Endpoint /\ a # b /\ c \in Channel /\ endpoint(c) = b
    BY TheChannels
<1>2. /\ View(s, l, a).st = s.storage[a] /\ View(s, l, b).st = s.storage[b]
      /\ View(s, l, b).pd = s.pending[b]
    BY DEF View
<1>3. /\ empty(s, a) <=> s.storage[a] = <<>>
      /\ peek(s, a) = Head(s.storage[a])
      /\ full(s, c) <=> Len(s.storage[b]) + s.pending[b] >= CAPACITY
    BY <1>1 DEF empty, peek, full, occupancy
<1>4. Len(s.storage[b]) + s.pending[b] \in Int /\ CAPACITY \in Int
    <2>1. s.storage[b] \in Seq(T) /\ s.pending[b] \in Int
        BY <1>1 DEF Platform
    <2>2. CAPACITY \in Nat
        BY PlatformAssumption
    <2> QED
        BY <2>1, <2>2
<1>5. CASE empty(s, a) \/ (~ empty(s, a) /\ ~ peek(s, a).is_write /\ full(s, c))
    <2>1. r = s
        BY <1>5 DEF Served
    <2>2. ServeMove(x, T, l, View(s, l, a), View(s, l, b), View(s, l, a), View(s, l, b))
        BY <1>2, <1>3, <1>5 DEF ServeMove
    <2> QED
        BY <2>1, <2>2 DEF Sends
<1>6. CASE ~ empty(s, a) /\ peek(s, a).is_write
    <2>1. r = pop(s, a)
        BY <1>6 DEF Served
    <2> HIDE DEF r, a, b
    <2>2. /\ r \in Platform(T) /\ RegOk(r, l)
          /\ r.imm_events = s.imm_events /\ r.delta = s.delta
          /\ IsPopped(View(s, l, a), View(r, l, a))
          /\ \A ch \in Endpoint \ {a} : View(r, l, ch) = View(s, l, ch)
        BY <1>1, <1>3, <1>6, <2>1, PopEffect
    <2>3. View(r, l, b) = View(s, l, b)
        BY <1>1, <2>2
    <2>4. View(s, l, a).st # <<>> /\ Head(View(s, l, a).st).is_write
        BY <1>2, <1>3, <1>6
    <2>5. ServeMove(x, T, l, View(s, l, a), View(s, l, b), View(r, l, a), View(r, l, b))
        BY <2>2, <2>3, <2>4 DEF ServeMove
    <2> QED
        BY <2>2, <2>5 DEF Sends, r, a, b
<1>7. CASE ~ empty(s, a) /\ ~ peek(s, a).is_write /\ ~ full(s, c)
    <2> DEFINE u == send(s, c, x, l)
    <2>1. r = pop(u, a)
        BY <1>7 DEF Served
    <2>2. /\ u \in Platform(T) /\ RegOk(u, l)
          /\ IsSent(View(s, l, b), View(u, l, b), x, l)
          /\ \A ch \in Endpoint \ {b} : View(u, l, ch) = View(s, l, ch)
          /\ u.delta = IF l = 0 THEN s.delta + 1 ELSE s.delta
          /\ u.imm_events = IF l = 0 THEN push_back(s.imm_events, EventOf(c, x, s.delta))
                            ELSE s.imm_events
        <3> HIDE DEF b, c
        <3>1. MaySend(View(s, l, endpoint(c)), l)
            BY <1>1 DEF b
        <3> QED
            BY <1>1, <3>1, SendEffect
    <2> HIDE DEF r, a, b, u, c
    <2>3. View(u, l, a) = View(s, l, a)
        BY <1>1, <2>2
    <2>4. u.storage[a] # <<>>
        <3>1. View(u, l, a).st = u.storage[a]
            BY DEF View
        <3> QED
            BY <1>2, <1>3, <1>7, <2>3, <3>1
    <2>5. /\ r \in Platform(T) /\ RegOk(r, l)
          /\ r.imm_events = u.imm_events /\ r.delta = u.delta
          /\ IsPopped(View(u, l, a), View(r, l, a))
          /\ \A ch \in Endpoint \ {a} : View(r, l, ch) = View(u, l, ch)
        BY <1>1, <2>1, <2>2, <2>4, PopEffect
    <2>6. View(r, l, b) = View(u, l, b)
        BY <1>1, <2>5
    <2>7. /\ View(s, l, a).st # <<>> /\ ~ Head(View(s, l, a).st).is_write
          /\ Len(View(s, l, b).st) + View(s, l, b).pd < CAPACITY
        BY <1>2, <1>3, <1>4, <1>7
    <2>8. ServeMove(x, T, l, View(s, l, a), View(s, l, b), View(r, l, a), View(r, l, b))
        <3>1. IsPopped(View(s, l, a), View(r, l, a))
            BY <2>3, <2>5
        <3>2. IsSent(View(s, l, b), View(r, l, b), x, l)
            BY <2>2, <2>6
        <3> QED
            BY <2>7, <3>1, <3>2 DEF ServeMove
    <2>9. \A ch \in Endpoint \ {a, b} : View(r, l, ch) = View(s, l, ch)
        BY <2>2, <2>5
    <2>10. Sends(T, c, l, s, r)
        BY <2>2, <2>5 DEF Sends
    <2> QED
        BY <2>5, <2>8, <2>9, <2>10 DEF r, a, b, c
<1> QED
    BY <1>5, <1>6, <1>7

(* And when they have been fired. *)
LEMMA ServeFire ==
    ASSUME NEW T, NEW l \in Nat,
           NEW q \in Views(T, l), NEW r \in Views(T, l), NEW q1 \in Views(T, l), NEW r1 \in Views(T, l),
           NEW q2 \in Views(T, l), NEW r2 \in Views(T, l), NEW x \in T, q.now = <<>>, r.now = <<>>,
           ServeMove(x, T, l, q, r, q1, r1), IsArrived(q1, q2), IsArrived(r1, r2)
    PROVE  MemoryMove(x, T, l, q, r, q2, r2)
<1>1. q1.now = <<>>
    BY DEF ServeMove, IsPopped
<1>2. q2 = q1
    BY <1>1, NothingToFire
<1>3. r1 = r => r2 = r
    <2>1. ASSUME r1 = r PROVE r1.now = <<>>
        BY <2>1
    <2> QED
        BY <2>1, NothingToFire
<1> QED
    BY <1>2, <1>3 DEF ServeMove, MemoryMove

(* The events of the two ports. *)
LEMMA SendsOk ==
    ASSUME NEW T, NEW l \in Nat, NEW s \in Platform(T), NEW u \in Platform(T), NEW v \in Platform(T),
           s.imm_events = <<>>, s.delta = 0, NEW c \in Channel, NEW d \in Channel,
           endpoint(c) # endpoint(d), Sends(T, c, l, s, u), Sends(T, d, l, u, v)
    PROVE  ImmOk(T, v)
<1>1. \A x \in T, k \in Channel, n \in Int : /\ EventOf(k, x, n) \in Event(T)
                                             /\ EventOf(k, x, n).cycles = n
                                             /\ EventOf(k, x, n).channel = k
    BY DEF EventOf, Event
<1>2. \/ u.imm_events = <<>> /\ u.delta = 0
      \/ \E x \in T : u.imm_events = <<EventOf(c, x, 0)>> /\ u.delta = 1
    BY DEF Sends, push_back
<1>3. \A e : push_back(<<>>, e) = <<e>>
    BY DEF push_back
<1>4. \A e \in Event(T), f \in Event(T) : push_back(<<e>>, f) = <<f, e>>
    <2> TAKE e \in Event(T), f \in Event(T)
    <2>1. <<e>> # <<>> /\ <<e>> \in Seq(Event(T)) /\ Len(<<e>>) = 1
        OBVIOUS
    <2>2. Front(<<e>>) \in Seq(Event(T)) /\ Len(Front(<<e>>)) = Len(<<e>>) - 1
        BY <2>1, SplitEnd
    <2>3. Front(<<e>>) = <<>>
        BY <2>1, <2>2
    <2>4. Last(<<e>>) = e
        BY DEF Last
    <2>5. <<f, e>> \in Seq(Event(T))
        OBVIOUS
    <2>6. push_back(<<e>>, f) = <<>> \o <<f, e>>
        BY <2>1, <2>3, <2>4 DEF push_back
    <2> QED
        BY <2>5, <2>6, ConcatEmpty
<1> HIDE DEF Event
<1>5. CASE u.imm_events = <<>> /\ u.delta = 0
    <2>1. \/ v.imm_events = <<>> /\ v.delta = 0
          \/ \E x \in T : v.imm_events = <<EventOf(d, x, 0)>> /\ v.delta = 1
        BY <1>3, <1>5 DEF Sends
    <2>2. ASSUME NEW x \in T, v.imm_events = <<EventOf(d, x, 0)>>, v.delta = 1 PROVE ImmOk(T, v)
        <3>1. EventOf(d, x, 0) \in Event(T) /\ EventOf(d, x, 0).cycles = 0
            BY <1>1
        <3> QED
            BY <2>2, <3>1 DEF ImmOk
    <2> QED
        BY <2>1, <2>2 DEF ImmOk
<1>6. ASSUME NEW x \in T, u.imm_events = <<EventOf(c, x, 0)>>, u.delta = 1 PROVE ImmOk(T, v)
    <2> DEFINE e == EventOf(c, x, 0)
    <2>1. e \in Event(T) /\ e.cycles = 0 /\ e.channel = c
        BY <1>1
    <2>2. CASE v.imm_events = u.imm_events /\ v.delta = u.delta
        BY <1>6, <2>1, <2>2 DEF ImmOk
    <2>3. ASSUME NEW y \in T, v.delta = u.delta + 1,
                 v.imm_events = push_back(u.imm_events, EventOf(d, y, u.delta))
          PROVE  ImmOk(T, v)
        <3> DEFINE f == EventOf(d, y, 1)
        <3>1. f \in Event(T) /\ f.cycles = 1 /\ f.channel = d
            BY <1>1
        <3>2. v.delta = 2
            BY <1>6, <2>3
        <3>3. v.imm_events = push_back(<<e>>, f)
            BY <1>6, <2>3
        <3>4. endpoint(e.channel) # endpoint(f.channel)
            BY <2>1, <3>1
        <3> HIDE DEF e, f
        <3>5. v.imm_events = <<f, e>>
            BY <1>4, <2>1, <3>1, <3>3
        <3> QED
            BY <2>1, <3>1, <3>2, <3>4, <3>5 DEF ImmOk
    <2> QED
        BY <2>2, <2>3 DEF Sends
<1> QED
    BY <1>2, <1>5, <1>6

(* The tick of the memory, x and y being what reads of its two ports find. *)
Found(p, x, y) == IF p = "imem" THEN x ELSE y

MemoryTurn(s, r, l, x, y) ==
    \A p \in Port : Answered(Found(p, x, y), View(s, l, Req(p)), View(s, l, Rsp(p)),
                                             View(r, l, Req(p)), View(r, l, Rsp(p)))

LEMMA SysMemory ==
    ASSUME NEW T, NEW s, NEW l, NEW w, NEW a, SysOk(T, s, l, w, a, "memory"), NEW x \in T, NEW y \in T
    PROVE  LET r == fire_immediate_events(Served(Served(fire_immediate_events(s), x, "imem", l),
                                                 y, "dmem", l))
           IN  SysOk(T, r, l, w, a, "imem") /\ MemoryTurn(s, r, l, x, y)
<1> DEFINE s0 == fire_immediate_events(s)
           s1 == Served(s0, x, "imem", l)
           s2 == Served(s1, y, "dmem", l)
           s3 == fire_immediate_events(s2)
<1>1. /\ l \in Nat /\ s \in Platform(T) /\ RegOk(s, l) /\ s.imm_events = <<>> /\ s.delta = 0
      /\ \A p \in Port : PortOk(l, p, w[p], a[p], View(s, l, Req(p)), View(s, l, Rsp(p)), "memory")
    BY DEF SysOk
<1>2. /\ "imem" \in Port /\ "dmem" \in Port /\ "imem" # "dmem"
      /\ \A p \in Port : p = "imem" \/ p = "dmem"
    BY DEF Port
<1>3. /\ Req("imem") \in Endpoint /\ Rsp("imem") \in Endpoint
      /\ Req("dmem") \in Endpoint /\ Rsp("dmem") \in Endpoint
      /\ Req("dmem") \notin {Req("imem"), Rsp("imem")} /\ Rsp("dmem") \notin {Req("imem"), Rsp("imem")}
    BY <1>2, TheChannels
<1>4. /\ <<"imem", "rsp">> \in Channel /\ <<"dmem", "rsp">> \in Channel
      /\ endpoint(<<"imem", "rsp">>) # endpoint(<<"dmem", "rsp">>)
    <2>1. <<"imem", "rsp">> \in Channel /\ endpoint(<<"imem", "rsp">>) = Rsp("imem")
        BY <1>2, TheChannels
    <2>2. <<"dmem", "rsp">> \in Channel /\ endpoint(<<"dmem", "rsp">>) = Rsp("dmem")
        BY <1>2, TheChannels
    <2> QED
        BY <1>3, <2>1, <2>2
<1>5. /\ s0 \in Platform(T) /\ RegOk(s0, l) /\ s0.imm_events = <<>> /\ s0.delta = 0
      /\ \A ch \in Endpoint : View(s0, l, ch) = View(s, l, ch)
    BY <1>1, FireNothing
<1> HIDE DEF s0
<1>6. ASSUME NEW p \in Port
      PROVE  /\ Req(p) \in Endpoint /\ Rsp(p) \in Endpoint
             /\ PortOk(l, p, w[p], a[p], View(s0, l, Req(p)), View(s0, l, Rsp(p)), "memory")
             /\ View(s0, l, Req(p)).now = <<>> /\ View(s0, l, Rsp(p)).now = <<>>
             /\ MaySend(View(s0, l, Rsp(p)), l)
    <2>1. Req(p) \in Endpoint /\ Rsp(p) \in Endpoint
        BY TheChannels
    <2>2. PortOk(l, p, w[p], a[p], View(s0, l, Req(p)), View(s0, l, Rsp(p)), "memory")
        BY <1>1, <1>5, <2>1
    <2>3. View(s0, l, Req(p)).now = <<>> /\ View(s0, l, Rsp(p)).now = <<>>
        BY <2>2 DEF PortOk, ChanOk
    <2>4. Ready(View(s0, l, Rsp(p)), l)
        BY <2>2 DEF PortOk
    <2>5. MaySend(View(s0, l, Rsp(p)), l)
        BY <2>3, <2>4 DEF Ready, MaySend
    <2> QED
        BY <2>1, <2>2, <2>3, <2>5
<1>7. /\ s1 \in Platform(T) /\ RegOk(s1, l)
      /\ ServeMove(x, T, l, View(s0, l, Req("imem")), View(s0, l, Rsp("imem")),
                         View(s1, l, Req("imem")), View(s1, l, Rsp("imem")))
      /\ \A ch \in Endpoint \ {Req("imem"), Rsp("imem")} : View(s1, l, ch) = View(s0, l, ch)
      /\ Sends(T, <<"imem", "rsp">>, l, s0, s1)
    BY <1>1, <1>2, <1>5, <1>6, ServeEffect
<1> HIDE DEF s1
<1>8. View(s1, l, Req("dmem")) = View(s0, l, Req("dmem")) /\ View(s1, l, Rsp("dmem")) = View(s0, l, Rsp("dmem"))
    BY <1>3, <1>7
<1>9. /\ s2 \in Platform(T) /\ RegOk(s2, l)
      /\ ServeMove(y, T, l, View(s1, l, Req("dmem")), View(s1, l, Rsp("dmem")),
                         View(s2, l, Req("dmem")), View(s2, l, Rsp("dmem")))
      /\ \A ch \in Endpoint \ {Req("dmem"), Rsp("dmem")} : View(s2, l, ch) = View(s1, l, ch)
      /\ Sends(T, <<"dmem", "rsp">>, l, s1, s2)
    <2>1. MaySend(View(s1, l, Rsp("dmem")), l)
        BY <1>2, <1>6, <1>8
    <2> QED
        BY <1>1, <1>2, <1>7, <2>1, ServeEffect
<1> HIDE DEF s2
<1>10. View(s2, l, Req("imem")) = View(s1, l, Req("imem")) /\ View(s2, l, Rsp("imem")) = View(s1, l, Rsp("imem"))
    <2>1. Req("imem") \notin {Req("dmem"), Rsp("dmem")} /\ Rsp("imem") \notin {Req("dmem"), Rsp("dmem")}
        BY <1>3
    <2> QED
        BY <1>3, <1>9, <2>1
<1>11. \A p \in Port : ServeMove(Found(p, x, y), T, l, View(s0, l, Req(p)), View(s0, l, Rsp(p)),
                                       View(s2, l, Req(p)), View(s2, l, Rsp(p)))
    <2>1. Found("imem", x, y) = x /\ Found("dmem", x, y) = y
        BY DEF Found
    <2>2. ServeMove(x, T, l, View(s0, l, Req("imem")), View(s0, l, Rsp("imem")),
                             View(s2, l, Req("imem")), View(s2, l, Rsp("imem")))
        BY <1>7, <1>10
    <2>3. ServeMove(y, T, l, View(s0, l, Req("dmem")), View(s0, l, Rsp("dmem")),
                             View(s2, l, Req("dmem")), View(s2, l, Rsp("dmem")))
        BY <1>8, <1>9
    <2> QED
        BY <1>2, <2>1, <2>2, <2>3
<1>12. ImmOk(T, s2)
    BY <1>1, <1>4, <1>5, <1>7, <1>9, SendsOk
<1>13. /\ s3 \in Platform(T) /\ RegOk(s3, l) /\ s3.imm_events = <<>> /\ s3.delta = 0
       /\ \A ch \in Endpoint : IsArrived(View(s2, l, ch), View(s3, l, ch))
    BY <1>1, <1>9, <1>12, FireEffect
<1> HIDE DEF s3
<1>14. ASSUME NEW p \in Port
       PROVE  /\ PortOk(l, p, w[p], a[p], View(s3, l, Req(p)), View(s3, l, Rsp(p)), "imem")
              /\ Answered(Found(p, x, y), View(s, l, Req(p)), View(s, l, Rsp(p)),
                                          View(s3, l, Req(p)), View(s3, l, Rsp(p)))
    <2> DEFINE z == Found(p, x, y)
               q == View(s0, l, Req(p))
               r == View(s0, l, Rsp(p))
               q1 == View(s2, l, Req(p))
               r1 == View(s2, l, Rsp(p))
               q2 == View(s3, l, Req(p))
               r2 == View(s3, l, Rsp(p))
    <2>1. /\ q \in Views(T, l) /\ r \in Views(T, l) /\ q1 \in Views(T, l) /\ r1 \in Views(T, l)
          /\ q2 \in Views(T, l) /\ r2 \in Views(T, l)
        BY <1>1, <1>5, <1>6, <1>9, <1>13, ViewType
    <2>2. q.now = <<>> /\ r.now = <<>> /\ PortOk(l, p, w[p], a[p], q, r, "memory")
        BY <1>6
    <2>3. ServeMove(z, T, l, q, r, q1, r1) /\ IsArrived(q1, q2) /\ IsArrived(r1, r2)
        BY <1>6, <1>11, <1>13
    <2>6. q = View(s, l, Req(p)) /\ r = View(s, l, Rsp(p))
        BY <1>5, <1>6
    <2>7. z \in T
        BY DEF Found
    <2> HIDE DEF q, r, q1, r1, q2, r2, z
    <2>4. MemoryMove(z, T, l, q, r, q2, r2)
        BY <1>1, <2>1, <2>2, <2>3, <2>7, ServeFire
    <2>5. PortOk(l, p, w[p], a[p], q2, r2, "imem")
        BY <1>1, <2>1, <2>2, <2>4, <2>7, PortMemory
    <2>8. Answered(z, q, r, q2, r2)
        BY <1>1, <2>1, <2>2, <2>4, <2>7, PortAnswered
    <2> QED
        BY <2>5, <2>6, <2>8 DEF q2, r2, z
<1>15. "imem" \in Ticks
    BY DEF Ticks
<1>16. SysOk(T, s3, l, w, a, "imem")
    BY <1>1, <1>13, <1>14, <1>15 DEF SysOk
<1>17. MemoryTurn(s, s3, l, x, y)
    BY <1>14 DEF MemoryTurn
<1> QED
    BY <1>16, <1>17 DEF s0, s1, s2, s3

-------------------------------------------------------------------------------
(* The tick of a cache. *)
SameBut(s, r, l, ends) ==
    \A ch \in Endpoint \ ends : All(View(r, l, ch)) = All(View(s, l, ch))

LEMMA SysTake ==
    ASSUME NEW T, NEW s, NEW l, NEW w, NEW a, NEW p \in Port, SysOk(T, s, l, w, a, p),
           DOMAIN w = Port, DOMAIN a = Port, w[p], ~ empty(s, Rsp(p))
    PROVE  LET r == pop(s, Rsp(p))
           IN  /\ SysOk(T, r, l, [w EXCEPT ![p] = FALSE], [a EXCEPT ![p] = 0], After(p))
               /\ All(View(s, l, Rsp(p))) # <<>>
               /\ All(View(r, l, Rsp(p))) = Tail(All(View(s, l, Rsp(p))))
               /\ SameBut(s, r, l, {Rsp(p)})
<1> DEFINE r == pop(s, Rsp(p))
           w1 == [w EXCEPT ![p] = FALSE]
           a1 == [a EXCEPT ![p] = 0]
<1>1. /\ l \in Nat /\ s \in Platform(T) /\ RegOk(s, l) /\ s.imm_events = <<>> /\ s.delta = 0
      /\ \A o \in Port : PortOk(l, o, w[o], a[o], View(s, l, Req(o)), View(s, l, Rsp(o)), p)
    BY DEF SysOk
<1>2. \A o \in Port : Req(o) \in Endpoint /\ Rsp(o) \in Endpoint
    BY TheChannels
<1>3. s.storage[Rsp(p)] # <<>> /\ View(s, l, Rsp(p)).st = s.storage[Rsp(p)]
    BY DEF empty, View
<1>4. /\ r \in Platform(T) /\ RegOk(r, l)
      /\ r.imm_events = s.imm_events /\ r.delta = s.delta
      /\ IsPopped(View(s, l, Rsp(p)), View(r, l, Rsp(p)))
      /\ \A ch \in Endpoint \ {Rsp(p)} : View(r, l, ch) = View(s, l, ch)
    BY <1>1, <1>2, <1>3, PopEffect
<1> HIDE DEF r
<1>5. \A o \in Port : View(r, l, Req(o)) = View(s, l, Req(o))
    BY <1>2, <1>4, TheChannels
<1>6. \A o \in Port \ {p} : View(r, l, Rsp(o)) = View(s, l, Rsp(o))
    BY <1>2, <1>4, TheChannels
<1>7. ASSUME NEW o \in Port
      PROVE  /\ View(s, l, Req(o)) \in Views(T, l) /\ View(s, l, Rsp(o)) \in Views(T, l)
             /\ View(r, l, Req(o)) \in Views(T, l) /\ View(r, l, Rsp(o)) \in Views(T, l)
    BY <1>1, <1>2, <1>4, ViewType
<1>8. PortOk(l, p, FALSE, 0, View(r, l, Req(p)), View(r, l, Rsp(p)), After(p))
    <2>1. PortOk(l, p, FALSE, 0, View(s, l, Req(p)), View(r, l, Rsp(p)), After(p))
        BY <1>1, <1>3, <1>4, <1>7, PortTake
    <2> QED
        BY <1>5, <2>1
<1>9. ASSUME NEW o \in Port \ {p}
      PROVE  PortOk(l, o, w[o], a[o], View(r, l, Req(o)), View(r, l, Rsp(o)), After(p))
    <2>1. PortOk(l, o, w[o], a[o], View(s, l, Req(o)), View(s, l, Rsp(o)), After(p))
        BY <1>1, <1>7, PortOther
    <2> QED
        BY <1>5, <1>6, <2>1
<1>10. ASSUME NEW o \in Port
       PROVE  PortOk(l, o, w1[o], a1[o], View(r, l, Req(o)), View(r, l, Rsp(o)), After(p))
    BY <1>8, <1>9
<1> HIDE DEF w1, a1
<1>11. After(p) \in Ticks
    BY DEF After, Ticks
<1>12. SysOk(T, r, l, w1, a1, After(p))
    BY <1>1, <1>4, <1>10, <1>11 DEF SysOk
<1>13. /\ All(View(s, l, Rsp(p))) # <<>>
       /\ All(View(r, l, Rsp(p))) = Tail(All(View(s, l, Rsp(p))))
    <2> DEFINE u == View(s, l, Rsp(p))
               v == View(r, l, Rsp(p))
    <2>1. u \in Views(T, l) /\ v \in Views(T, l) /\ IsPopped(u, v) /\ u.st # <<>>
        BY <1>3, <1>4, <1>7
    <2> HIDE DEF u, v
    <2>2. All(v) = Tail(All(u)) /\ All(u) # <<>>
        BY <1>1, <2>1, WayPopped
    <2> QED
        BY <2>2 DEF u, v
<1>14. SameBut(s, r, l, {Rsp(p)})
    BY <1>4 DEF SameBut
<1> QED
    BY <1>12, <1>13, <1>14 DEF r, w1, a1

LEMMA SysStandBy ==
    ASSUME NEW T, NEW s, NEW l, NEW w, NEW a, NEW p \in Port, SysOk(T, s, l, w, a, p),
           w[p] => empty(s, Rsp(p))
    PROVE  SysOk(T, s, l, w, a, After(p))
<1>1. /\ l \in Nat /\ s \in Platform(T) /\ RegOk(s, l) /\ s.imm_events = <<>> /\ s.delta = 0
      /\ \A o \in Port : PortOk(l, o, w[o], a[o], View(s, l, Req(o)), View(s, l, Rsp(o)), p)
    BY DEF SysOk
<1>2. \A o \in Port : Req(o) \in Endpoint /\ Rsp(o) \in Endpoint
    BY TheChannels
<1>3. w[p] => View(s, l, Rsp(p)).st = <<>>
    BY DEF empty, View
<1>4. \A o \in Port : View(s, l, Req(o)) \in Views(T, l) /\ View(s, l, Rsp(o)) \in Views(T, l)
    BY <1>1, <1>2, ViewType
<1>5. PortOk(l, p, w[p], a[p], View(s, l, Req(p)), View(s, l, Rsp(p)), After(p))
    BY <1>1, <1>3, <1>4, PortStandBy
<1>6. \A o \in Port \ {p} : PortOk(l, o, w[o], a[o], View(s, l, Req(o)), View(s, l, Rsp(o)), After(p))
    BY <1>1, <1>4, PortOther
<1>7. After(p) \in Ticks
    BY DEF After, Ticks
<1> QED
    BY <1>1, <1>5, <1>6, <1>7 DEF SysOk

Asking(s, r, l, p, x) ==
    /\ Len(All(View(s, l, Req(p)))) < CAPACITY
    /\ All(View(r, l, Req(p))) = Append(All(View(s, l, Req(p))), x)
    /\ SameBut(s, r, l, {Req(p)})

LEMMA SysSend ==
    ASSUME NEW T, NEW s, NEW l, NEW w, NEW a, NEW p \in Port, SysOk(T, s, l, w, a, p),
           DOMAIN w = Port, w[p] = FALSE, ~ full(s, <<p, "to_memory">>),
           NEW x \in T, x.is_write \in BOOLEAN, p = "imem" => ~ x.is_write
    PROVE  LET r == fire_immediate_events(send(s, <<p, "to_memory">>, x, l))
           IN  /\ SysOk(T, r, l, [w EXCEPT ![p] = ~ x.is_write], a, After(p))
               /\ Asking(s, r, l, p, x)
<1> DEFINE c == <<p, "to_memory">>
           u == send(s, c, x, l)
           r == fire_immediate_events(u)
           w1 == [w EXCEPT ![p] = ~ x.is_write]
<1>1. /\ l \in Nat /\ s \in Platform(T) /\ RegOk(s, l) /\ s.imm_events = <<>> /\ s.delta = 0
      /\ \A o \in Port : PortOk(l, o, w[o], a[o], View(s, l, Req(o)), View(s, l, Rsp(o)), p)
    BY DEF SysOk
<1>2. \A o \in Port : Req(o) \in Endpoint /\ Rsp(o) \in Endpoint
    BY TheChannels
<1>3. c \in Channel /\ endpoint(c) = Req(p)
    BY TheChannels
<1>4. /\ ~ (Len(s.storage[Req(p)]) + s.pending[Req(p)] >= CAPACITY)
      /\ View(s, l, Req(p)).st = s.storage[Req(p)] /\ View(s, l, Req(p)).pd = s.pending[Req(p)]
    BY <1>3 DEF full, occupancy, View
<1>5. Len(View(s, l, Req(p)).st) + View(s, l, Req(p)).pd < CAPACITY
    <2>1. s.storage[Req(p)] \in Seq(T) /\ s.pending[Req(p)] \in Int /\ CAPACITY \in Nat
        BY <1>1, <1>2, PlatformAssumption DEF Platform
    <2> QED
        BY <1>4, <2>1
<1>6. MaySend(View(s, l, endpoint(c)), l)
    <2>1. PortOk(l, p, w[p], a[p], View(s, l, Req(p)), View(s, l, Rsp(p)), p)
        BY <1>1
    <2>2. View(s, l, Req(p)).now = <<>> /\ Ready(View(s, l, Req(p)), l)
        BY <2>1 DEF PortOk, ChanOk
    <2> QED
        BY <1>3, <2>2 DEF Ready, MaySend
<1> HIDE DEF c
<1>7. /\ u \in Platform(T) /\ RegOk(u, l)
      /\ IsSent(View(s, l, endpoint(c)), View(u, l, endpoint(c)), x, l)
      /\ \A ch \in Endpoint \ {endpoint(c)} : View(u, l, ch) = View(s, l, ch)
      /\ u.delta = IF l = 0 THEN s.delta + 1 ELSE s.delta
      /\ u.imm_events = IF l = 0 THEN push_back(s.imm_events, EventOf(c, x, s.delta))
                        ELSE s.imm_events
    BY <1>1, <1>3, <1>6, SendEffect
<1> HIDE DEF u
<1>8. ImmOk(T, u)
    <2>1. CASE l = 0
        <3>1. EventOf(c, x, 0) \in Event(T) /\ EventOf(c, x, 0).cycles = 0
            BY <1>3 DEF EventOf, Event
        <3>2. u.imm_events = <<EventOf(c, x, 0)>> /\ u.delta = 1
            BY <1>1, <1>7, <2>1 DEF push_back
        <3> QED
            BY <3>1, <3>2 DEF ImmOk
    <2>2. CASE l # 0
        BY <1>1, <1>7, <2>2 DEF ImmOk
    <2> QED
        BY <2>1, <2>2
<1>9. /\ r \in Platform(T) /\ RegOk(r, l) /\ r.imm_events = <<>> /\ r.delta = 0
      /\ \A ch \in Endpoint : IsArrived(View(u, l, ch), View(r, l, ch))
    BY <1>1, <1>7, <1>8, FireEffect
<1> HIDE DEF r
<1>10. ASSUME NEW ch \in Endpoint
       PROVE  View(s, l, ch) \in Views(T, l) /\ View(u, l, ch) \in Views(T, l) /\ View(r, l, ch) \in Views(T, l)
    BY <1>1, <1>7, <1>9, ViewType
<1>11. ASSUME NEW ch \in Endpoint \ {Req(p)}, View(s, l, ch).now = <<>>
       PROVE  View(r, l, ch) = View(s, l, ch)
    <2>1. View(u, l, ch) = View(s, l, ch)
        BY <1>3, <1>7
    <2>2. /\ View(u, l, ch).now = <<>> /\ IsArrived(View(u, l, ch), View(r, l, ch))
          /\ View(u, l, ch) \in Views(T, l) /\ View(r, l, ch) \in Views(T, l)
        BY <1>9, <1>10, <1>11, <2>1
    <2>3. View(r, l, ch) = View(u, l, ch)
        BY <1>1, <2>2, NothingToFire
    <2> QED
        BY <2>1, <2>3
<1>12. \A o \in Port : View(s, l, Req(o)).now = <<>> /\ View(s, l, Rsp(o)).now = <<>>
    BY <1>1, NowEmpty
<1>13. \A o \in Port : View(r, l, Rsp(o)) = View(s, l, Rsp(o))
    BY <1>2, <1>11, <1>12, TheChannels
<1>14. \A o \in Port \ {p} : View(r, l, Req(o)) = View(s, l, Req(o))
    BY <1>2, <1>11, <1>12, TheChannels
<1>15. PortOk(l, p, ~ x.is_write, a[p], View(r, l, Req(p)), View(r, l, Rsp(p)), After(p))
    <2> DEFINE q == View(s, l, Req(p))
               v == View(u, l, Req(p))
               q1 == View(r, l, Req(p))
               z == View(s, l, Rsp(p))
    <2>1. q \in Views(T, l) /\ v \in Views(T, l) /\ q1 \in Views(T, l) /\ z \in Views(T, l)
        BY <1>2, <1>10
    <2>2. IsSent(q, v, x, l) /\ IsArrived(v, q1)
        BY <1>2, <1>3, <1>7, <1>9
    <2>3. PortOk(l, p, FALSE, a[p], q, z, p)
        BY <1>1
    <2>4. Len(q.st) + q.pd < CAPACITY
        BY <1>5
    <2> HIDE DEF q, v, q1, z
    <2>5. PortOk(l, p, ~ x.is_write, a[p], q1, z, After(p))
        BY <1>1, <2>1, <2>2, <2>3, <2>4, PortSend
    <2> QED
        BY <1>13, <2>5 DEF q1, z
<1>16. ASSUME NEW o \in Port \ {p}
       PROVE  PortOk(l, o, w[o], a[o], View(r, l, Req(o)), View(r, l, Rsp(o)), After(p))
    <2>1. View(s, l, Req(o)) \in Views(T, l) /\ View(s, l, Rsp(o)) \in Views(T, l)
        BY <1>2, <1>10
    <2>2. PortOk(l, o, w[o], a[o], View(s, l, Req(o)), View(s, l, Rsp(o)), After(p))
        BY <1>1, <2>1, PortOther
    <2> QED
        BY <1>13, <1>14, <2>2
<1>17. w1[p] = (~ x.is_write) /\ \A o \in Port \ {p} : w1[o] = w[o]
    OBVIOUS
<1> HIDE DEF w1
<1>18. ASSUME NEW o \in Port
       PROVE  PortOk(l, o, w1[o], a[o], View(r, l, Req(o)), View(r, l, Rsp(o)), After(p))
    BY <1>15, <1>16, <1>17
<1>19. After(p) \in Ticks
    BY DEF After, Ticks
<1>20. SysOk(T, r, l, w1, a, After(p))
    BY <1>1, <1>9, <1>18, <1>19 DEF SysOk
<1>21. /\ Len(All(View(s, l, Req(p)))) < CAPACITY
       /\ All(View(r, l, Req(p))) = Append(All(View(s, l, Req(p))), x)
    <2> DEFINE q == View(s, l, Req(p))
               v == View(u, l, Req(p))
               q1 == View(r, l, Req(p))
    <2>1. q \in Views(T, l) /\ v \in Views(T, l) /\ q1 \in Views(T, l)
        BY <1>2, <1>10
    <2>2. IsSent(q, v, x, l) /\ IsArrived(v, q1) /\ MaySend(q, l)
        BY <1>2, <1>3, <1>6, <1>7, <1>9
    <2>3. ChanOk(q, l) /\ Len(q.st) + q.pd < CAPACITY
        BY <1>1, <1>5 DEF PortOk
    <2> HIDE DEF q, v, q1
    <2>4. All(v) = Append(All(q), x)
        BY <1>1, <2>1, <2>2, WaySent
    <2>5. All(q1) = All(v)
        BY <1>1, <2>1, <2>2, WayArrived
    <2>6. Len(All(q)) = Len(q.st) + q.pd
        BY <1>1, <2>1, <2>3, WayType DEF ChanOk
    <2> QED
        BY <2>3, <2>4, <2>5, <2>6 DEF q, q1
<1>22. SameBut(s, r, l, {Req(p)})
    <2>1. ASSUME NEW ch \in Endpoint \ {Req(p)} PROVE View(r, l, ch) = View(s, l, ch)
        <3>1. View(s, l, ch).now = <<>>
            BY <1>1, NowEmpty
        <3> QED
            BY <1>11, <3>1
    <2> QED
        BY <2>1 DEF SameBut
<1> QED
    BY <1>20, <1>21, <1>22 DEF r, w1, u, c, Asking

(* The clock. *)
LEMMA SysClock ==
    ASSUME NEW T, NEW s, NEW l, NEW w, NEW a, SysOk(T, s, l, w, a, "clock")
    PROVE  /\ SysOk(T, advance(s), l, w, [p \in Port |-> IF w[p] THEN a[p] + 1 ELSE 0], "memory")
           /\ SameBut(s, advance(s), l, {})
<1> DEFINE r == advance(s)
           b == [p \in Port |-> IF w[p] THEN a[p] + 1 ELSE 0]
<1>1. /\ l \in Nat /\ s \in Platform(T) /\ RegOk(s, l) /\ s.imm_events = <<>> /\ s.delta = 0
      /\ \A o \in Port : PortOk(l, o, w[o], a[o], View(s, l, Req(o)), View(s, l, Rsp(o)), "clock")
    BY DEF SysOk
<1>2. \A o \in Port : Req(o) \in Endpoint /\ Rsp(o) \in Endpoint
    BY TheChannels
<1>3. /\ r \in Platform(T) /\ RegOk(r, l)
      /\ r.imm_events = s.imm_events /\ r.delta = s.delta
      /\ \A ch \in Endpoint : IsAdvanced(View(s, l, ch), View(r, l, ch), l)
    BY <1>1, AdvanceEffect
<1> HIDE DEF r
<1>4. ASSUME NEW o \in Port
      PROVE  PortOk(l, o, w[o], b[o], View(r, l, Req(o)), View(r, l, Rsp(o)), "memory")
    <2> DEFINE q == View(s, l, Req(o))
               z == View(s, l, Rsp(o))
               q1 == View(r, l, Req(o))
               z1 == View(r, l, Rsp(o))
    <2>1. q \in Views(T, l) /\ z \in Views(T, l) /\ q1 \in Views(T, l) /\ z1 \in Views(T, l)
        BY <1>1, <1>2, <1>3, ViewType
    <2>2. IsAdvanced(q, q1, l) /\ IsAdvanced(z, z1, l)
        BY <1>2, <1>3
    <2>3. PortOk(l, o, w[o], a[o], q, z, "clock")
        BY <1>1
    <2> HIDE DEF q, z, q1, z1
    <2>4. PortOk(l, o, w[o], IF w[o] THEN a[o] + 1 ELSE 0, q1, z1, "memory")
        BY <1>1, <2>1, <2>2, <2>3, PortClock
    <2>5. b[o] = IF w[o] THEN a[o] + 1 ELSE 0
        OBVIOUS
    <2> HIDE DEF b
    <2> QED
        BY <2>4, <2>5 DEF q1, z1
<1> HIDE DEF b
<1>5. "memory" \in Ticks
    BY DEF Ticks
<1>6. SysOk(T, r, l, w, b, "memory")
    BY <1>1, <1>3, <1>4, <1>5 DEF SysOk
<1>7. ASSUME NEW ch \in Endpoint PROVE All(View(r, l, ch)) = All(View(s, l, ch))
    <2> DEFINE v == View(s, l, ch)
               u == View(r, l, ch)
    <2>1. v \in Views(T, l) /\ u \in Views(T, l) /\ IsAdvanced(v, u, l) /\ v.now = <<>>
        BY <1>1, <1>3, ViewType, NowEmpty
    <2> HIDE DEF v, u
    <2>2. All(u) = All(v)
        BY <1>1, <2>1, WayAdvanced
    <2> QED
        BY <2>2 DEF u, v
<1>8. SameBut(s, r, l, {})
    BY <1>7 DEF SameBut
<1> QED
    BY <1>6, <1>8 DEF r, b

(* A port that waits has its read or its answer in a channel, where its age is bounded. *)
LEMMA AgeBound ==
    ASSUME NEW T, NEW l \in Nat, NEW p \in Port, NEW w, NEW a, NEW q \in Views(T, l),
           NEW r \in Views(T, l), NEW t, PortOk(l, p, w, a, q, r, t), w
    PROVE  a <= Trip(l) + AheadOf(p)
<1>1. /\ ChanOk(q, l) /\ ChanOk(r, l) /\ a \in Nat
      /\ Len(All(r)) = IF w /\ ~ Reads(All(q)) THEN 1 ELSE 0
      /\ ReadInWay(l, a, q) /\ AnswerInWay(l, p, a, r)
      /\ ReadArrived(l, p, a, q, t) /\ AnswerArrived(l, p, a, r, t)
    BY DEF PortOk, Order, Ages
<1>2. q.now = <<>> /\ r.now = <<>>
    BY <1>1 DEF ChanOk
<1>3. PICK h \in Nat : h = AheadOf(p)
    BY AheadIs
<1>4. Arrival(l) \in Nat /\ l <= Arrival(l) /\ Arrival(l) <= Trip(l) /\ Trip(l) \in Nat
    BY DEF Arrival, Trip
<1>5. ASSUME Reads(All(q)) PROVE a <= Trip(l) + h
    <2>1. PICK x : Holds(All(q), x) /\ ~ x.is_write
        BY <1>5, ReadsHolds
    <2>2. Holds(q.st, x) \/ \E n \in 1 .. l : Holds(q.due[n], x)
        BY <1>2, <2>1, AllHolds
    <2>3. CASE Holds(q.st, x)
        <3>1. PICK i \in DOMAIN q.st : q.st[i] = x
            BY <2>3 DEF Holds
        <3>2. i \in Nat /\ i >= 1
            <4>1. q.st \in Seq(T)
                BY ViewParts
            <4> QED
                BY <4>1
        <3>3. a + i <= Arrival(l) + 1 + h \/ a + i <= Arrival(l) + h
            BY <1>1, <1>3, <2>1, <3>1 DEF ReadArrived
        <3> QED
            BY <1>1, <1>3, <1>4, <3>2, <3>3
    <2>4. CASE \E n \in 1 .. l : Holds(q.due[n], x)
        <3>1. PICK n \in 1 .. l : Holds(q.due[n], x)
            BY <2>4
        <3>2. a + n = l
            BY <1>1, <2>1, <3>1 DEF ReadInWay
        <3> QED
            BY <1>1, <1>3, <1>4, <3>2
    <2> QED
        BY <2>2, <2>3, <2>4
<1>6. ASSUME ~ Reads(All(q)) PROVE a <= Trip(l) + h
    <2>1. Len(All(r)) = 1
        BY <1>1, <1>6
    <2>2. r.st # <<>> \/ \E n \in 1 .. l : r.due[n] # <<>>
        <3>1. /\ Len(All(r)) = Len(r.st) + Len(Way(r)) /\ Len(r.st) \in Nat /\ Len(Way(r)) \in Nat
              /\ Len(Way(r)) >= 1 => \E n \in 1 .. l : r.due[n] # <<>>
            BY <1>2, AllEmpty
        <3>2. Len(<<>>) = 0
            OBVIOUS
        <3>3. ASSUME r.st = <<>> PROVE Len(Way(r)) >= 1
            BY <2>1, <3>1, <3>2, <3>3
        <3> QED
            BY <3>1, <3>3
    <2>3. CASE r.st # <<>>
        BY <1>1, <1>3, <2>3, <1>4 DEF AnswerArrived
    <2>4. ASSUME NEW n \in 1 .. l, r.due[n] # <<>> PROVE a <= Trip(l) + h
        <3>1. a + n \in 2 * l .. 2 * l + h
            BY <1>1, <1>3, <2>4 DEF AnswerInWay
        <3>2. Trip(l) = 2 * l
            BY DEF Trip
        <3> QED
            BY <1>1, <1>3, <3>1, <3>2
    <2> QED
        BY <2>2, <2>3, <2>4
<1> QED
    BY <1>3, <1>5, <1>6

-------------------------------------------------------------------------------
(* The inductive invariant: for some set T of packets, the platform and the two
   ports are as the tick before left them. *)
MemoryInv ==
    /\ waiting \in [Port -> BOOLEAN] /\ age \in [Port -> Nat]
    /\ \E T : SysOk(T, sim, latency, waiting, age, tick)

(* Of the invariant at an endpoint. *)
LEMMA EndpointIs ==
    ASSUME NEW T, NEW s, NEW l, NEW w, NEW a, NEW t, SysOk(T, s, l, w, a, t), NEW ch \in Endpoint
    PROVE  l \in Nat /\ s \in Platform(T) /\ View(s, l, ch) \in Views(T, l) /\ ChanOk(View(s, l, ch), l)
<1>1. l \in Nat /\ s \in Platform(T)
    BY DEF SysOk
<1>2. View(s, l, ch) \in Views(T, l)
    BY <1>1, ViewType
<1>3. Endpoint = Port \X {"req", "to_cache"}
    BY TheChannels
<1>4. PICK p \in Port : ch = Req(p) \/ ch = Rsp(p)
    BY <1>3 DEF Req, Rsp
<1>5. PortOk(l, p, w[p], a[p], View(s, l, Req(p)), View(s, l, Rsp(p)), t)
    BY DEF SysOk
<1>6. ChanOk(View(s, l, ch), l)
    BY <1>4, <1>5 DEF PortOk
<1> QED
    BY <1>1, <1>2, <1>6

(* What in_flight counts is what the view of a channel has on the way. *)
InWay(s, l, ch) == NowIn(s, ch) \o FlattenSeq([n \in 1 .. l |-> DueIn(s, n, ch)])

LEMMA InWayLen ==
    ASSUME NEW T, NEW s \in Platform(T), NEW l \in Nat, NEW ch \in Endpoint
    PROVE  Len(InWay(s, l, ch)) = Len(Way(View(s, l, ch)))
<1> DEFINE q == [n \in 1 .. l |-> DueIn(s, n, ch)]
           v == View(s, l, ch)
<1>1. q \in Seq(Seq(Event(T))) /\ Len(q) = l /\ \A n \in 1 .. l : q[n] = DueIn(s, n, ch)
    <2>1. \A n \in 1 .. l : n \in Nat
        OBVIOUS
    <2>2. \A n \in 1 .. l : DueIn(s, n, ch) \in Seq(Event(T))
        BY <2>1, DueInIs
    <2> QED
        BY <2>2
<1>2. InWay(s, l, ch) = NowIn(s, ch) \o FlattenSeq(q)
    BY DEF InWay
<1>3. /\ v \in Views(T, l) /\ v.now = Pkts(NowIn(s, ch))
      /\ \A n \in 1 .. l : v.due[n] = Pkts(DueIn(s, n, ch))
    BY ViewType
<1> HIDE DEF q, v
<1>4. v.due \in Seq(Seq(T)) /\ Len(v.due) = l
    BY <1>3, ViewParts
<1>5. Pkts(FlattenSeq(q)) = FlattenSeq(v.due)
    BY <1>1, <1>3, <1>4, FlatPkts
<1>6. FlattenSeq(q) \in Seq(Event(T)) /\ NowIn(s, ch) \in Seq(Event(T))
    BY <1>1, FlatType, NowIs
<1>7. Len(InWay(s, l, ch)) = Len(NowIn(s, ch)) + Len(FlattenSeq(q))
    BY <1>2, <1>6, ConcatLen
<1>8. Len(v.now) = Len(NowIn(s, ch)) /\ Len(FlattenSeq(v.due)) = Len(FlattenSeq(q))
    BY <1>3, <1>5, <1>6, PktsType
<1>9. Len(Way(v)) = Len(v.now) + Len(FlattenSeq(v.due))
    BY <1>3, WayType
<1> QED
    BY <1>7, <1>8, <1>9 DEF v

(* The invariant gives the two properties. *)
LEMMA InvReservations == MemoryInv => ReservationsAreInFlight
<1> SUFFICES ASSUME MemoryInv, NEW ch \in Endpoint
             PROVE  sim.pending[ch] = Len(in_flight(ch)) /\ occupancy(sim, ch) <= CAPACITY
    BY DEF ReservationsAreInFlight
<1>1. PICK T : SysOk(T, sim, latency, waiting, age, tick)
    BY DEF MemoryInv
<1>2. /\ latency \in Nat /\ sim \in Platform(T) /\ ChanOk(View(sim, latency, ch), latency)
    BY <1>1, EndpointIs
<1>3. View(sim, latency, ch).pd = sim.pending[ch] /\ View(sim, latency, ch).st = sim.storage[ch]
    BY DEF View
<1>4. sim.pending[ch] = Len(Way(View(sim, latency, ch)))
      /\ Len(sim.storage[ch]) + sim.pending[ch] <= CAPACITY
    BY <1>2, <1>3 DEF ChanOk
<1>5. in_flight(ch) = InWay(sim, latency, ch)
    BY DEF in_flight, InWay, NowIn, DueIn, due_in
<1>6. Len(InWay(sim, latency, ch)) = Len(Way(View(sim, latency, ch)))
    BY <1>2, InWayLen
<1> QED
    BY <1>4, <1>5, <1>6 DEF occupancy

LEMMA InvInTime == MemoryInv => AnsweredInTime
<1> SUFFICES ASSUME MemoryInv, NEW p \in Port
             PROVE  /\ waiting[p] => age[p] <= round_trip + (IF p = "imem" THEN 0 ELSE CAPACITY - 1)
                    /\ tick = p /\ sim.storage[<<p, "to_cache">>] # <<>> => age[p] >= round_trip
    BY DEF AnsweredInTime
<1>1. PICK T : SysOk(T, sim, latency, waiting, age, tick)
    BY DEF MemoryInv
<1> DEFINE q == View(sim, latency, Req(p))
           r == View(sim, latency, Rsp(p))
<1>2. /\ latency \in Nat /\ sim \in Platform(T)
      /\ PortOk(latency, p, waiting[p], age[p], q, r, tick)
    BY <1>1 DEF SysOk
<1>3. q \in Views(T, latency) /\ r \in Views(T, latency)
    BY <1>2, TheChannels, ViewType
<1>4. r.st = sim.storage[<<p, "to_cache">>]
    BY DEF View, Rsp
<1> HIDE DEF q, r
<1>5. round_trip = Trip(latency) /\ (IF p = "imem" THEN 0 ELSE CAPACITY - 1) = AheadOf(p)
    BY DEF round_trip, Trip, AheadOf
<1>6. waiting[p] => age[p] <= Trip(latency) + AheadOf(p)
    BY <1>2, <1>3, AgeBound
<1>7. r.st # <<>> => age[p] >= Trip(latency)
    <2>1. AnswerArrived(latency, p, age[p], r, tick) /\ age[p] \in Nat
        BY <1>2 DEF PortOk, Ages
    <2> QED
        BY <2>1 DEF AnswerArrived
<1> QED
    BY <1>4, <1>5, <1>6, <1>7

LEMMA FlatNothing ==
    ASSUME NEW l \in Nat
    PROVE  LET q == [n \in 1 .. l |-> <<>>] IN q \in Seq(Seq({})) /\ Len(q) = l /\ FlattenSeq(q) = <<>>
<1> DEFINE q == [n \in 1 .. l |-> <<>>]
<1>1. q \in Seq(Seq({})) /\ Len(q) = l /\ \A n \in 1 .. l : q[n] = <<>>
    OBVIOUS
<1> HIDE DEF q
<1>2. FlattenSeq(q) = <<>>
    BY <1>1, FlatNone
<1> QED
    BY <1>1, <1>2 DEF q

LEMMA AllNothing ==
    ASSUME NEW l \in Nat, NEW v, v.st = <<>>, v.now = <<>>, v.due = [n \in 1 .. l |-> <<>>]
    PROVE  Way(v) = <<>> /\ All(v) = <<>>
<1>1. FlattenSeq(v.due) = <<>>
    BY FlatNothing
<1>2. <<>> \o <<>> = <<>>
    OBVIOUS
<1> QED
    BY <1>1, <1>2 DEF Way, All

(* A port at the start. *)
LEMMA PortInit ==
    ASSUME NEW l \in Nat, NEW p \in Port, NEW v, v.st = <<>>, v.pd = 0, v.now = <<>>,
           v.due = [n \in 1 .. l |-> <<>>]
    PROVE  PortOk(l, p, FALSE, 0, v, v, "memory")
<1>1. FlattenSeq(v.due) = <<>> /\ \A n \in 1 .. l : v.due[n] = <<>>
    BY FlatNothing
<1>2. Way(v) = <<>> /\ All(v) = <<>>
    BY AllNothing
<1>3. Len(<<>>) = 0 /\ DOMAIN <<>> = {}
    OBVIOUS
<1>4. CAPACITY \in Nat \ {0}
    BY PlatformAssumption
<1>5. ChanOk(v, l)
    BY <1>1, <1>2, <1>3, <1>4 DEF ChanOk
<1>6. Ready(v, l)
    BY <1>1 DEF Ready
<1>7. Order(p, FALSE, v, v)
    BY <1>2, <1>3 DEF Order, OnlyLast, Reads, NoWrite
<1>8. Ages(l, p, FALSE, 0, v, v, "memory")
    <2>1. ReadInWay(l, 0, v)
        BY <1>1, <1>3 DEF ReadInWay, Holds
    <2>2. AnswerInWay(l, p, 0, v)
        BY <1>1 DEF AnswerInWay
    <2>3. ReadArrived(l, p, 0, v, "memory")
        BY <1>3 DEF ReadArrived
    <2>4. AnswerArrived(l, p, 0, v, "memory")
        BY DEF AnswerArrived
    <2> QED
        BY <2>1, <2>2, <2>3, <2>4 DEF Ages
<1> QED
    BY <1>5, <1>6, <1>7, <1>8 DEF PortOk

(* The platform at the start. *)
AtFirst(s, l) ==
    /\ l \in Nat /\ s \in Platform({}) /\ RegOk(s, l) /\ s.imm_events = <<>> /\ s.delta = 0
    /\ \A ch \in Endpoint :
           View(s, l, ch) = [st |-> <<>>, pd |-> 0, now |-> <<>>, due |-> [n \in 1 .. l |-> <<>>]]

LEMMA InitPlatform == Init => AtFirst(sim, latency)
<1> SUFFICES ASSUME Init PROVE AtFirst(sim, latency)
    OBVIOUS
<1> DEFINE s == memory_reset(reset(NewPlatform))
           l == latency
<1>1. sim = s /\ l \in Nat
    BY MemoryAssumption DEF Init
<1>2. /\ s.storage = [ch \in Endpoint |-> <<>>] /\ s.pending = [ch \in Endpoint |-> 0]
      /\ s.imm_events = <<>> /\ s.delta = 0 /\ s.reg_events = [b \in Bucket |-> <<>>] /\ s.cycles = 0
      /\ s = [storage |-> [ch \in Endpoint |-> <<>>], pending |-> [ch \in Endpoint |-> 0],
              imm_events |-> <<>>, delta |-> 0, reg_events |-> [b \in Bucket |-> <<>>], cycles |-> 0]
    <2>1. NewPlatform = [storage |-> [ch \in Endpoint |-> <<>>], pending |-> [ch \in Endpoint |-> 0],
              imm_events |-> <<>>, delta |-> 0, reg_events |-> [b \in Bucket |-> <<>>], cycles |-> 0]
        BY DEF NewPlatform
    <2>2. reset(NewPlatform) = NewPlatform
        <3> DEFINE g == [ch \in Endpoint |-> <<>>]
                   h == [ch \in Endpoint |-> 0]
                   k == [b \in Bucket |-> <<>>]
        <3>1. NewPlatform = [storage |-> g, pending |-> h, imm_events |-> <<>>, delta |-> 0,
                             reg_events |-> k, cycles |-> 0]
            BY <2>1
        <3>2. reset(NewPlatform) = [NewPlatform EXCEPT !.imm_events = <<>>, !.delta = 0,
                                                       !.reg_events = k, !.cycles = 0]
            BY DEF reset
        <3> HIDE DEF g, h, k
        <3> QED
            BY <3>1, <3>2
    <2>3. [ch \in Endpoint |-> IF ch[2] = "req" THEN <<>> ELSE [c \in Endpoint |-> <<>>][ch]]
              = [ch \in Endpoint |-> <<>>]
        OBVIOUS
    <2> DEFINE z == reset(NewPlatform)
    <2>4. z.storage = [c \in Endpoint |-> <<>>]
        BY <2>1, <2>2
    <2>5. s = [z EXCEPT !.storage = [ch \in Endpoint |-> <<>>]]
        BY <2>3, <2>4 DEF memory_reset
    <2> HIDE DEF z, s
    <2>6. z = [storage |-> [ch \in Endpoint |-> <<>>], pending |-> [ch \in Endpoint |-> 0],
              imm_events |-> <<>>, delta |-> 0, reg_events |-> [b \in Bucket |-> <<>>], cycles |-> 0]
        BY <2>1, <2>2 DEF z
    <2>7. s = [storage |-> [ch \in Endpoint |-> <<>>], pending |-> [ch \in Endpoint |-> 0],
              imm_events |-> <<>>, delta |-> 0, reg_events |-> [b \in Bucket |-> <<>>], cycles |-> 0]
        BY <2>5, <2>6
    <2> QED
        BY <2>7
<1> HIDE DEF s, l
<1>3. s \in Platform({})
    <2>1. <<>> \in Seq({}) /\ <<>> \in Seq(Event({}))
        OBVIOUS
    <2>2. 0 \in Bucket
        BY PlatformAssumption DEF Bucket
    <2> HIDE DEF Event
    <2> QED
        BY <1>2, <2>1, <2>2 DEF Platform
<1>4. RegOk(s, l)
    BY <1>2 DEF RegOk
<1>5. ASSUME NEW ch \in Endpoint
      PROVE  View(s, l, ch) = [st |-> <<>>, pd |-> 0, now |-> <<>>, due |-> [n \in 1 .. l |-> <<>>]]
    <2>1. NowIn(s, ch) = <<>> /\ Pkts(<<>>) = <<>>
        BY <1>2, AmongEmpty DEF NowIn, Pkts
    <2>2. ASSUME NEW n \in 1 .. l PROVE Pkts(DueIn(s, n, ch)) = <<>>
        <3>1. s.cycles \in Bucket /\ n \in Nat
            BY <1>1, <1>3 DEF Platform
        <3>2. (s.cycles + n) % WHEEL_SIZE \in Bucket
            BY <3>1, NextBucket
        <3>3. s.reg_events[(s.cycles + n) % WHEEL_SIZE] = <<>>
            BY <1>2, <3>2
        <3>4. DueIn(s, n, ch) = <<>>
            BY <3>3, AmongEmpty DEF DueIn
        <3> QED
            BY <2>1, <3>4
    <2>3. [n \in 1 .. l |-> Pkts(DueIn(s, n, ch))] = [n \in 1 .. l |-> <<>>]
        BY <2>2
    <2> QED
        BY <1>2, <2>1, <2>3 DEF View
<1> QED
    BY <1>1, <1>2, <1>3, <1>4, <1>5 DEF AtFirst, l

LEMMA EmptyAtFirst ==
    ASSUME NEW s, NEW l, AtFirst(s, l), NEW ch \in Endpoint
    PROVE  All(View(s, l, ch)) = <<>>
<1> DEFINE v == View(s, l, ch)
<1>1. l \in Nat /\ v = [st |-> <<>>, pd |-> 0, now |-> <<>>, due |-> [n \in 1 .. l |-> <<>>]]
    BY DEF AtFirst
<1> HIDE DEF v
<1>2. v.st = <<>> /\ v.now = <<>> /\ v.due = [n \in 1 .. l |-> <<>>]
    BY <1>1
<1>3. All(v) = <<>>
    BY <1>1, <1>2, AllNothing
<1> QED
    BY <1>3 DEF v

LEMMA InvInit == Init => MemoryInv
<1> SUFFICES ASSUME Init PROVE MemoryInv
    OBVIOUS
<1> DEFINE s == sim
           l == latency
<1>1. /\ tick = "memory" /\ waiting = [p \in Port |-> FALSE] /\ age = [p \in Port |-> 0]
    BY DEF Init
<1>2. AtFirst(s, l)
    BY InitPlatform
<1> HIDE DEF s, l
<1>3. l \in Nat /\ s \in Platform({}) /\ RegOk(s, l) /\ s.imm_events = <<>> /\ s.delta = 0
    BY <1>2 DEF AtFirst
<1>5. ASSUME NEW ch \in Endpoint
      PROVE  View(s, l, ch) = [st |-> <<>>, pd |-> 0, now |-> <<>>, due |-> [n \in 1 .. l |-> <<>>]]
    BY <1>2 DEF AtFirst
<1>6. ASSUME NEW p \in Port
      PROVE  PortOk(l, p, waiting[p], age[p], View(s, l, Req(p)), View(s, l, Rsp(p)), "memory")
    <2> DEFINE v == [st |-> <<>>, pd |-> 0, now |-> <<>>, due |-> [n \in 1 .. l |-> <<>>]]
    <2>1. View(s, l, Req(p)) = v /\ View(s, l, Rsp(p)) = v
        BY <1>5, TheChannels
    <2>2. v.st = <<>> /\ v.pd = 0 /\ v.now = <<>> /\ v.due = [n \in 1 .. l |-> <<>>]
        OBVIOUS
    <2> HIDE DEF v
    <2>3. PortOk(l, p, FALSE, 0, v, v, "memory")
        BY <1>3, <2>2, PortInit
    <2>4. waiting[p] = FALSE /\ age[p] = 0
        BY <1>1
    <2> QED
        BY <2>1, <2>3, <2>4
<1>7. SysOk({}, s, l, waiting, age, "memory")
    BY <1>3, <1>6 DEF SysOk, Ticks
<1>8. waiting \in [Port -> BOOLEAN] /\ age \in [Port -> Nat]
    BY <1>1
<1> QED
    BY <1>1, <1>7, <1>8 DEF MemoryInv, s, l

-------------------------------------------------------------------------------
(* More packets. *)
LEMMA SysMore ==
    ASSUME NEW T, NEW S, T \subseteq S, NEW s, NEW l, NEW w, NEW a, NEW t, SysOk(T, s, l, w, a, t)
    PROVE  SysOk(S, s, l, w, a, t)
BY MoreTypes DEF SysOk

(* The platform, after a port has been served. *)
LEMMA ServiceIs ==
    ASSUME NEW s, NEW r, NEW p \in Port
    PROVE  service_port([sim |-> s, ram |-> r], p).sim =
               Served(s, read(r, peek(s, Req(p)).addr, MEM_BLOCK_SIZE), p, latency)
BY DEF service_port, Served, Req

LEMMA ServiceRecord ==
    ASSUME NEW s, NEW r, NEW p \in Port
    PROVE  LET m == service_port([sim |-> s, ram |-> r], p)
           IN  m = [sim |-> m.sim, ram |-> m.ram]
BY DEF service_port

LEMMA InvMemory == MemoryInv /\ memory_tick => MemoryInv'
<1> SUFFICES ASSUME MemoryInv, memory_tick PROVE MemoryInv'
    OBVIOUS
<1>1. PICK T : SysOk(T, sim, latency, waiting, age, "memory")
    BY DEF MemoryInv, memory_tick
<1> DEFINE s0 == fire_immediate_events(sim)
           m1 == service_port([sim |-> s0, ram |-> ram], "imem")
           m2 == service_port(m1, "dmem")
<1>2. /\ sim' = fire_immediate_events(m2.sim) /\ tick' = "imem"
      /\ waiting' = waiting /\ latency' = latency /\ age' = age
    BY DEF memory_tick
<1> HIDE DEF s0
<1>3. PICK x : m1.sim = Served(s0, x, "imem", latency)
    BY ServiceIs DEF Port
<1>4. m1 = [sim |-> m1.sim, ram |-> m1.ram]
    BY ServiceRecord DEF Port
<1> HIDE DEF m1
<1>5. PICK y : m2.sim = Served(m1.sim, y, "dmem", latency)
    <2>1. service_port([sim |-> m1.sim, ram |-> m1.ram], "dmem").sim =
              Served(m1.sim, read(m1.ram, peek(m1.sim, Req("dmem")).addr, MEM_BLOCK_SIZE), "dmem", latency)
        BY ServiceIs DEF Port
    <2> QED
        BY <1>4, <2>1
<1> HIDE DEF m2
<1>7. sim' = fire_immediate_events(Served(Served(s0, x, "imem", latency), y, "dmem", latency))
    BY <1>2, <1>3, <1>5
<1> DEFINE S == T \cup {x, y}
<1>8. T \subseteq S /\ x \in S /\ y \in S
    OBVIOUS
<1> HIDE DEF S
<1>9. SysOk(S, sim, latency, waiting, age, "memory")
    BY <1>1, <1>8, SysMore
<1>10. SysOk(S, sim', latency, waiting, age, "imem")
    BY <1>7, <1>8, <1>9, SysMemory DEF s0
<1>11. SysOk(S, sim', latency', waiting', age', tick')
    BY <1>2, <1>10
<1> QED
    BY <1>2, <1>11 DEF MemoryInv

LEMMA InvCache == MemoryInv /\ (\E p \in Port : cache_tick(p)) => MemoryInv'
<1> SUFFICES ASSUME MemoryInv, NEW p \in Port, cache_tick(p) PROVE MemoryInv'
    OBVIOUS
<1>1. PICK T : SysOk(T, sim, latency, waiting, age, p)
    BY DEF MemoryInv, cache_tick
<1>2. /\ tick' = After(p) /\ latency' = latency
      /\ waiting \in [Port -> BOOLEAN] /\ age \in [Port -> Nat]
    BY DEF MemoryInv, cache_tick, After
<1>3. CASE take_fill(p)
    <2>1. /\ waiting[p] /\ ~ empty(sim, Rsp(p)) /\ sim' = pop(sim, Rsp(p))
          /\ waiting' = [waiting EXCEPT ![p] = FALSE] /\ age' = [age EXCEPT ![p] = 0]
        BY <1>3 DEF take_fill, Rsp
    <2>2. SysOk(T, pop(sim, Rsp(p)), latency, [waiting EXCEPT ![p] = FALSE], [age EXCEPT ![p] = 0], After(p))
        BY <1>1, <1>2, <2>1, SysTake
    <2>3. SysOk(T, sim', latency', waiting', age', tick')
        BY <1>2, <2>1, <2>2
    <2>4. waiting' \in [Port -> BOOLEAN] /\ age' \in [Port -> Nat]
        BY <1>2, <2>1
    <2> QED
        BY <2>3, <2>4 DEF MemoryInv
<1>4. ASSUME NEW x \in Requests[p], send_request(p, x) PROVE MemoryInv'
    <2> DEFINE S == T \cup {x}
    <2>1. /\ ~ waiting[p] /\ ~ full(sim, <<p, "to_memory">>)
          /\ sim' = fire_immediate_events(send(sim, <<p, "to_memory">>, x, latency))
          /\ waiting' = [waiting EXCEPT ![p] = ~ x.is_write] /\ age' = age
        BY <1>4 DEF send_request
    <2>2. x.is_write \in BOOLEAN /\ (p = "imem" => ~ x.is_write)
        BY MemoryAssumption
    <2>3. T \subseteq S /\ x \in S
        OBVIOUS
    <2> HIDE DEF S
    <2>4. SysOk(S, sim, latency, waiting, age, p)
        BY <1>1, <2>3, SysMore
    <2>5. waiting[p] = FALSE
        BY <1>2, <2>1
    <2>6. SysOk(S, fire_immediate_events(send(sim, <<p, "to_memory">>, x, latency)), latency,
                [waiting EXCEPT ![p] = ~ x.is_write], age, After(p))
        BY <1>2, <2>1, <2>2, <2>3, <2>4, <2>5, SysSend
    <2>7. SysOk(S, sim', latency', waiting', age', tick')
        BY <1>2, <2>1, <2>6
    <2>8. waiting' \in [Port -> BOOLEAN] /\ age' \in [Port -> Nat]
        BY <1>2, <2>1, <2>2
    <2> QED
        BY <2>7, <2>8 DEF MemoryInv
<1>5. CASE stand_by(p)
    <2>1. waiting[p] => empty(sim, Rsp(p))
        BY <1>5 DEF stand_by, Rsp
    <2>2. SysOk(T, sim, latency, waiting, age, After(p))
        BY <1>1, <2>1, SysStandBy
    <2>3. SysOk(T, sim', latency', waiting', age', tick')
        BY <1>2, <1>5, <2>2 DEF stand_by
    <2> QED
        BY <1>2, <1>5, <2>3 DEF MemoryInv, stand_by
<1> QED
    BY <1>3, <1>4, <1>5 DEF cache_tick

LEMMA InvClock == MemoryInv /\ clock_tick => MemoryInv'
<1> SUFFICES ASSUME MemoryInv, clock_tick PROVE MemoryInv'
    OBVIOUS
<1>1. PICK T : SysOk(T, sim, latency, waiting, age, "clock")
    BY DEF MemoryInv, clock_tick
<1>2. /\ sim' = advance(sim) /\ tick' = "memory" /\ waiting' = waiting /\ latency' = latency
      /\ age' = [p \in Port |-> IF waiting[p] THEN age[p] + 1 ELSE 0]
      /\ waiting \in [Port -> BOOLEAN] /\ age \in [Port -> Nat]
    BY DEF clock_tick, MemoryInv
<1>3. SysOk(T, advance(sim), latency, waiting,
            [p \in Port |-> IF waiting[p] THEN age[p] + 1 ELSE 0], "memory")
    BY <1>1, SysClock
<1>4. SysOk(T, sim', latency', waiting', age', tick')
    BY <1>2, <1>3
<1>5. age' \in [Port -> Nat]
    BY <1>2
<1> QED
    BY <1>2, <1>4, <1>5 DEF MemoryInv

LEMMA InvStep == MemoryInv /\ [Next]_vars => MemoryInv'
<1>1. ASSUME MemoryInv, UNCHANGED vars PROVE MemoryInv'
    BY <1>1 DEF MemoryInv, vars
<1> QED
    BY <1>1, InvMemory, InvCache, InvClock DEF Next

(* The invariant is inductive: the ticks of the memory, the caches and the clock
   keep the channels and the ports right (SimPlatform::tick). *)
THEOREM Inductive == Spec => []MemoryInv
BY InvInit, InvStep, PTL DEF Spec

(* Each reservation of a channel is a packet on its way and there is room for it:
   the assertions of receive_packet ("pending count underflow") and of RingQueue
   ("full") never fail. *)
THEOREM Reservations == Spec => []ReservationsAreInFlight
BY Inductive, InvReservations, PTL

(* A read is answered after its latency each way and what was ahead of it in the
   memory's queue, neither earlier nor later (SimPlatform::tick, Memory::tick). *)
THEOREM InTime == Spec => []AnsweredInTime
BY Inductive, InvInTime, PTL

-------------------------------------------------------------------------------
(* The pages of the memory and the bytes in them: what RAM::get, read and write
   do to byte_of. *)

(* RAM as an array of bytes. *)
Offset == 0 .. PAGE_SIZE - 1

RamIs(r) ==
    /\ r = [pages |-> r.pages, last_page_index |-> r.last_page_index]
    /\ r.pages = [p \in DOMAIN r.pages |-> r.pages[p]]
    /\ \A p \in DOMAIN r.pages : r.pages[p] = [o \in Offset |-> r.pages[p][o]]

byte_of(r, a) ==
    IF page_index(a) \in DOMAIN r.pages THEN r.pages[page_index(a)][page_offset(a)]
    ELSE fresh_page[page_offset(a)]

LEMMA PlaceIs ==
    ASSUME NEW a \in Nat
    PROVE  page_index(a) \in Int /\ page_offset(a) \in Offset
  BY PageAssumption DEF page_index, page_offset, Offset

LEMMA OnePlace ==
    ASSUME NEW a \in Nat, NEW b \in Nat, page_index(a) = page_index(b), page_offset(a) = page_offset(b)
    PROVE  a = b
  BY PageAssumption DEF page_index, page_offset

(* The page that is remembered is used for its own addresses only. *)
LEMMA PageOf ==
    ASSUME NEW r, NEW a
    PROVE  page_of(r, a) = page_index(a)
  BY DEF page_of, hits_last_page

LEMMA FreshIs == fresh_page = [o \in Offset |-> fresh_page[o]]
  BY DEF fresh_page, Offset

(* What get does to the pages. *)
LEMMA GetIs ==
    ASSUME NEW r, RamIs(r), NEW a \in Nat
    PROVE  LET g == get(r, a)
           IN  /\ RamIs(g) /\ page_index(a) \in DOMAIN g.pages
               /\ DOMAIN g.pages = DOMAIN r.pages \cup {page_index(a)}
               /\ \A p \in DOMAIN g.pages :
                      g.pages[p] = IF p \in DOMAIN r.pages THEN r.pages[p] ELSE fresh_page
<1> DEFINE P == page_index(a)
           n == [q \in DOMAIN r.pages \cup {P} |-> IF q \in DOMAIN r.pages THEN r.pages[q] ELSE fresh_page]
           g == get(r, a)
<1>1. g = [pages |-> n, last_page_index |-> P]
    BY PageOf DEF get
<1>2. /\ DOMAIN n = DOMAIN r.pages \cup {P} /\ n = [p \in DOMAIN n |-> n[p]]
      /\ \A p \in DOMAIN n : n[p] = IF p \in DOMAIN r.pages THEN r.pages[p] ELSE fresh_page
    OBVIOUS
<1> HIDE DEF n, P
<1>3. g.pages = n /\ g = [pages |-> g.pages, last_page_index |-> g.last_page_index]
    BY <1>1
<1> HIDE DEF g
<1>4. ASSUME NEW p \in DOMAIN n PROVE n[p] = [o \in Offset |-> n[p][o]]
    <2>1. CASE p \in DOMAIN r.pages
        BY <1>2, <2>1 DEF RamIs
    <2>2. CASE p \notin DOMAIN r.pages
        BY <1>2, <2>2, FreshIs
    <2> QED
        BY <2>1, <2>2
<1>5. RamIs(g)
    BY <1>2, <1>3, <1>4 DEF RamIs
<1> QED
    BY <1>2, <1>3, <1>5 DEF g, P

LEMMA GetByte ==
    ASSUME NEW r, RamIs(r), NEW a \in Nat
    PROVE  RamIs(get(r, a)) /\ \A b : byte_of(get(r, a), b) = byte_of(r, b)
<1> DEFINE g == get(r, a)
<1>1. /\ RamIs(g) /\ page_index(a) \in DOMAIN g.pages
      /\ DOMAIN g.pages = DOMAIN r.pages \cup {page_index(a)}
      /\ \A p \in DOMAIN g.pages :
             g.pages[p] = IF p \in DOMAIN r.pages THEN r.pages[p] ELSE fresh_page
    BY GetIs
<1> HIDE DEF g
<1>2. \A b : byte_of(g, b) = byte_of(r, b)
    BY <1>1 DEF byte_of
<1> QED
    BY <1>1, <1>2 DEF g

LEMMA ReadByte ==
    ASSUME NEW r, RamIs(r), NEW a \in Nat
    PROVE  read_byte(r, a) = byte_of(r, a)
<1>1. page_index(a) \in DOMAIN get(r, a).pages
    BY GetIs
<1>2. read_byte(r, a) = get(r, a).pages[page_index(a)][page_offset(a)]
    BY PageOf DEF read_byte
<1>3. byte_of(get(r, a), a) = byte_of(r, a)
    BY GetByte
<1> QED
    BY <1>1, <1>2, <1>3 DEF byte_of

LEMMA WriteByte ==
    ASSUME NEW r, RamIs(r), NEW a \in Nat, NEW v
    PROVE  LET w == write_byte(r, a, v)
           IN  /\ RamIs(w)
               /\ \A b \in Nat : byte_of(w, b) = IF b = a THEN v ELSE byte_of(r, b)
<1> DEFINE g == get(r, a)
           P == page_index(a)
           O == page_offset(a)
           w == write_byte(r, a, v)
           n == [g.pages EXCEPT ![P] = [g.pages[P] EXCEPT ![O] = v]]
<1>1. RamIs(g) /\ P \in DOMAIN g.pages /\ \A b : byte_of(g, b) = byte_of(r, b)
    BY GetIs, GetByte
<1>2. O \in Offset
    BY PlaceIs
<1>3. w = [g EXCEPT !.pages[P][O] = v]
    BY PageOf DEF write_byte
<1>4. g = [pages |-> g.pages, last_page_index |-> g.last_page_index]
    BY <1>1 DEF RamIs
<1>5. \A b \in Nat : b = a <=> page_index(b) = P /\ page_offset(b) = O
    BY OnePlace
<1>6. \A b \in Nat : page_offset(b) \in Offset
    BY PlaceIs
<1> HIDE DEF g, P, O, w
<1>7. w.pages = n /\ w = [pages |-> w.pages, last_page_index |-> w.last_page_index]
    BY <1>3, <1>4
<1>8. g.pages[P] = [o \in Offset |-> g.pages[P][o]] /\ g.pages = [p \in DOMAIN g.pages |-> g.pages[p]]
    BY <1>1 DEF RamIs
<1> DEFINE m == [g.pages[P] EXCEPT ![O] = v]
<1>9. m = [o \in Offset |-> m[o]] /\ m[O] = v /\ \A o \in Offset : o # O => m[o] = g.pages[P][o]
    BY <1>2, <1>8
<1> HIDE DEF m
<1>10. /\ n = [p \in DOMAIN n |-> n[p]] /\ DOMAIN n = DOMAIN g.pages
       /\ n[P] = m /\ \A p \in DOMAIN n : p # P => n[p] = g.pages[p]
    BY <1>1, <1>8 DEF m
<1> HIDE DEF n
<1>11. RamIs(w)
    <2>1. \A p \in DOMAIN n : n[p] = [o \in Offset |-> n[p][o]]
        <3> TAKE p \in DOMAIN n
        <3>1. CASE p = P
            BY <1>9, <1>10, <3>1
        <3>2. CASE p # P
            BY <1>1, <1>10, <3>2 DEF RamIs
        <3> QED
            BY <3>1, <3>2
    <2> QED
        BY <1>7, <1>10, <2>1 DEF RamIs
<1>12. ASSUME NEW b \in Nat PROVE byte_of(w, b) = IF b = a THEN v ELSE byte_of(r, b)
    <2>1. byte_of(g, b) = byte_of(r, b)
        BY <1>1
    <2>2. CASE page_index(b) # P
        <3>1. byte_of(w, b) = byte_of(g, b)
            BY <1>7, <1>10, <2>2 DEF byte_of
        <3> QED
            BY <1>5, <2>1, <2>2, <3>1
    <2>3. CASE page_index(b) = P
        <3>1. byte_of(w, b) = m[page_offset(b)] /\ byte_of(g, b) = g.pages[P][page_offset(b)]
            BY <1>1, <1>7, <1>10, <2>3 DEF byte_of
        <3> QED
            BY <1>5, <1>6, <1>9, <2>1, <2>3, <3>1
    <2> QED
        BY <2>2, <2>3
<1> QED
    BY <1>11, <1>12 DEF w

-------------------------------------------------------------------------------
(* Loops: what a recursive function on the naturals has made up to each of them. *)

(* The loops over an array of bytes, and over the records of a file: what they do in
   step i to what they have made so far. *)
LoopStep(s, i, e) ==
    CASE e.kind = "touch" -> get(s, e.addr + (i - 1))
      [] e.kind = "store" -> IF i - 1 \in e.places
                             THEN write_byte(s, e.addr + (i - 1), e.data[i - 1]) ELSE s
      [] OTHER            -> load_record(s, e.file[i])

IsLoop(F, s, e, n) == F = [i \in 0 .. n |-> IF i = 0 THEN s ELSE LoopStep(F[i - 1], i, e)]

LEMMA UpTo ==
    ASSUME NEW S, NEW n \in Nat, 0 \in S, \A k \in 1 .. n : k - 1 \in S => k \in S
    PROVE  \A k \in 0 .. n : k \in S
<1> DEFINE Wrong == {k \in 0 .. n : k \notin S}
<1> SUFFICES ASSUME Wrong # {} PROVE FALSE
    OBVIOUS
<1>1. PICK m \in Wrong : \A k \in Wrong : m <= k
    <2>1. Wrong \subseteq Nat
        OBVIOUS
    <2> HIDE DEF Wrong
    <2> QED
        BY <2>1, LeastNumber
<1>2. m \in 1 .. n /\ m - 1 \in 0 .. n /\ ~ (m <= m - 1)
    BY <1>1
<1>3. m - 1 \in S
    BY <1>1, <1>2
<1> QED
    BY <1>1, <1>2, <1>3

LEMMA LoopExists ==
    ASSUME NEW s, NEW e, NEW n \in Nat
    PROVE  \E F : IsLoop(F, s, e, n)
<1> DEFINE S == {k \in 0 .. n : \E F : IsLoop(F, s, e, k)}
<1>1. 0 \in S
    <2>1. IsLoop([i \in 0 .. 0 |-> s], s, e, 0)
        BY DEF IsLoop
    <2> QED
        BY <2>1
<1>2. ASSUME NEW m \in 1 .. n, m - 1 \in S PROVE m \in S
    <2>1. m \in Nat /\ m # 0 /\ m \in 0 .. n
        OBVIOUS
    <2>2. PICK F : IsLoop(F, s, e, m - 1)
        BY <1>2
    <2> DEFINE G == [i \in 0 .. m |-> IF i = m THEN LoopStep(F[m - 1], m, e) ELSE F[i]]
    <2>3. ASSUME NEW i \in 0 .. m
          PROVE  G[i] = IF i = 0 THEN s ELSE LoopStep(G[i - 1], i, e)
        <3>1. CASE i = m
            <4>1. G[i - 1] = F[m - 1] /\ G[i] = LoopStep(F[m - 1], m, e)
                BY <2>1, <3>1
            <4> QED
                BY <4>1, <3>1, <2>1
        <3>2. CASE i # m
            <4>1. i \in 0 .. m - 1 /\ G[i] = F[i] /\ (i # 0 => G[i - 1] = F[i - 1])
                BY <2>1, <3>2
            <4>2. F[i] = IF i = 0 THEN s ELSE LoopStep(F[i - 1], i, e)
                BY <2>2, <4>1 DEF IsLoop
            <4> QED
                BY <4>1, <4>2
        <3> QED
            BY <3>1, <3>2
    <2>4. G = [i \in 0 .. m |-> G[i]]
        OBVIOUS
    <2> HIDE DEF G
    <2>5. IsLoop(G, s, e, m)
        BY <2>3, <2>4 DEF IsLoop
    <2> QED
        BY <2>1, <2>5
<1> HIDE DEF S
<1>3. n \in S
    BY <1>1, <1>2, UpTo
<1> QED
    BY <1>3 DEF S

(* touched reads the bytes and changes none. *)
LEMMA TouchedTable ==
    ASSUME NEW r, NEW a, NEW n \in Nat
    PROVE  \E F : /\ F = [i \in 0 .. n |-> IF i = 0 THEN r ELSE get(F[i - 1], a + (i - 1))]
                  /\ touched(r, a, n) = F[n]
<1> DEFINE e == [kind |-> "touch", addr |-> a]
           K == CHOOSE F : F = [i \in 0 .. n |-> IF i = 0 THEN r ELSE get(F[i - 1], a + (i - 1))]
<1>1. PICK G : IsLoop(G, r, e, n)
    BY LoopExists
<1>2. \A i, s : LoopStep(s, i, e) = get(s, a + (i - 1))
    BY DEF LoopStep
<1> HIDE DEF e
<1>3. G = [i \in 0 .. n |-> IF i = 0 THEN r ELSE get(G[i - 1], a + (i - 1))]
    BY <1>1, <1>2 DEF IsLoop
<1>4. K = [i \in 0 .. n |-> IF i = 0 THEN r ELSE get(K[i - 1], a + (i - 1))]
    BY <1>3
<1>5. touched(r, a, n) = K[n]
    BY DEF touched
<1> QED
    BY <1>4, <1>5

LEMMA Touched ==
    ASSUME NEW r, RamIs(r), NEW a \in Nat, NEW n \in Nat
    PROVE  RamIs(touched(r, a, n)) /\ \A b : byte_of(touched(r, a, n), b) = byte_of(r, b)
<1>1. PICK F : /\ F = [i \in 0 .. n |-> IF i = 0 THEN r ELSE get(F[i - 1], a + (i - 1))]
               /\ touched(r, a, n) = F[n]
    BY TouchedTable
<1> DEFINE S == {k \in 0 .. n : RamIs(F[k]) /\ \A b : byte_of(F[k], b) = byte_of(r, b)}
<1>2. 0 \in S
    BY <1>1
<1>3. ASSUME NEW k \in 1 .. n, k - 1 \in S PROVE k \in S
    <2>1. k \in 0 .. n /\ k # 0 /\ k \in Int /\ k - 1 \in 0 .. n /\ a + (k - 1) \in Nat
        OBVIOUS
    <2>2. F[k] = get(F[k - 1], a + (k - 1))
        BY <1>1, <2>1
    <2>3. RamIs(F[k - 1]) /\ \A b : byte_of(F[k - 1], b) = byte_of(r, b)
        BY <1>3
    <2>4. RamIs(F[k]) /\ \A b : byte_of(F[k], b) = byte_of(F[k - 1], b)
        BY <2>1, <2>2, <2>3, GetByte
    <2> QED
        BY <2>1, <2>3, <2>4
<1> HIDE DEF S
<1>4. n \in S
    BY <1>2, <1>3, UpTo
<1> QED
    BY <1>1, <1>4 DEF S

LEMMA ReadIs ==
    ASSUME NEW r, RamIs(r), NEW a \in Nat, NEW n \in Nat
    PROVE  read(r, a, n) = [i \in 0 .. n - 1 |-> byte_of(r, a + i)]
<1>1. ASSUME NEW i \in 0 .. n - 1
      PROVE  read_byte(touched(r, a, i), a + i) = byte_of(r, a + i)
    <2>1. i \in Nat /\ a + i \in Nat
        OBVIOUS
    <2>2. RamIs(touched(r, a, i)) /\ byte_of(touched(r, a, i), a + i) = byte_of(r, a + i)
        BY <2>1, Touched
    <2> QED
        BY <2>1, <2>2, ReadByte
<1> QED
    BY <1>1 DEF read

(* stored changes the bytes at its places. *)
IsStored(F, r, d, a, n, P) ==
    F = [i \in 0 .. n |-> IF i = 0 THEN r
                          ELSE IF i - 1 \in P THEN write_byte(F[i - 1], a + (i - 1), d[i - 1])
                          ELSE F[i - 1]]

LEMMA StoredTable ==
    ASSUME NEW r, NEW d, NEW a, NEW n \in Nat, NEW P
    PROVE  \E F : IsStored(F, r, d, a, n, P) /\ stored(r, d, a, n, P) = F[n]
<1> DEFINE e == [kind |-> "store", addr |-> a, places |-> P, data |-> d]
           K == CHOOSE F : IsStored(F, r, d, a, n, P)
<1>1. PICK G : IsLoop(G, r, e, n)
    BY LoopExists
<1>2. \A i, s : LoopStep(s, i, e) = IF i - 1 \in P THEN write_byte(s, a + (i - 1), d[i - 1]) ELSE s
    BY DEF LoopStep
<1> HIDE DEF e
<1>3. IsStored(G, r, d, a, n, P)
    BY <1>1, <1>2 DEF IsLoop, IsStored
<1>4. IsStored(K, r, d, a, n, P)
    BY <1>3
<1>5. stored(r, d, a, n, P) = K[n]
    BY DEF stored, IsStored
<1> QED
    BY <1>4, <1>5

Holding(w, r, d, a, n, P) ==
    /\ RamIs(w)
    /\ \A b \in Nat : byte_of(w, b) = IF b - a \in P /\ b - a \in 0 .. n - 1
                                      THEN d[b - a] ELSE byte_of(r, b)

LEMMA Stored ==
    ASSUME NEW r, RamIs(r), NEW d, NEW a \in Nat, NEW n \in Nat, NEW P
    PROVE  Holding(stored(r, d, a, n, P), r, d, a, n, P)
<1>1. PICK F : IsStored(F, r, d, a, n, P) /\ stored(r, d, a, n, P) = F[n]
    BY StoredTable
<1> DEFINE Good(k) == /\ RamIs(F[k])
                      /\ \A b \in Nat : byte_of(F[k], b) = IF b - a \in P /\ b - a \in 0 .. k - 1
                                                           THEN d[b - a] ELSE byte_of(r, b)
           S == {k \in 0 .. n : Good(k)}
<1>2. 0 \in S
    <2>1. F[0] = r
        BY <1>1 DEF IsStored
    <2>2. \A b \in Nat : b - a \notin 0 .. 0 - 1
        OBVIOUS
    <2> QED
        BY <2>1, <2>2
<1>3. ASSUME NEW k \in 1 .. n, k - 1 \in S PROVE k \in S
    <2>1. k \in 0 .. n /\ k # 0 /\ k \in Int /\ k - 1 \in 0 .. n /\ a + (k - 1) \in Nat
        OBVIOUS
    <2>2. F[k] = IF k - 1 \in P THEN write_byte(F[k - 1], a + (k - 1), d[k - 1]) ELSE F[k - 1]
        BY <1>1, <2>1 DEF IsStored
    <2>3. Good(k - 1)
        BY <1>3
    <2>4. \A b \in Nat : /\ b - a = k - 1 <=> b = a + (k - 1)
                         /\ b - a \in 0 .. k - 1 <=> b - a = k - 1 \/ b - a \in 0 .. k - 2
                         /\ b - a \in 0 .. (k - 1) - 1 <=> b - a \in 0 .. k - 2
                         /\ b - a = k - 1 => b - a \notin 0 .. k - 2
        BY <2>1
    <2>5. CASE k - 1 \in P
        <3>1. /\ RamIs(F[k])
              /\ \A b \in Nat : byte_of(F[k], b) = IF b = a + (k - 1) THEN d[k - 1] ELSE byte_of(F[k - 1], b)
            BY <2>1, <2>2, <2>3, <2>5, WriteByte
        <3>2. ASSUME NEW b \in Nat
              PROVE  byte_of(F[k], b) = IF b - a \in P /\ b - a \in 0 .. k - 1 THEN d[b - a] ELSE byte_of(r, b)
            <4>1. CASE b = a + (k - 1)
                BY <2>4, <2>5, <3>1, <4>1
            <4>2. CASE b # a + (k - 1)
                BY <2>3, <2>4, <3>1, <4>2
            <4> QED
                BY <4>1, <4>2
        <3> QED
            BY <2>1, <3>1, <3>2
    <2>6. CASE k - 1 \notin P
        <3>1. F[k] = F[k - 1]
            BY <2>2, <2>6
        <3>2. ASSUME NEW b \in Nat
              PROVE  byte_of(F[k], b) = IF b - a \in P /\ b - a \in 0 .. k - 1 THEN d[b - a] ELSE byte_of(r, b)
            BY <2>3, <2>4, <2>6, <3>1
        <3> QED
            BY <2>1, <2>3, <3>1, <3>2
    <2> QED
        BY <2>5, <2>6
<1> HIDE DEF S
<1>4. n \in S
    BY <1>2, <1>3, UpTo
<1>5. Good(n) /\ stored(r, d, a, n, P) = F[n]
    BY <1>1, <1>4 DEF S
<1> QED
    BY <1>5 DEF Holding

-------------------------------------------------------------------------------
(* The loaders leave the program. *)

(* What the loaders leave. *)
LEMMA NewRamIs == RamIs(NewRam) /\ \A b : byte_of(NewRam, b) = fresh_byte(b)
<1>1. NewRam.pages = <<>> /\ NewRam = [pages |-> NewRam.pages, last_page_index |-> NewRam.last_page_index]
    BY DEF NewRam
<1>2. DOMAIN <<>> = {} /\ <<>> = [p \in DOMAIN <<>> |-> <<>>[p]]
    OBVIOUS
<1> QED
    BY <1>1, <1>2 DEF RamIs, byte_of, fresh_byte

LEMMA BinImageIs ==
    ASSUME NEW r, RamIs(r), NEW image, Len(image) \in Nat, NEW a \in Nat
    PROVE  LET w == loadBinImage(r, image, a)
           IN  /\ RamIs(w)
               /\ \A b \in Nat : byte_of(w, b) = IF b - a \in 0 .. Len(image) - 1
                                                 THEN image[b - a + 1] ELSE byte_of(r, b)
<1> DEFINE n == Len(image)
           d == [i \in 0 .. n - 1 |-> image[i + 1]]
           P == 0 .. n - 1
           w == stored(r, d, a, n, P)
<1>1. loadBinImage(r, image, a) = w
    BY DEF loadBinImage, write
<1>2. \A i \in 0 .. n - 1 : d[i] = image[i + 1]
    OBVIOUS
<1>4. n \in Nat
    OBVIOUS
<1> HIDE DEF d, n, P
<1>3. Holding(w, r, d, a, n, P)
    BY <1>4, Stored
<1> HIDE DEF w
<1> QED
    BY <1>1, <1>2, <1>3 DEF n, P, Holding

LEMMA LatestIs ==
    ASSUME NEW n \in Nat, NEW S, S \subseteq 1 .. n
    PROVE  Max(S \cup {n + 1}) = n + 1
<1> DEFINE R == S \cup {n + 1}
           m == Max(R)
<1>1. n + 1 \in R /\ \A y \in R : n + 1 >= y
    OBVIOUS
<1>2. m \in R /\ \A y \in R : m >= y
    BY <1>1 DEF Max
<1> HIDE DEF m
<1>3. m >= n + 1 /\ n + 1 >= m /\ m \in Int
    BY <1>1, <1>2
<1>4. m = n + 1
    BY <1>3
<1> QED
    BY <1>4 DEF m

(* What is added to the addresses, after one more record. *)
LEMMA OffsetStep ==
    ASSUME NEW n \in Nat
    PROVE  offset(n + 1) = CASE HexFile[n + 1].key = 2 -> HexFile[n + 1].value * 16
                             [] HexFile[n + 1].key = 4 -> HexFile[n + 1].value * 65536
                             [] OTHER -> offset(n)
<1> DEFINE k == HexFile[n + 1].key
<1>1. marks(n) \subseteq 1 .. n /\ 1 .. n + 1 = 1 .. n \cup {n + 1}
    BY DEF marks
<1>2. marks(n + 1) = IF k \in {2, 4} THEN marks(n) \cup {n + 1} ELSE marks(n)
    BY <1>1 DEF marks
<1>3. CASE k \in {2, 4}
    <2>1. Max(marks(n + 1)) = n + 1
        BY <1>1, <1>2, <1>3, LatestIs
    <2>2. marks(n + 1) # {}
        BY <1>2, <1>3
    <2>3. offset(n + 1) = HexFile[n + 1].value * (IF k = 2 THEN 16 ELSE 65536)
        BY <2>1, <2>2 DEF offset
    <2> QED
        BY <1>3, <2>3
<1>4. CASE k \notin {2, 4}
    <2>1. marks(n + 1) = marks(n)
        BY <1>2, <1>4
    <2>2. offset(n + 1) = offset(n)
        BY <2>1 DEF offset
    <2> QED
        BY <1>4, <2>2
<1> QED
    BY <1>3, <1>4

(* The byte of an address, after one more record. *)
LEMMA HexStep ==
    ASSUME NEW n \in Nat, NEW a
    PROVE  hex_byte(a, n + 1) =
               IF HexFile[n + 1].key = 0 /\ a - start(n + 1) \in 0 .. Len(HexFile[n + 1].data) - 1
               THEN HexFile[n + 1].data[a - start(n + 1) + 1] ELSE hex_byte(a, n)
<1> DEFINE here == HexFile[n + 1].key = 0 /\ a - start(n + 1) \in 0 .. Len(HexFile[n + 1].data) - 1
<1>1. holders(a, n) \subseteq 1 .. n /\ 1 .. n + 1 = 1 .. n \cup {n + 1}
    BY DEF holders
<1>2. holders(a, n + 1) = IF here THEN holders(a, n) \cup {n + 1} ELSE holders(a, n)
    BY <1>1 DEF holders
<1> HIDE DEF here
<1>3. CASE here
    <2>1. Max(holders(a, n + 1)) = n + 1
        BY <1>1, <1>2, <1>3, LatestIs
    <2>2. holders(a, n + 1) # {}
        BY <1>2, <1>3
    <2>3. hex_byte(a, n + 1) = HexFile[n + 1].data[a - start(n + 1) + 1]
        BY <2>1, <2>2 DEF hex_byte
    <2> QED
        BY <1>3, <2>3 DEF here
<1>4. CASE ~ here
    <2>1. holders(a, n + 1) = holders(a, n)
        BY <1>2, <1>4
    <2>2. hex_byte(a, n + 1) = hex_byte(a, n)
        BY <2>1 DEF hex_byte
    <2> QED
        BY <1>4, <2>2 DEF here
<1> QED
    BY <1>3, <1>4

IsHex(F, r, n) ==
    F = [i \in 0 .. n |-> IF i = 0 THEN [ram |-> r, offset |-> 0]
                          ELSE load_record(F[i - 1], HexFile[i])]

LEMMA HexTable ==
    ASSUME NEW r
    PROVE  \E F : IsHex(F, r, Len(HexFile)) /\ loadHexImage(r, HexFile) = F[Len(HexFile)].ram
<1> DEFINE n == Len(HexFile)
           e == [kind |-> "load", file |-> HexFile]
           s == [ram |-> r, offset |-> 0]
           K == CHOOSE F : IsHex(F, r, n)
<1>1. n \in Nat
    BY ImageAssumption
<1> HIDE DEF s, e
<1>2. PICK G : IsLoop(G, s, e, n)
    BY <1>1, LoopExists
<1>3. \A i, t : LoopStep(t, i, e) = load_record(t, HexFile[i])
    BY DEF LoopStep, e
<1>4. IsHex(G, r, n)
    BY <1>2, <1>3 DEF IsLoop, IsHex, s
<1>5. IsHex(K, r, n)
    BY <1>4
<1>6. loadHexImage(r, HexFile) = K[n].ram
    BY DEF loadHexImage, IsHex
<1> QED
    BY <1>5, <1>6

(* One more record. *)
Loaded(s, n) ==
    /\ s = [ram |-> s.ram, offset |-> offset(n)] /\ offset(n) \in Nat
    /\ RamIs(s.ram) /\ \A b \in Nat : byte_of(s.ram, b) = hex_byte(b, n)

LEMMA LoadedStep ==
    ASSUME NEW n \in Nat, n + 1 <= Len(HexFile), NEW s, Loaded(s, n)
    PROVE  Loaded(load_record(s, HexFile[n + 1]), n + 1)
<1> DEFINE h == HexFile[n + 1]
           t == load_record(s, h)
           o == offset(n)
<1>1. /\ h.key = 0 => h.addr \in Nat /\ Len(h.data) \in Nat
      /\ h.key \in {2, 4} => h.value \in Nat
    <2>1. n + 1 \in 1 .. Len(HexFile)
        BY ImageAssumption
    <2> QED
        BY <2>1, ImageAssumption
<1>2. /\ s = [ram |-> s.ram, offset |-> o] /\ o \in Nat
      /\ RamIs(s.ram) /\ \A b \in Nat : byte_of(s.ram, b) = hex_byte(b, n)
    BY DEF Loaded
<1>3. start(n + 1) = h.addr + o
    BY DEF start
<1>4. offset(n + 1) = CASE h.key = 2 -> h.value * 16 [] h.key = 4 -> h.value * 65536 [] OTHER -> o
    BY OffsetStep
<1>5. \A b : hex_byte(b, n + 1) =
                 IF h.key = 0 /\ b - (h.addr + o) \in 0 .. Len(h.data) - 1
                 THEN h.data[b - (h.addr + o) + 1] ELSE hex_byte(b, n)
    BY <1>3, HexStep
<1> HIDE DEF h, o
<1>6. CASE h.key = 0
    <2> DEFINE w == loadBinImage(s.ram, h.data, h.addr + o)
    <2>1. t = [s EXCEPT !.ram = w] /\ offset(n + 1) = o
        BY <1>2, <1>4, <1>6 DEF load_record
    <2>2. h.addr + o \in Nat /\ Len(h.data) \in Nat
        BY <1>1, <1>2, <1>6
    <2>3. /\ RamIs(w)
          /\ \A b \in Nat : byte_of(w, b) = IF b - (h.addr + o) \in 0 .. Len(h.data) - 1
                                            THEN h.data[b - (h.addr + o) + 1] ELSE byte_of(s.ram, b)
        BY <1>2, <2>2, BinImageIs
    <2> HIDE DEF w, t
    <2>4. t.ram = w /\ t = [ram |-> t.ram, offset |-> o]
        BY <1>2, <2>1
    <2>5. \A b \in Nat : byte_of(w, b) = hex_byte(b, n + 1)
        BY <1>2, <1>5, <1>6, <2>3
    <2>6. Loaded(t, n + 1)
        BY <1>2, <2>1, <2>3, <2>4, <2>5 DEF Loaded
    <2> QED
        BY <2>6 DEF t, h
<1>7. CASE h.key # 0
    <2>1. t = [ram |-> s.ram, offset |-> offset(n + 1)]
        BY <1>2, <1>4, <1>7 DEF load_record
    <2>2. offset(n + 1) \in Nat
        BY <1>1, <1>2, <1>4
    <2>3. \A b \in Nat : byte_of(s.ram, b) = hex_byte(b, n + 1)
        BY <1>2, <1>5, <1>7
    <2> HIDE DEF t
    <2>4. Loaded(t, n + 1)
        BY <1>2, <2>1, <2>2, <2>3 DEF Loaded
    <2> QED
        BY <2>4 DEF t, h
<1> QED
    BY <1>6, <1>7

LEMMA HexImageIs ==
    LET w == loadHexImage(NewRam, HexFile)
    IN  RamIs(w) /\ \A b \in Nat : byte_of(w, b) = hex_byte(b, Len(HexFile))
<1> DEFINE n == Len(HexFile)
<1>1. n \in Nat
    BY ImageAssumption
<1>2. PICK F : IsHex(F, NewRam, n) /\ loadHexImage(NewRam, HexFile) = F[n].ram
    BY HexTable
<1> DEFINE S == {k \in 0 .. n : Loaded(F[k], k)}
<1>3. 0 \in S
    <2>1. F[0] = [ram |-> NewRam, offset |-> 0]
        BY <1>1, <1>2 DEF IsHex
    <2>2. marks(0) = {} /\ \A b : holders(b, 0) = {}
        BY DEF marks, holders
    <2>3. offset(0) = 0 /\ \A b : hex_byte(b, 0) = fresh_byte(b)
        BY <2>2 DEF offset, hex_byte
    <2>4. Loaded(F[0], 0)
        BY <2>1, <2>3, NewRamIs DEF Loaded
    <2> QED
        BY <1>1, <2>4
<1>4. ASSUME NEW k \in 1 .. n, k - 1 \in S PROVE k \in S
    <2>1. k \in 0 .. n /\ k - 1 \in Nat /\ (k - 1) + 1 = k /\ k <= n /\ k # 0
        BY <1>1
    <2>2. F[k] = load_record(F[k - 1], HexFile[k])
        BY <1>2, <2>1 DEF IsHex
    <2>3. Loaded(F[k - 1], k - 1)
        BY <1>4
    <2>4. Loaded(load_record(F[k - 1], HexFile[(k - 1) + 1]), (k - 1) + 1)
        BY <2>1, <2>3, LoadedStep
    <2> QED
        BY <2>1, <2>2, <2>4
<1> HIDE DEF S
<1>5. n \in S
    BY <1>1, <1>3, <1>4, UpTo, SMTT(60)
<1> QED
    BY <1>2, <1>5 DEF S, Loaded

LEMMA ImageLoaded ==
    LET r == loadBinImage(NewRam, Image, STARTUP_ADDR)
    IN  RamIs(r) /\ \A b \in Nat : byte_of(r, b) = image_byte(b)
<1> DEFINE r == loadBinImage(NewRam, Image, STARTUP_ADDR)
<1>1. /\ RamIs(r)
      /\ \A b \in Nat : byte_of(r, b) = IF b - STARTUP_ADDR \in 0 .. Len(Image) - 1
                                        THEN Image[b - STARTUP_ADDR + 1] ELSE byte_of(NewRam, b)
    BY NewRamIs, ImageAssumption, BinImageIs, ZenonT(60)
<1> HIDE DEF r
<1>2. \A b \in Nat : byte_of(r, b) = image_byte(b)
    BY <1>1, NewRamIs DEF image_byte
<1> QED
    BY <1>1, <1>2 DEF r

(* RAM::loadBinImage leaves each byte of the image at its place, and RAM::loadHexImage
   at an address the byte of the last record that has one for it, displaced by the last
   record before that one that sets the displacement; every other byte is that of a new
   page.  Pages are made on the way and the last one is remembered. *)
THEOREM LoadersAreRight ==
    /\ \A a \in Nat : byte_of(loadBinImage(NewRam, Image, STARTUP_ADDR), a) = image_byte(a)
    /\ \A a \in Nat : byte_of(loadHexImage(NewRam, HexFile), a) = hex_byte(a, Len(HexFile))
BY ImageLoaded, HexImageIs

(* Either loader leaves the program. *)
LEMMA ProgramLoaded ==
    ASSUME NEW r, r \in {loadBinImage(NewRam, Image, STARTUP_ADDR), loadHexImage(NewRam, HexFile)}
    PROVE  RamIs(r) /\ Program = [a \in Address |-> byte_of(r, a)]
<1>1. Address \subseteq Nat
    BY MemoryAssumption
<1>2. CASE r = loadBinImage(NewRam, Image, STARTUP_ADDR)
    <2>1. RamIs(r) /\ \A b \in Nat : byte_of(r, b) = image_byte(b)
        BY <1>2, ImageLoaded
    <2> QED
        BY <1>1, <2>1, ProgramAssumption
<1>3. CASE r = loadHexImage(NewRam, HexFile)
    <2>1. RamIs(r) /\ \A b \in Nat : byte_of(r, b) = hex_byte(b, Len(HexFile))
        BY <1>3, HexImageIs
    <2>2. \A a \in Address : Program[a] = byte_of(r, a)
        BY <1>1, <2>1, ProgramAssumption
    <2>3. DOMAIN Program = Address /\ Program = [a \in Address |-> Program[a]]
        BY ProgramAssumption
    <2> QED
        BY <2>1, <2>2, <2>3
<1> QED
    BY <1>2, <1>3

-------------------------------------------------------------------------------
(* The ports as PortedMemory has them: what is asked and what was answered. *)

(* What the memory is to the caches: the requests and the answers of each port. *)
Asks(s, l)  == [p \in Port |-> All(View(s, l, Req(p)))]
Gives(s, l) == [p \in Port |-> All(View(s, l, Rsp(p)))]

Packets(s, l, ch) == s.storage[ch] \o Pkts(InWay(s, l, ch))

LEMMA PacketsIs ==
    ASSUME NEW T, NEW s \in Platform(T), NEW l \in Nat, NEW ch \in Endpoint
    PROVE  Packets(s, l, ch) = All(View(s, l, ch))
<1> DEFINE q == [n \in 1 .. l |-> DueIn(s, n, ch)]
           v == View(s, l, ch)
<1>1. q \in Seq(Seq(Event(T))) /\ Len(q) = l /\ \A n \in 1 .. l : q[n] = DueIn(s, n, ch)
    <2>1. \A n \in 1 .. l : n \in Nat
        OBVIOUS
    <2>2. \A n \in 1 .. l : DueIn(s, n, ch) \in Seq(Event(T))
        BY <2>1, DueInIs
    <2> QED
        BY <2>2
<1>2. InWay(s, l, ch) = NowIn(s, ch) \o FlattenSeq(q)
    BY DEF InWay
<1>3. /\ v \in Views(T, l) /\ v.now = Pkts(NowIn(s, ch)) /\ v.st = s.storage[ch]
      /\ \A n \in 1 .. l : v.due[n] = Pkts(DueIn(s, n, ch))
    BY ViewType
<1> HIDE DEF q, v
<1>4. v.due \in Seq(Seq(T)) /\ Len(v.due) = l
    BY <1>3, ViewParts
<1>5. Pkts(FlattenSeq(q)) = FlattenSeq(v.due)
    BY <1>1, <1>3, <1>4, FlatPkts
<1>6. FlattenSeq(q) \in Seq(Event(T)) /\ NowIn(s, ch) \in Seq(Event(T))
    BY <1>1, FlatType, NowIs
<1>7. Pkts(InWay(s, l, ch)) = v.now \o FlattenSeq(v.due)
    BY <1>2, <1>3, <1>5, <1>6, PktsConcat
<1> QED
    BY <1>3, <1>7 DEF Packets, All, Way, v

(* Between two ticks the pages are pages and the requests are requests. *)
DataOk(r, s, l) ==
    /\ RamIs(r)
    /\ \A p \in Port : Asks(s, l)[p] \in Seq(Requests[p])

LEMMA TakeIs ==
    ASSUME NEW T, NEW s, NEW l, NEW w, NEW a, NEW p \in Port, SysOk(T, s, l, w, a, p),
           DOMAIN w = Port, DOMAIN a = Port, w[p], ~ empty(s, Rsp(p))
    PROVE  /\ Asks(pop(s, Rsp(p)), l) = Asks(s, l)
           /\ Gives(s, l)[p] # <<>>
           /\ Gives(pop(s, Rsp(p)), l) = [Gives(s, l) EXCEPT ![p] = Tail(@)]
<1> DEFINE r == pop(s, Rsp(p))
<1>1. /\ All(View(s, l, Rsp(p))) # <<>>
      /\ All(View(r, l, Rsp(p))) = Tail(All(View(s, l, Rsp(p))))
      /\ SameBut(s, r, l, {Rsp(p)})
    BY SysTake, ZenonT(60)
<1> HIDE DEF r
<1>2. ASSUME NEW o \in Port PROVE All(View(r, l, Req(o))) = All(View(s, l, Req(o)))
    <2>1. Req(o) \in Endpoint \ {Rsp(p)}
        BY TheChannels
    <2> QED
        BY <1>1, <2>1 DEF SameBut
<1>3. ASSUME NEW o \in Port, o # p PROVE All(View(r, l, Rsp(o))) = All(View(s, l, Rsp(o)))
    <2>1. Rsp(o) \in Endpoint \ {Rsp(p)}
        BY <1>3, TheChannels
    <2> QED
        BY <1>1, <2>1 DEF SameBut
<1>4. Asks(r, l) = Asks(s, l)
    BY <1>2 DEF Asks
<1>5. Gives(s, l)[p] # <<>>
    BY <1>1 DEF Gives
<1>6. Gives(r, l) = [Gives(s, l) EXCEPT ![p] = Tail(@)]
    BY <1>1, <1>3 DEF Gives
<1> QED
    BY <1>4, <1>5, <1>6 DEF r

AsksFor(s, r, l, p, x) ==
    /\ Len(Asks(s, l)[p]) < CAPACITY
    /\ Asks(r, l) = [Asks(s, l) EXCEPT ![p] = Append(@, x)]
    /\ Gives(r, l) = Gives(s, l)

LEMMA SendIs ==
    ASSUME NEW T, NEW s, NEW l, NEW w, NEW a, NEW p \in Port, SysOk(T, s, l, w, a, p),
           DOMAIN w = Port, w[p] = FALSE, ~ full(s, <<p, "to_memory">>),
           NEW x \in T, x.is_write \in BOOLEAN, p = "imem" => ~ x.is_write
    PROVE  AsksFor(s, fire_immediate_events(send(s, <<p, "to_memory">>, x, l)), l, p, x)
<1> DEFINE r == fire_immediate_events(send(s, <<p, "to_memory">>, x, l))
<1>7. Asking(s, r, l, p, x)
    BY SysSend
<1> HIDE DEF r
<1>1. /\ Len(All(View(s, l, Req(p)))) < CAPACITY
      /\ All(View(r, l, Req(p))) = Append(All(View(s, l, Req(p))), x)
      /\ SameBut(s, r, l, {Req(p)})
    BY <1>7 DEF Asking
<1>2. ASSUME NEW o \in Port PROVE All(View(r, l, Rsp(o))) = All(View(s, l, Rsp(o)))
    <2>1. Rsp(o) \in Endpoint \ {Req(p)}
        BY TheChannels
    <2> QED
        BY <1>1, <2>1 DEF SameBut
<1>3. ASSUME NEW o \in Port, o # p PROVE All(View(r, l, Req(o))) = All(View(s, l, Req(o)))
    <2>1. Req(o) \in Endpoint \ {Req(p)}
        BY <1>3, TheChannels
    <2> QED
        BY <1>1, <2>1 DEF SameBut
<1>4. Gives(r, l) = Gives(s, l)
    BY <1>2 DEF Gives
<1>5. Asks(r, l) = [Asks(s, l) EXCEPT ![p] = Append(@, x)]
    BY <1>1, <1>3 DEF Asks
<1>6. Len(Asks(s, l)[p]) < CAPACITY
    BY <1>1 DEF Asks
<1> QED
    BY <1>4, <1>5, <1>6 DEF r, AsksFor

LEMMA ClockIs ==
    ASSUME NEW T, NEW s, NEW l, NEW w, NEW a, SysOk(T, s, l, w, a, "clock")
    PROVE  Asks(advance(s), l) = Asks(s, l) /\ Gives(advance(s), l) = Gives(s, l)
<1> DEFINE r == advance(s)
<1>1. SameBut(s, r, l, {})
    BY SysClock
<1> HIDE DEF r
<1>2. ASSUME NEW o \in Port
      PROVE  /\ All(View(r, l, Req(o))) = All(View(s, l, Req(o)))
             /\ All(View(r, l, Rsp(o))) = All(View(s, l, Rsp(o)))
    <2>1. Req(o) \in Endpoint \ {} /\ Rsp(o) \in Endpoint \ {}
        BY TheChannels
    <2> QED
        BY <1>1, <2>1 DEF SameBut
<1>3. Asks(r, l) = Asks(s, l) /\ Gives(r, l) = Gives(s, l)
    BY <1>2 DEF Asks, Gives
<1> QED
    BY <1>3 DEF r

(* What serving a queue does to the bytes. *)
RamTurn(q, r, r1) ==
    \/ r1 = r /\ (q # <<>> => ~ Head(q).is_write)
    \/ q # <<>> /\ Head(q).is_write /\ r1 = write_enabled(r, Head(q))
    \/ q # <<>> /\ ~ Head(q).is_write /\ r1 = touched(r, Head(q).addr, MEM_BLOCK_SIZE)

Writing(q, b) == q # <<>> /\ Head(q).is_write /\ b - Head(q).addr \in Head(q).byteen

LEMMA ServiceRam ==
    ASSUME NEW s, NEW r, NEW p \in Port
    PROVE  RamTurn(s.storage[Req(p)], r, service_port([sim |-> s, ram |-> r], p).ram)
BY DEF service_port, empty, peek, Req, RamTurn

LEMMA TurnBytes ==
    ASSUME NEW p \in Port, NEW q, q # <<>> => Head(q) \in Requests[p], NEW r, RamIs(r), NEW r1,
           RamTurn(q, r, r1)
    PROVE  /\ RamIs(r1)
           /\ \A b \in Nat : byte_of(r1, b) = IF Writing(q, b) THEN Head(q).data[b - Head(q).addr]
                                              ELSE byte_of(r, b)
<1>1. MEM_BLOCK_SIZE \in Nat /\ Block = 0 .. MEM_BLOCK_SIZE - 1
    BY MemoryAssumption DEF Block
<1>2. CASE r1 = r /\ (q # <<>> => ~ Head(q).is_write)
    BY <1>2 DEF Writing
<1>3. CASE q # <<>> /\ Head(q).is_write /\ r1 = write_enabled(r, Head(q))
    <2> DEFINE h == Head(q)
    <2>1. h \in Requests[p] /\ h.addr \in Nat /\ h.byteen \subseteq Block /\ h.is_write
        BY <1>3, MemoryAssumption
    <2>2. r1 = stored(r, h.data, h.addr, MEM_BLOCK_SIZE, h.byteen)
        BY <1>3 DEF write_enabled
    <2>3. Holding(r1, r, h.data, h.addr, MEM_BLOCK_SIZE, h.byteen)
        BY <1>1, <2>1, <2>2, Stored
    <2> HIDE DEF h
    <2>4. /\ RamIs(r1)
          /\ \A b \in Nat : byte_of(r1, b) = IF b - h.addr \in h.byteen THEN h.data[b - h.addr]
                                             ELSE byte_of(r, b)
        BY <1>1, <2>1, <2>3 DEF Holding
    <2> QED
        BY <1>3, <2>4 DEF h, Writing
<1>4. CASE q # <<>> /\ ~ Head(q).is_write /\ r1 = touched(r, Head(q).addr, MEM_BLOCK_SIZE)
    <2>1. Head(q).addr \in Nat
        BY <1>4, MemoryAssumption
    <2>2. RamIs(r1) /\ \A b : byte_of(r1, b) = byte_of(r, b)
        BY <1>1, <1>4, <2>1, Touched
    <2> QED
        BY <1>4, <2>2 DEF Writing
<1> QED
    BY <1>2, <1>3, <1>4 DEF RamTurn

(* The memory sees the queues as they were before its tick. *)
LEMMA QueuesKept ==
    ASSUME NEW T, NEW s, NEW l, NEW w, NEW a, SysOk(T, s, l, w, a, "memory"), NEW x \in T
    PROVE  LET s0 == fire_immediate_events(s)
           IN  /\ s0.storage[Req("imem")] = s.storage[Req("imem")]
               /\ Served(s0, x, "imem", l).storage[Req("dmem")] = s.storage[Req("dmem")]
<1> DEFINE s0 == fire_immediate_events(s)
           s1 == Served(s0, x, "imem", l)
           i == Req("imem")
           d == Req("dmem")
<1>1. /\ l \in Nat /\ s \in Platform(T) /\ RegOk(s, l) /\ s.imm_events = <<>> /\ s.delta = 0
      /\ \A p \in Port : PortOk(l, p, w[p], a[p], View(s, l, Req(p)), View(s, l, Rsp(p)), "memory")
    BY DEF SysOk
<1>2. "imem" \in Port /\ "dmem" \in Port /\ "imem" # "dmem"
    BY DEF Port
<1>3. /\ s0 \in Platform(T) /\ RegOk(s0, l) /\ s0.imm_events = <<>>
      /\ \A ch \in Endpoint : View(s0, l, ch) = View(s, l, ch)
    BY <1>1, FireNothing
<1>4. i \in Endpoint /\ d \in Endpoint /\ Rsp("imem") \in Endpoint /\ d \notin {i, Rsp("imem")}
    BY <1>2, TheChannels
<1>5. \A ch : View(s, l, ch).st = s.storage[ch] /\ View(s0, l, ch).st = s0.storage[ch]
              /\ View(s1, l, ch).st = s1.storage[ch]
    BY DEF View
<1>6. MaySend(View(s0, l, Rsp("imem")), l)
    <2>1. Ready(View(s, l, Rsp("imem")), l)
        BY <1>1, <1>2 DEF PortOk
    <2>2. View(s0, l, Rsp("imem")).now = <<>>
        BY <1>3, NowEmpty
    <2> QED
        BY <1>3, <1>4, <2>1, <2>2 DEF Ready, MaySend
<1> HIDE DEF s0
<1>7. /\ s1 \in Platform(T) /\ RegOk(s1, l)
      /\ ServeMove(x, T, l, View(s0, l, Req("imem")), View(s0, l, Rsp("imem")),
                            View(s1, l, Req("imem")), View(s1, l, Rsp("imem")))
      /\ \A ch \in Endpoint \ {Req("imem"), Rsp("imem")} : View(s1, l, ch) = View(s0, l, ch)
      /\ Sends(T, <<"imem", "rsp">>, l, s0, s1)
    BY <1>1, <1>2, <1>3, <1>6, ServeEffect
<1> HIDE DEF s1, i, d
<1>8. s0.storage[i] = s.storage[i] /\ s1.storage[d] = s.storage[d]
    BY <1>3, <1>4, <1>5, <1>7 DEF i
<1> QED
    BY <1>8 DEF s0, s1, i, d

(* The first of a queue is a request. *)
LEMMA HeadAsked ==
    ASSUME NEW T, NEW s \in Platform(T), NEW l \in Nat, NEW r, DataOk(r, s, l), NEW p \in Port,
           s.storage[Req(p)] # <<>>
    PROVE  Head(s.storage[Req(p)]) \in Requests[p] /\ Head(s.storage[Req(p)]) = Head(Asks(s, l)[p])
           /\ Asks(s, l)[p] # <<>>
<1> DEFINE v == View(s, l, Req(p))
<1>1. v \in Views(T, l) /\ v.st = s.storage[Req(p)]
    <2>1. Req(p) \in Endpoint
        BY TheChannels
    <2> QED
        BY <2>1, ViewType
<1>2. Asks(s, l)[p] = v.st \o Way(v)
    BY DEF Asks, All
<1>3. PICK f \in Seq(T), g \in Seq(T) : f = v.st /\ g = Way(v)
    BY <1>1, ViewParts, WayType
<1>4. f # <<>> /\ Asks(s, l)[p] = f \o g /\ Head(f) = Head(s.storage[Req(p)])
    BY <1>1, <1>2, <1>3
<1> HIDE DEF v
<1>5. f \o g # <<>> /\ Head(f \o g) = Head(f)
    BY <1>4, TailConcat
<1>6. Asks(s, l)[p] \in Seq(Requests[p])
    BY DEF DataOk
<1>7. Head(Asks(s, l)[p]) \in Requests[p]
    BY <1>4, <1>5, <1>6
<1> QED
    BY <1>4, <1>5, <1>7

(* The tick of the memory: what reads find, and what is in the memory after it. *)
ToRead(s, r, p) == [i \in Block |-> byte_of(r, Head(s.storage[Req(p)]).addr + i)]

MemoryTick(s, r, s1, r1, l) ==
    \E x, y :
        /\ MemoryTurn(s, s1, l, x, y)
        /\ s.storage[Req("imem")] # <<>> => x = ToRead(s, r, "imem")
        /\ s.storage[Req("dmem")] # <<>> => y = ToRead(s, r, "dmem")
        /\ RamIs(r1)
        /\ \A b \in Nat :
               byte_of(r1, b) =
                   IF Writing(s.storage[Req("dmem")], b)
                   THEN Head(s.storage[Req("dmem")]).data[b - Head(s.storage[Req("dmem")]).addr]
                   ELSE byte_of(r, b)

LEMMA FoundIs ==
    ASSUME NEW p \in Port, NEW h \in Requests[p], NEW r, RamIs(r), NEW r1, RamIs(r1),
           \A b \in Nat : byte_of(r1, b) = byte_of(r, b)
    PROVE  read(r1, h.addr, MEM_BLOCK_SIZE) = [i \in Block |-> byte_of(r, h.addr + i)]
<1>1. h.addr \in Nat /\ MEM_BLOCK_SIZE \in Nat /\ Block = 0 .. MEM_BLOCK_SIZE - 1
    BY MemoryAssumption DEF Block
<1>2. read(r1, h.addr, MEM_BLOCK_SIZE) = [i \in Block |-> byte_of(r1, h.addr + i)]
    BY <1>1, ReadIs, ZenonT(60)
<1>3. \A i \in Block : h.addr + i \in Nat
    BY <1>1
<1> QED
    BY <1>2, <1>3

LEMMA MemoryIs ==
    ASSUME MemoryInv, DataOk(ram, sim, latency), memory_tick
    PROVE  MemoryTick(sim, ram, sim', ram', latency)
<1>1. PICK T : SysOk(T, sim, latency, waiting, age, "memory")
    BY DEF MemoryInv, memory_tick
<1>2. sim \in Platform(T) /\ latency \in Nat
    BY <1>1 DEF SysOk
<1> DEFINE s0 == fire_immediate_events(sim)
           m1 == service_port([sim |-> s0, ram |-> ram], "imem")
           m2 == service_port(m1, "dmem")
           x == read(ram, peek(s0, Req("imem")).addr, MEM_BLOCK_SIZE)
           y == read(m1.ram, peek(m1.sim, Req("dmem")).addr, MEM_BLOCK_SIZE)
           qi == sim.storage[Req("imem")]
           qd == sim.storage[Req("dmem")]
<1>3. sim' = fire_immediate_events(m2.sim) /\ ram' = m2.ram
    BY DEF memory_tick
<1>4. "imem" \in Port /\ "dmem" \in Port
    BY DEF Port
<1>5. m1.sim = Served(s0, x, "imem", latency) /\ RamTurn(s0.storage[Req("imem")], ram, m1.ram)
    <2> HIDE DEF s0
    <2> QED
        BY <1>4, ServiceIs, ServiceRam
<1>6. m1 = [sim |-> m1.sim, ram |-> m1.ram]
    BY <1>4, ServiceRecord
<1>7. m2.sim = Served(m1.sim, y, "dmem", latency) /\ RamTurn(m1.sim.storage[Req("dmem")], m1.ram, m2.ram)
    <2> HIDE DEF m1
    <2> DEFINE u == m1.sim
               v == m1.ram
               m == service_port([sim |-> u, ram |-> v], "dmem")
    <2>1. /\ m.sim = Served(u, read(v, peek(u, Req("dmem")).addr, MEM_BLOCK_SIZE), "dmem", latency)
          /\ RamTurn(u.storage[Req("dmem")], v, m.ram)
        <3> HIDE DEF u, v
        <3> QED
            BY <1>4, ServiceIs, ServiceRam
    <2>2. m = m2
        BY <1>6
    <2> HIDE DEF m, m2
    <2> QED
        BY <2>1, <2>2
<1> DEFINE S == T \cup {x, y}
<1>8. T \subseteq S /\ x \in S /\ y \in S
    OBVIOUS
<1>9. peek(s0, Req("imem")) = Head(s0.storage[Req("imem")])
      /\ peek(m1.sim, Req("dmem")) = Head(m1.sim.storage[Req("dmem")])
    BY DEF peek
<1>10. /\ x = read(ram, Head(s0.storage[Req("imem")]).addr, MEM_BLOCK_SIZE)
       /\ y = read(m1.ram, Head(m1.sim.storage[Req("dmem")]).addr, MEM_BLOCK_SIZE)
    BY <1>9
<1> HIDE DEF S, m1, m2, x, y
<1>11. SysOk(S, sim, latency, waiting, age, "memory")
    BY <1>1, <1>8, SysMore
<1>12. s0.storage[Req("imem")] = qi /\ m1.sim.storage[Req("dmem")] = qd
    BY <1>5, <1>8, <1>11, QueuesKept
<1>13. MemoryTurn(sim, sim', latency, x, y)
    <2>1. sim' = fire_immediate_events(Served(Served(s0, x, "imem", latency), y, "dmem", latency))
        BY <1>3, <1>5, <1>7
    <2> QED
        BY <1>8, <1>11, <2>1, SysMemory
<1> HIDE DEF s0
<1>14. /\ qi # <<>> => Head(qi) \in Requests["imem"]
       /\ qd # <<>> => Head(qd) \in Requests["dmem"]
    BY <1>2, <1>4, HeadAsked
<1>15. RamIs(ram)
    BY DEF DataOk
<1> HIDE DEF qi, qd
<1>16. RamIs(m1.ram) /\ \A b \in Nat : byte_of(m1.ram, b) = byte_of(ram, b)
    <2>1. RamTurn(qi, ram, m1.ram)
        BY <1>5, <1>12
    <2>2. \A b : ~ Writing(qi, b)
        BY <1>14, MemoryAssumption DEF Writing
    <2>3. /\ RamIs(m1.ram)
          /\ \A b \in Nat : byte_of(m1.ram, b) = IF Writing(qi, b) THEN Head(qi).data[b - Head(qi).addr]
                                                 ELSE byte_of(ram, b)
        BY <1>4, <1>14, <1>15, <2>1, TurnBytes
    <2> QED
        BY <2>2, <2>3
<1>17. /\ RamIs(m2.ram)
       /\ \A b \in Nat : byte_of(m2.ram, b) = IF Writing(qd, b) THEN Head(qd).data[b - Head(qd).addr]
                                              ELSE byte_of(ram, b)
    <2>1. RamTurn(qd, m1.ram, m2.ram)
        BY <1>7, <1>12
    <2>3. /\ RamIs(m2.ram)
          /\ \A b \in Nat : byte_of(m2.ram, b) = IF Writing(qd, b) THEN Head(qd).data[b - Head(qd).addr]
                                                 ELSE byte_of(m1.ram, b)
        BY <1>4, <1>14, <1>16, <2>1, TurnBytes
    <2> QED
        BY <1>16, <2>3
<1>18. qi # <<>> => x = ToRead(sim, ram, "imem")
    <2>1. ASSUME qi # <<>> PROVE x = [i \in Block |-> byte_of(ram, Head(qi).addr + i)]
        <3> DEFINE h == Head(qi)
        <3>1. h \in Requests["imem"] /\ x = read(ram, h.addr, MEM_BLOCK_SIZE)
            BY <1>10, <1>12, <1>14, <2>1
        <3> HIDE DEF h
        <3>2. x = [i \in Block |-> byte_of(ram, h.addr + i)]
            BY <1>4, <1>15, <3>1, FoundIs
        <3> QED
            BY <3>2 DEF h
    <2> QED
        BY <2>1 DEF ToRead, qi
<1>19. qd # <<>> => y = ToRead(sim, ram, "dmem")
    <2>1. ASSUME qd # <<>> PROVE y = [i \in Block |-> byte_of(ram, Head(qd).addr + i)]
        <3> DEFINE h == Head(qd)
                   r1 == m1.ram
        <3>1. h \in Requests["dmem"] /\ y = read(r1, h.addr, MEM_BLOCK_SIZE)
            BY <1>10, <1>12, <1>14, <2>1
        <3>3. RamIs(r1) /\ \A b \in Nat : byte_of(r1, b) = byte_of(ram, b)
            BY <1>16
        <3> HIDE DEF h, r1
        <3>2. y = [i \in Block |-> byte_of(ram, h.addr + i)]
            BY <1>4, <1>15, <3>1, <3>3, FoundIs
        <3> QED
            BY <3>2 DEF h
    <2> QED
        BY <2>1 DEF ToRead, qd
<1> QED
    BY <1>3, <1>13, <1>17, <1>18, <1>19 DEF MemoryTick, qi, qd

Bytes(r) == [a \in Address |-> byte_of(r, a)]

(* Serve of PortedMemory, of what is asked (q), the answers (z) and the bytes (b). *)
Writers(q, ports, a) == {p \in ports : Head(q[p]).is_write /\ a - Head(q[p]).addr \in Head(q[p]).byteen}

IsServe(q, z, b, q1, z1, b1, ports) ==
    /\ \A p \in ports : q[p] # <<>> /\ (~ Head(q[p]).is_write => Len(z[p]) < CAPACITY)
    /\ q1 = [p \in Port |-> IF p \in ports THEN Tail(q[p]) ELSE q[p]]
    /\ z1 = [p \in Port |-> IF p \in ports /\ ~ Head(q[p]).is_write
                            THEN Append(z[p], [i \in Block |-> b[Head(q[p]).addr + i]]) ELSE z[p]]
    /\ DOMAIN b1 = Address
    /\ \A a \in Address :
           b1[a] \in IF Writers(q, ports, a) = {} THEN {b[a]}
                     ELSE {Head(q[p]).data[a - Head(q[p]).addr] : p \in Writers(q, ports, a)}

LEMMA ServeIs ==
    ASSUME NEW T, NEW s, NEW l, NEW w, NEW a, SysOk(T, s, l, w, a, "memory"), NEW r, DataOk(r, s, l),
           NEW s1, NEW r1, MemoryTick(s, r, s1, r1, l)
    PROVE  /\ DataOk(r1, s1, l)
           /\ IsServe(Asks(s, l), Gives(s, l), Bytes(r), Asks(s1, l), Gives(s1, l), Bytes(r1),
                      {p \in Port : s.storage[Req(p)] # <<>>})
<1> DEFINE q == Asks(s, l)
           z == Gives(s, l)
           q1 == Asks(s1, l)
           z1 == Gives(s1, l)
           st(p) == s.storage[Req(p)]
           ports == {p \in Port : st(p) # <<>>}
<1>1. s \in Platform(T) /\ l \in Nat
    BY DEF SysOk
<1>2. PICK x, y :
          /\ MemoryTurn(s, s1, l, x, y)
          /\ s.storage[Req("imem")] # <<>> => x = ToRead(s, r, "imem")
          /\ s.storage[Req("dmem")] # <<>> => y = ToRead(s, r, "dmem")
          /\ RamIs(r1)
          /\ \A b \in Nat :
                 byte_of(r1, b) =
                     IF Writing(s.storage[Req("dmem")], b)
                     THEN Head(s.storage[Req("dmem")]).data[b - Head(s.storage[Req("dmem")]).addr]
                     ELSE byte_of(r, b)
    BY DEF MemoryTick
<1>3. Address \subseteq Nat /\ "imem" \in Port /\ "dmem" \in Port /\ \A p \in Port : p = "imem" \/ p = "dmem"
    BY MemoryAssumption DEF Port
<1>4. ASSUME NEW p \in ports
      PROVE  Head(st(p)) \in Requests[p] /\ Head(st(p)) = Head(q[p]) /\ q[p] # <<>>
    BY <1>1, HeadAsked
<1>5. ASSUME NEW p \in ports, ~ Head(q[p]).is_write
      PROVE  Found(p, x, y) = [i \in Block |-> Bytes(r)[Head(q[p]).addr + i]]
    <2>1. Found(p, x, y) = [i \in Block |-> byte_of(r, Head(st(p)).addr + i)]
        BY <1>2, <1>3 DEF Found, ToRead
    <2>2. \A i \in Block : Head(q[p]).addr + i \in Address
        BY <1>4, <1>5, MemoryAssumption
    <2>3. \A i \in Block : byte_of(r, Head(q[p]).addr + i) = Bytes(r)[Head(q[p]).addr + i]
        BY <2>2 DEF Bytes
    <2> QED
        BY <1>4, <2>1, <2>3
<1>6. ASSUME NEW p \in Port
      PROVE  Answered(Found(p, x, y), View(s, l, Req(p)), View(s, l, Rsp(p)),
                                      View(s1, l, Req(p)), View(s1, l, Rsp(p)))
    BY <1>2 DEF MemoryTurn
<1>7. ASSUME NEW p \in Port
      PROVE  /\ q[p] = All(View(s, l, Req(p))) /\ z[p] = All(View(s, l, Rsp(p)))
             /\ q1[p] = All(View(s1, l, Req(p))) /\ z1[p] = All(View(s1, l, Rsp(p)))
             /\ st(p) = View(s, l, Req(p)).st
    BY DEF Asks, Gives, View
<1>8. ASSUME NEW p \in Port, p \notin ports PROVE q1[p] = q[p] /\ z1[p] = z[p]
    BY <1>6, <1>7, <1>8 DEF Answered
<1>9. ASSUME NEW p \in ports
      PROVE  /\ q1[p] = Tail(q[p])
             /\ Head(q[p]).is_write => z1[p] = z[p]
             /\ ~ Head(q[p]).is_write => z1[p] = Append(z[p], Found(p, x, y)) /\ Len(z[p]) < CAPACITY
    <2>1. st(p) # <<>> /\ p \in Port
        OBVIOUS
    <2> QED
        BY <1>4, <1>6, <1>7, <2>1 DEF Answered
<1>10. /\ DOMAIN q1 = Port /\ DOMAIN z1 = Port
       /\ q1 = [p \in Port |-> q1[p]] /\ z1 = [p \in Port |-> z1[p]]
    BY DEF Asks, Gives
<1>11. \A a1 \in Address : Writers(q, ports, a1) =
                               IF Writing(st("dmem"), a1) THEN {"dmem"} ELSE {}
    <2> TAKE a1 \in Address
    <2>1. ASSUME NEW p \in Writers(q, ports, a1) PROVE p = "dmem" /\ Writing(st("dmem"), a1)
        <3>1. p \in ports /\ Head(q[p]).is_write /\ a1 - Head(q[p]).addr \in Head(q[p]).byteen
            BY DEF Writers
        <3>2. p # "imem"
            BY <1>4, <3>1, MemoryAssumption
        <3>3. p = "dmem" /\ st(p) # <<>>
            BY <1>3, <3>1, <3>2
        <3> QED
            BY <1>4, <3>1, <3>3 DEF Writing
    <2>2. ASSUME Writing(st("dmem"), a1) PROVE "dmem" \in Writers(q, ports, a1)
        <3>1. "dmem" \in ports
            BY <1>3, <2>2 DEF Writing
        <3> QED
            BY <1>4, <2>2, <3>1 DEF Writers, Writing
    <2> QED
        BY <2>1, <2>2
<1>12. ASSUME NEW a1 \in Address
       PROVE  Bytes(r1)[a1] \in IF Writers(q, ports, a1) = {} THEN {Bytes(r)[a1]}
                                ELSE {Head(q[p]).data[a1 - Head(q[p]).addr] : p \in Writers(q, ports, a1)}
    <2>1. Bytes(r1)[a1] = byte_of(r1, a1) /\ Bytes(r)[a1] = byte_of(r, a1) /\ a1 \in Nat
        BY <1>3 DEF Bytes
    <2>2. CASE ~ Writing(st("dmem"), a1)
        BY <1>2, <1>11, <2>1, <2>2
    <2>3. CASE Writing(st("dmem"), a1)
        <3>1. "dmem" \in ports /\ Writers(q, ports, a1) = {"dmem"}
            BY <1>3, <1>11, <2>3 DEF Writing
        <3>2. byte_of(r1, a1) = Head(st("dmem")).data[a1 - Head(st("dmem")).addr]
            BY <1>2, <2>1, <2>3
        <3>3. Bytes(r1)[a1] = Head(q["dmem"]).data[a1 - Head(q["dmem"]).addr]
            BY <1>4, <2>1, <3>1, <3>2
        <3> QED
            BY <3>1, <3>3
    <2> QED
        BY <2>2, <2>3
<1>13. DataOk(r1, s1, l)
    <2>1. ASSUME NEW p \in Port PROVE q1[p] \in Seq(Requests[p])
        <3>1. q[p] \in Seq(Requests[p])
            BY DEF DataOk
        <3>2. CASE p \in ports
            <4> DEFINE u == q[p]
                       R == Requests[p]
            <4>1. u \in Seq(R) /\ u # <<>> /\ q1[p] = Tail(u)
                BY <1>4, <1>9, <3>1, <3>2
            <4> HIDE DEF u, R, q1
            <4>2. Tail(u) \in Seq(R)
                BY <4>1, SplitHead
            <4> QED
                BY <4>1, <4>2 DEF R
        <3>3. CASE p \notin ports
            BY <1>8, <3>1, <3>3
        <3> QED
            BY <3>2, <3>3
    <2> QED
        BY <1>2, <2>1 DEF DataOk
<1> HIDE DEF q, z, q1, z1, st, ports
<1>14. q1 = [p \in Port |-> IF p \in ports THEN Tail(q[p]) ELSE q[p]]
    BY <1>8, <1>9, <1>10
<1>15. z1 = [p \in Port |-> IF p \in ports /\ ~ Head(q[p]).is_write
                            THEN Append(z[p], [i \in Block |-> Bytes(r)[Head(q[p]).addr + i]]) ELSE z[p]]
    <2>1. ASSUME NEW p \in Port
          PROVE  z1[p] = IF p \in ports /\ ~ Head(q[p]).is_write
                         THEN Append(z[p], [i \in Block |-> Bytes(r)[Head(q[p]).addr + i]]) ELSE z[p]
        <3>1. CASE p \notin ports
            BY <1>8, <3>1
        <3>2. CASE p \in ports /\ ~ Head(q[p]).is_write
            BY <1>5, <1>9, <3>2
        <3>3. CASE p \in ports /\ Head(q[p]).is_write
            BY <1>9, <3>3
        <3> QED
            BY <3>1, <3>2, <3>3
    <2> QED
        BY <1>10, <2>1
<1>16. \A p \in ports : q[p] # <<>> /\ (~ Head(q[p]).is_write => Len(z[p]) < CAPACITY)
    BY <1>4, <1>9
<1>17. DOMAIN Bytes(r1) = Address
    BY DEF Bytes
<1>18. IsServe(q, z, Bytes(r), q1, z1, Bytes(r1), ports)
    BY <1>12, <1>14, <1>15, <1>16, <1>17 DEF IsServe
<1> QED
    BY <1>13, <1>18 DEF q, z, q1, z1, st, ports

-------------------------------------------------------------------------------
(* The refinement. *)

(* The invariant, with what the memory and the channels hold. *)
RefInv == MemoryInv /\ DataOk(ram, sim, latency)

MappedBytes   == [a \in Address |-> byte_at(a)]
MappedAsked   == [p \in Port |-> packets(<<p, "req">>)]
MappedAnswers == [p \in Port |-> packets(<<p, "to_cache">>)]

LEMMA BytesMapped == MappedBytes = Bytes(ram) /\ MappedBytes' = Bytes(ram')
BY DEF MappedBytes, Bytes, byte_at, byte_of, fresh_byte

LEMMA PacketsMapped ==
    ASSUME NEW p \in Port
    PROVE  /\ packets(<<p, "req">>) = Packets(sim, latency, Req(p))
           /\ packets(<<p, "to_cache">>) = Packets(sim, latency, Rsp(p))
<1>1. ASSUME NEW ch PROVE packets(ch) = Packets(sim, latency, ch)
    <2>1. in_flight(ch) = InWay(sim, latency, ch)
        BY DEF in_flight, InWay, NowIn, DueIn, due_in
    <2> QED
        BY <2>1 DEF packets, Packets, Pkts
<1> QED
    BY <1>1 DEF Req, Rsp

LEMMA QueuesMapped ==
    ASSUME NEW T, sim \in Platform(T), latency \in Nat
    PROVE  MappedAsked = Asks(sim, latency) /\ MappedAnswers = Gives(sim, latency)
<1>1. ASSUME NEW p \in Port
      PROVE  /\ packets(<<p, "req">>) = All(View(sim, latency, Req(p)))
             /\ packets(<<p, "to_cache">>) = All(View(sim, latency, Rsp(p)))
    <2>1. Req(p) \in Endpoint /\ Rsp(p) \in Endpoint
        BY TheChannels
    <2> QED
        BY <2>1, PacketsMapped, PacketsIs
<1> QED
    BY <1>1 DEF MappedAsked, MappedAnswers, Asks, Gives

LEMMA AskedMapped == MemoryInv => MappedAsked = Asks(sim, latency) /\ MappedAnswers = Gives(sim, latency)
<1> SUFFICES ASSUME MemoryInv
             PROVE  MappedAsked = Asks(sim, latency) /\ MappedAnswers = Gives(sim, latency)
    OBVIOUS
<1>1. PICK T : SysOk(T, sim, latency, waiting, age, tick)
    BY DEF MemoryInv
<1> QED
    BY <1>1, QueuesMapped DEF SysOk

LEMMA AskedMappedNext ==
    MemoryInv' => MappedAsked' = Asks(sim', latency') /\ MappedAnswers' = Gives(sim', latency')
<1>1. (MemoryInv => MappedAsked = Asks(sim, latency) /\ MappedAnswers = Gives(sim, latency))'
    BY AskedMapped, PTL
<1> QED
    BY <1>1

(* The operations of PortedMemory. *)
LEMMA ServeMapped ==
    ASSUME NEW ports \in SUBSET Port,
           IsServe(MappedAsked, MappedAnswers, MappedBytes, MappedAsked', MappedAnswers', MappedBytes', ports)
    PROVE  Ported!Serve(ports)
BY DEF IsServe, Writers, MappedAsked, MappedAnswers, MappedBytes, Ported!Serve, Ported!Reads, Ported!Writes,
       Ported!answer, Ported!written_at

LEMMA TakeMapped ==
    ASSUME NEW p \in Port, MappedAnswers[p] # <<>>,
           MappedAnswers' = [MappedAnswers EXCEPT ![p] = Tail(@)],
           MappedBytes' = MappedBytes, MappedAsked' = MappedAsked
    PROVE  Ported!Take(p)
BY DEF MappedAsked, MappedAnswers, MappedBytes, Ported!Take

LEMMA AskMapped ==
    ASSUME NEW p \in Port, NEW req, Len(MappedAsked[p]) < CAPACITY,
           MappedAsked' = [MappedAsked EXCEPT ![p] = Append(@, req)],
           MappedBytes' = MappedBytes, MappedAnswers' = MappedAnswers
    PROVE  Ported!Ask(p, req)
BY DEF MappedAsked, MappedAnswers, MappedBytes, Ported!Ask

LEMMA SameMapped ==
    ASSUME MappedBytes' = MappedBytes, MappedAsked' = MappedAsked, MappedAnswers' = MappedAnswers
    PROVE  UNCHANGED Ported!vars
BY DEF MappedAsked, MappedAnswers, MappedBytes, Ported!vars

LEMMA InitMapped ==
    ASSUME MappedBytes = Program, MappedAsked = [p \in Port |-> <<>>],
           MappedAnswers = [p \in Port |-> <<>>]
    PROVE  Ported!Init
BY DEF MappedAsked, MappedAnswers, MappedBytes, Ported!Init

(* At the start. *)
LEMMA RefInit == Init => RefInv /\ Ported!Init
<1> SUFFICES ASSUME Init PROVE RefInv /\ Ported!Init
    OBVIOUS
<1>1. MemoryInv
    BY InvInit
<1>2. RamIs(ram) /\ Program = Bytes(ram)
    BY ProgramLoaded DEF Init, Bytes
<1>3. ASSUME NEW ch \in Endpoint PROVE All(View(sim, latency, ch)) = <<>>
    BY InitPlatform, EmptyAtFirst
<1>4. /\ Asks(sim, latency) = [p \in Port |-> <<>>] /\ Gives(sim, latency) = [p \in Port |-> <<>>]
    BY <1>3, TheChannels DEF Asks, Gives
<1>5. DataOk(ram, sim, latency)
    <2>1. \A p \in Port : Asks(sim, latency)[p] = <<>> /\ <<>> \in Seq(Requests[p])
        BY <1>4
    <2> QED
        BY <1>2, <2>1 DEF DataOk
<1>6. Ported!Init
    BY <1>1, <1>2, <1>4, BytesMapped, AskedMapped, InitMapped
<1> QED
    BY <1>1, <1>5, <1>6 DEF RefInv

(* A step of the memory is the ports it serves. *)
LEMMA RefMemory == RefInv /\ memory_tick => RefInv' /\ \E ports \in SUBSET Port : Ported!Serve(ports)
<1> SUFFICES ASSUME RefInv, memory_tick PROVE RefInv' /\ \E ports \in SUBSET Port : Ported!Serve(ports)
    OBVIOUS
<1>1. MemoryInv /\ DataOk(ram, sim, latency) /\ latency' = latency
    BY DEF RefInv, memory_tick
<1>2. MemoryInv'
    BY <1>1, InvMemory
<1>3. PICK T : SysOk(T, sim, latency, waiting, age, "memory")
    BY <1>1 DEF MemoryInv, memory_tick
<1>4. MemoryTick(sim, ram, sim', ram', latency)
    BY <1>1, MemoryIs
<1> DEFINE ports == {p \in Port : sim.storage[Req(p)] # <<>>}
<1>5. /\ DataOk(ram', sim', latency)
      /\ IsServe(Asks(sim, latency), Gives(sim, latency), Bytes(ram),
                 Asks(sim', latency), Gives(sim', latency), Bytes(ram'), ports)
    BY <1>1, <1>3, <1>4, ServeIs
<1>6. ports \in SUBSET Port
    OBVIOUS
<1> HIDE DEF ports
<1>7. MappedAsked = Asks(sim, latency) /\ MappedAnswers = Gives(sim, latency)
    BY <1>1, AskedMapped
<1>8. MappedAsked' = Asks(sim', latency) /\ MappedAnswers' = Gives(sim', latency)
    BY <1>1, <1>2, AskedMappedNext
<1>9. IsServe(MappedAsked, MappedAnswers, MappedBytes, MappedAsked', MappedAnswers', MappedBytes', ports)
    BY <1>5, <1>7, <1>8, BytesMapped
<1>10. Ported!Serve(ports)
    BY <1>6, <1>9, ServeMapped
<1> QED
    BY <1>1, <1>2, <1>5, <1>6, <1>10 DEF RefInv

(* What a tick of a cache or of the clock leaves. *)
LEMMA KeptMapped ==
    ASSUME RefInv, MemoryInv', ram' = ram, latency' = latency
    PROVE  /\ MappedAsked = Asks(sim, latency) /\ MappedAnswers = Gives(sim, latency)
           /\ MappedAsked' = Asks(sim', latency) /\ MappedAnswers' = Gives(sim', latency)
           /\ MappedBytes' = MappedBytes
           /\ (\A p \in Port : Asks(sim', latency)[p] \in Seq(Requests[p])) => RefInv'
<1>1. MappedAsked = Asks(sim, latency) /\ MappedAnswers = Gives(sim, latency)
    BY AskedMapped DEF RefInv
<1>2. MappedAsked' = Asks(sim', latency) /\ MappedAnswers' = Gives(sim', latency)
    BY AskedMappedNext
<1>3. MappedBytes' = MappedBytes
    BY BytesMapped
<1>4. (\A p \in Port : Asks(sim', latency)[p] \in Seq(Requests[p])) => RefInv'
    BY DEF RefInv, DataOk
<1> QED
    BY <1>1, <1>2, <1>3, <1>4

LEMMA RefTake ==
    ASSUME NEW p \in Port, RefInv, cache_tick(p), take_fill(p)
    PROVE  RefInv' /\ Ported!Take(p)
<1>1. /\ MemoryInv /\ DataOk(ram, sim, latency) /\ latency' = latency /\ ram' = ram
      /\ waiting \in [Port -> BOOLEAN] /\ age \in [Port -> Nat]
    BY DEF RefInv, cache_tick, MemoryInv
<1>2. MemoryInv'
    BY <1>1, InvCache
<1>3. PICK T : SysOk(T, sim, latency, waiting, age, p)
    BY <1>1 DEF MemoryInv, cache_tick
<1>4. waiting[p] /\ ~ empty(sim, Rsp(p)) /\ sim' = pop(sim, Rsp(p))
    BY DEF take_fill, Rsp
<1>5. /\ Asks(pop(sim, Rsp(p)), latency) = Asks(sim, latency)
      /\ Gives(sim, latency)[p] # <<>>
      /\ Gives(pop(sim, Rsp(p)), latency) = [Gives(sim, latency) EXCEPT ![p] = Tail(@)]
    <2>1. DOMAIN waiting = Port /\ DOMAIN age = Port
        BY <1>1
    <2> QED
        BY <1>3, <1>4, <2>1, TakeIs
<1>6. /\ MappedAsked = Asks(sim, latency) /\ MappedAnswers = Gives(sim, latency)
      /\ MappedAsked' = Asks(sim', latency) /\ MappedAnswers' = Gives(sim', latency)
      /\ MappedBytes' = MappedBytes
      /\ (\A o \in Port : Asks(sim', latency)[o] \in Seq(Requests[o])) => RefInv'
    BY <1>1, <1>2, KeptMapped
<1>7. RefInv'
    BY <1>1, <1>4, <1>5, <1>6 DEF DataOk
<1>8. Ported!Take(p)
    BY <1>4, <1>5, <1>6, TakeMapped
<1> QED
    BY <1>7, <1>8

LEMMA RefAsk ==
    ASSUME NEW p \in Port, RefInv, cache_tick(p), NEW req \in Requests[p], send_request(p, req)
    PROVE  RefInv' /\ Ported!Ask(p, req)
<1>1. /\ MemoryInv /\ DataOk(ram, sim, latency) /\ latency' = latency /\ ram' = ram
      /\ waiting \in [Port -> BOOLEAN] /\ age \in [Port -> Nat]
    BY DEF RefInv, cache_tick, MemoryInv
<1>2. MemoryInv'
    BY <1>1, InvCache
<1>3. PICK T : SysOk(T, sim, latency, waiting, age, p)
    BY <1>1 DEF MemoryInv, cache_tick
<1>4. /\ waiting[p] = FALSE /\ ~ full(sim, <<p, "to_memory">>)
      /\ sim' = fire_immediate_events(send(sim, <<p, "to_memory">>, req, latency))
    BY <1>1 DEF send_request
<1>5. req.is_write \in BOOLEAN /\ (p = "imem" => ~ req.is_write)
    BY MemoryAssumption
<1> DEFINE S == T \cup {req}
<1>6. T \subseteq S /\ req \in S
    OBVIOUS
<1> HIDE DEF S
<1>7. SysOk(S, sim, latency, waiting, age, p)
    BY <1>3, <1>6, SysMore
<1> DEFINE s == sim
           l == latency
           r == fire_immediate_events(send(s, <<p, "to_memory">>, req, l))
<1>8. /\ Len(Asks(sim, latency)[p]) < CAPACITY
      /\ Asks(r, latency) = [Asks(sim, latency) EXCEPT ![p] = Append(@, req)]
      /\ Gives(r, latency) = Gives(sim, latency)
    <2> DEFINE w == waiting
               a == age
    <2>1. /\ DOMAIN w = Port /\ w[p] = FALSE /\ ~ full(s, <<p, "to_memory">>)
          /\ SysOk(S, s, l, w, a, p)
        BY <1>1, <1>4, <1>7
    <2> HIDE DEF s, l, w, a
    <2>2. AsksFor(s, r, l, p, req)
        BY <1>5, <1>6, <2>1, SendIs
    <2> QED
        BY <2>2 DEF AsksFor, s, l
<1>9. sim' = r
    BY <1>4
<1> HIDE DEF r
<1>10. /\ MappedAsked = Asks(sim, latency) /\ MappedAnswers = Gives(sim, latency)
       /\ MappedAsked' = Asks(sim', latency) /\ MappedAnswers' = Gives(sim', latency)
       /\ MappedBytes' = MappedBytes
       /\ (\A o \in Port : Asks(sim', latency)[o] \in Seq(Requests[o])) => RefInv'
    BY <1>1, <1>2, KeptMapped
<1>11. ASSUME NEW o \in Port PROVE Asks(sim', latency)[o] \in Seq(Requests[o])
    <2>1. Asks(sim, latency)[o] \in Seq(Requests[o]) /\ DOMAIN Asks(sim, latency) = Port
        BY <1>1 DEF DataOk, Asks
    <2> DEFINE q == Asks(sim, latency)
    <2> HIDE DEF q
    <2>2. q[o] \in Seq(Requests[o]) /\ DOMAIN q = Port
        BY <2>1 DEF q
    <2>3. [q EXCEPT ![p] = Append(@, req)][o] = IF o = p THEN Append(q[o], req) ELSE q[o]
        BY <2>2
    <2>4. o = p => Append(q[o], req) \in Seq(Requests[o])
        BY <2>2
    <2> QED
        BY <1>8, <1>9, <2>2, <2>3, <2>4 DEF q
<1>12. RefInv'
    BY <1>10, <1>11
<1>13. Ported!Ask(p, req)
    BY <1>8, <1>9, <1>10, AskMapped
<1> QED
    BY <1>12, <1>13

LEMMA RefStandBy ==
    ASSUME NEW p \in Port, RefInv, cache_tick(p), stand_by(p)
    PROVE  RefInv' /\ UNCHANGED Ported!vars
<1>1. /\ MemoryInv /\ DataOk(ram, sim, latency) /\ latency' = latency /\ ram' = ram /\ sim' = sim
    BY DEF RefInv, cache_tick, stand_by
<1>2. MemoryInv'
    BY <1>1, InvCache
<1>3. /\ MappedAsked = Asks(sim, latency) /\ MappedAnswers = Gives(sim, latency)
      /\ MappedAsked' = Asks(sim', latency) /\ MappedAnswers' = Gives(sim', latency)
      /\ MappedBytes' = MappedBytes
      /\ (\A o \in Port : Asks(sim', latency)[o] \in Seq(Requests[o])) => RefInv'
    BY <1>1, <1>2, KeptMapped
<1>4. RefInv'
    BY <1>1, <1>3 DEF DataOk
<1>5. UNCHANGED Ported!vars
    BY <1>1, <1>3, SameMapped
<1> QED
    BY <1>4, <1>5

LEMMA RefClock == RefInv /\ clock_tick => RefInv' /\ UNCHANGED Ported!vars
<1> SUFFICES ASSUME RefInv, clock_tick PROVE RefInv' /\ UNCHANGED Ported!vars
    OBVIOUS
<1>1. /\ MemoryInv /\ DataOk(ram, sim, latency) /\ latency' = latency /\ ram' = ram /\ sim' = advance(sim)
    BY DEF RefInv, clock_tick
<1>2. MemoryInv'
    BY <1>1, InvClock
<1>3. PICK T : SysOk(T, sim, latency, waiting, age, "clock")
    BY <1>1 DEF MemoryInv, clock_tick
<1>4. Asks(sim', latency) = Asks(sim, latency) /\ Gives(sim', latency) = Gives(sim, latency)
    BY <1>1, <1>3, ClockIs
<1>5. /\ MappedAsked = Asks(sim, latency) /\ MappedAnswers = Gives(sim, latency)
      /\ MappedAsked' = Asks(sim', latency) /\ MappedAnswers' = Gives(sim', latency)
      /\ MappedBytes' = MappedBytes
      /\ (\A o \in Port : Asks(sim', latency)[o] \in Seq(Requests[o])) => RefInv'
    BY <1>1, <1>2, KeptMapped
<1>6. RefInv'
    BY <1>1, <1>4, <1>5 DEF DataOk
<1>7. UNCHANGED Ported!vars
    BY <1>4, <1>5, SameMapped
<1> QED
    BY <1>6, <1>7

LEMMA RefStep == RefInv /\ [Next]_vars => RefInv' /\ [Ported!Next]_(Ported!vars)
<1> SUFFICES ASSUME RefInv, [Next]_vars PROVE RefInv' /\ [Ported!Next]_(Ported!vars)
    OBVIOUS
<1>1. CASE memory_tick
    BY <1>1, RefMemory DEF Ported!Next
<1>2. ASSUME NEW p \in Port, cache_tick(p) PROVE RefInv' /\ [Ported!Next]_(Ported!vars)
    <2>1. CASE take_fill(p)
        BY <1>2, <2>1, RefTake DEF Ported!Next
    <2>2. ASSUME NEW req \in Requests[p], send_request(p, req) PROVE RefInv' /\ [Ported!Next]_(Ported!vars)
        BY <1>2, <2>2, RefAsk DEF Ported!Next
    <2>3. CASE stand_by(p)
        BY <1>2, <2>3, RefStandBy
    <2> QED
        BY <1>2, <2>1, <2>2, <2>3 DEF cache_tick
<1>3. CASE clock_tick
    BY <1>3, RefClock
<1>4. CASE UNCHANGED vars
    <2>1. MemoryInv' /\ ram' = ram /\ latency' = latency /\ sim' = sim
        BY <1>4, InvStep DEF RefInv, vars
    <2>2. MappedAsked' = MappedAsked /\ MappedAnswers' = MappedAnswers /\ MappedBytes' = MappedBytes /\ RefInv'
        BY <2>1, KeptMapped DEF RefInv, DataOk
    <2> QED
        BY <2>2, SameMapped
<1> QED
    BY <1>1, <1>2, <1>3, <1>4 DEF Next

(* The memory with its pages made on the first access and its note of the last page
   (RAM::get), the loaders (RAM::loadBinImage, loadHexImage) and the two ports that
   packets take any latency to reach (Memory::tick, SimPlatform) are one array of bytes
   that serves each port in order and answers each read once. *)
THEOREM PortedRefinement == Spec => ImplementsPortedMemory
BY RefInit, RefStep, PTL DEF Spec, ImplementsPortedMemory, Ported!Spec
===============================================================================
