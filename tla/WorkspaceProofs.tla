-------------------------- MODULE WorkspaceProofs --------------------------
(***************************************************************************)
(* What the window guarantees for any number of sessions: the SFTP pane    *)
(* never serves a session it is not attached to, the port-forwarding pane  *)
(* in view follows the focus, every index the window keeps is an index of  *)
(* the session list, and closing a session takes no other's tile away.     *)
(*                                                                         *)
(* ClientIsOfItsSession is not inductive.  The client outlives the SFTP    *)
(* tab, because the new-tab shortcut and the left rail change the surface  *)
(* and tell no pane; it stays right because, while anything is served,     *)
(* the pane's index IS the focused index and the surface is one from which *)
(* no session is added, tiled or focused without settling the panes first. *)
(*                                                                         *)
(* IndexesLive is not inductive either: that no session is tiled twice      *)
(* needs that no tile shows one twice and no two tiles share one (Loose),  *)
(* that what is dragged is an index, and that the index of the surface is  *)
(* the focused one.                                                        *)
(*                                                                         *)
(* The first part is about the tiling's operators alone, for any number of *)
(* tiles and tabs: a tiling in which no session is in two tabs (Loose) and *)
(* each tile shows a tab it has (Tidy) stays one when a session is taken   *)
(* out, renumbered away, inserted, split off or moved, and Leaves lists    *)
(* each session of the tiling once, in the order of the tabs.  Kept and    *)
(* the library's FlattenSeq are recursive functions:                       *)
(* they are solved by induction over a natural, in                         *)
(* the form of a set of naturals that holds 0 and the next of each member; *)
(* then only what they return is used, where each element comes from and   *)
(* that the order stays.                                                   *)
(***************************************************************************)
EXTENDS Workspace, SequenceTheorems, FiniteSetTheorems, WellFoundedInduction, TLAPS

------------------------------------------------------------------------------
(* Induction, for statements that are sets of naturals *)

Less == OpToRel(<, Nat)

(* A set of naturals that is not empty has a least element.                *)
LEMMA LeastNatural ==
  ASSUME NEW S \in SUBSET Nat, S # {}
  PROVE  \E n \in S : \A m \in S : n <= m
<1>1. IsWellFoundedOn(Less, Nat)
  BY NatLessThanWellFounded DEF Less
<1>2. \A m \in Nat : \A n \in Nat : <<m, n>> \in Less <=> m < n
  BY DEF Less, OpToRel
<1> HIDE DEF Less
<1>3. PICK n \in S : \A m \in S : ~ (<<m, n>> \in Less)
  BY <1>1, WFMin, Zenon
<1>4. ASSUME NEW m \in S PROVE n <= m
  <2>1. m \in Nat /\ n \in Nat /\ ~ (<<m, n>> \in Less)
    BY <1>3
  <2>2. ~ (m < n)
    BY <1>2, <2>1
  <2> QED
    BY <2>1, <2>2
<1> QED
  BY <1>4

(* What holds of 0 and of the next of each holds of every natural.         *)
LEMMA Induction ==
  ASSUME NEW S, 0 \in S, \A n \in Nat : n \in S => n + 1 \in S
  PROVE  \A n \in Nat : n \in S
<1> SUFFICES ASSUME Nat \ S # {} PROVE FALSE
  OBVIOUS
<1>1. PICK n \in Nat \ S : \A m \in Nat \ S : n <= m
  BY LeastNatural
<1>2. n # 0 /\ n - 1 \in Nat /\ n - 1 < n
  BY <1>1
<1>3. n - 1 \in S
  BY <1>1, <1>2
<1> QED
  BY <1>1, <1>2, <1>3

(* The recursion of Kept has a solution, which gives the elements kept of   *)
(* each beginning of s.                                                     *)
KeptBody(k, s, S, N) ==
  [n \in 0 .. N |-> IF n = 0 THEN <<>>
                    ELSE IF s[n] \in S THEN Append(k[n - 1], s[n]) ELSE k[n - 1]]

(* The recursion has a solution for a sequence of any length. *)
LEMMA KeptRecursion ==
  ASSUME NEW s, NEW S, NEW N \in Nat
  PROVE  \E k : k = KeptBody(k, s, S, N)
<1> DEFINE T == {n \in Nat : \E k : k = KeptBody(k, s, S, n)}
<1>1. 0 \in T
  <2> DEFINE k == [n \in 0 .. 0 |-> <<>>]
  <2>1. k = KeptBody(k, s, S, 0)
    BY DEF KeptBody
  <2> QED
    BY <2>1
<1>2. ASSUME NEW n \in Nat, n \in T PROVE n + 1 \in T
  <2>1. PICK k : k = KeptBody(k, s, S, n)
    BY <1>2
  <2> DEFINE next == IF s[n + 1] \in S THEN Append(k[n], s[n + 1]) ELSE k[n]
             m == [i \in 0 .. n + 1 |-> IF i = n + 1 THEN next ELSE k[i]]
  <2>2. \A i \in 0 .. n : k[i] = IF i = 0 THEN <<>>
                                 ELSE IF s[i] \in S THEN Append(k[i - 1], s[i]) ELSE k[i - 1]
    BY <2>1 DEF KeptBody
  <2>3. \A i \in 1 .. n + 1 : m[i - 1] = k[i - 1]
    OBVIOUS
  <2>4. ASSUME NEW i \in 0 .. n + 1
        PROVE  m[i] = IF i = 0 THEN <<>>
                      ELSE IF s[i] \in S THEN Append(m[i - 1], s[i]) ELSE m[i - 1]
    <3>1. CASE i = n + 1
      <4>1. m[i] = next /\ i # 0 /\ i - 1 = n /\ m[i - 1] = k[n]
        BY <3>1, <2>3
      <4> HIDE DEF m
      <4> QED
        BY <3>1, <4>1
    <3>2. CASE i = 0
      BY <3>2, <2>2
    <3>3. CASE i \in 1 .. n
      <4>1. m[i] = k[i] /\ m[i - 1] = k[i - 1] /\ i # 0 /\ i \in 0 .. n
        BY <3>3, <2>3
      <4> HIDE DEF m
      <4> QED
        BY <4>1, <2>2
    <3> QED
      BY <3>1, <3>2, <3>3
  <2>5. m = KeptBody(m, s, S, n + 1)
    <3>1. m = [i \in 0 .. n + 1 |-> m[i]]
      OBVIOUS
    <3> HIDE DEF m
    <3> QED
      BY <2>4, <3>1 DEF KeptBody
  <2> HIDE DEF m
  <2> QED
    BY <2>5
<1> HIDE DEF T
<1>3. N \in T
  BY <1>1, <1>2, Induction
<1> QED
  BY <1>3 DEF T

(* Kept(s, S) is the last value of that solution. *)
LEMMA KeptSolved ==
  ASSUME NEW s, NEW S, Len(s) \in Nat
  PROVE  \E k : k = KeptBody(k, s, S, Len(s)) /\ Kept(s, S) = k[Len(s)]
<1> DEFINE k == CHOOSE k : k = KeptBody(k, s, S, Len(s))
<1>1. k = KeptBody(k, s, S, Len(s))
  BY KeptRecursion
<1>2. Kept(s, S) = k[Len(s)]
  BY DEF Kept, KeptBody
<1> HIDE DEF k
<1> QED
  BY <1>1, <1>2

(* Where the elements t kept of the first n of s come from: their places,   *)
(* in order, are the places of the elements that are in S.                  *)
Places(g, n, s, S, t) ==
  /\ t \in Seq({s[i] : i \in 1 .. Len(s)})
  /\ g \in [1 .. Len(t) -> 1 .. n]
  /\ \A i \in 1 .. Len(t) : s[g[i]] \in S /\ t[i] = s[g[i]]
  /\ \A i \in 1 .. Len(t) : \A j \in 1 .. Len(t) : i < j => g[i] < g[j]
  /\ \A m \in 1 .. n : s[m] \in S => \E i \in 1 .. Len(t) : g[i] = m

(* One more element that is kept. *)
LEMMA PlacesAppend ==
  ASSUME NEW s, NEW S, Len(s) \in Nat, NEW n \in Nat, n + 1 <= Len(s), NEW g, NEW t,
         Places(g, n, s, S, t), s[n + 1] \in S
  PROVE  \E h : Places(h, n + 1, s, S, Append(t, s[n + 1]))
<1> DEFINE Elts == {s[i] : i \in 1 .. Len(s)}
           u == Append(t, s[n + 1])
           h == [i \in 1 .. Len(t) + 1 |-> IF i = Len(t) + 1 THEN n + 1 ELSE g[i]]
<1>1. /\ t \in Seq(Elts) /\ Len(t) \in Nat /\ g \in [1 .. Len(t) -> 1 .. n]
      /\ \A i \in 1 .. Len(t) : s[g[i]] \in S /\ t[i] = s[g[i]]
      /\ \A i \in 1 .. Len(t) : \A j \in 1 .. Len(t) : i < j => g[i] < g[j]
      /\ \A m \in 1 .. n : s[m] \in S => \E i \in 1 .. Len(t) : g[i] = m
  BY DEF Places
<1>2. s[n + 1] \in Elts
  OBVIOUS
<1>3. /\ u \in Seq(Elts) /\ Len(u) = Len(t) + 1 /\ u[Len(t) + 1] = s[n + 1]
      /\ \A i \in 1 .. Len(t) : u[i] = t[i]
  <2> HIDE DEF Elts
  <2> QED
    BY <1>1, <1>2, AppendProperties
<1>4. h[Len(t) + 1] = n + 1 /\ \A i \in 1 .. Len(t) : h[i] = g[i]
  BY <1>1
<1>5. h \in [1 .. Len(u) -> 1 .. n + 1]
  BY <1>1, <1>3
<1> HIDE DEF u, h, Elts
<1>6. \A i \in 1 .. Len(u) : s[h[i]] \in S /\ u[i] = s[h[i]]
  <2> SUFFICES ASSUME NEW i \in 1 .. Len(u) PROVE s[h[i]] \in S /\ u[i] = s[h[i]]
    OBVIOUS
  <2>1. CASE i = Len(t) + 1
    BY <1>3, <1>4, <2>1
  <2>2. CASE i \in 1 .. Len(t)
    BY <1>1, <1>3, <1>4, <2>2
  <2> QED
    BY <1>1, <1>3, <2>1, <2>2
<1>7. \A i \in 1 .. Len(u) : \A j \in 1 .. Len(u) : i < j => h[i] < h[j]
  <2> SUFFICES ASSUME NEW i \in 1 .. Len(u), NEW j \in 1 .. Len(u), i < j PROVE h[i] < h[j]
    OBVIOUS
  <2>1. i \in 1 .. Len(t) /\ h[i] = g[i] /\ g[i] \in 1 .. n
    BY <1>1, <1>3, <1>4
  <2>2. CASE j = Len(t) + 1
    BY <1>4, <2>1, <2>2
  <2>3. CASE j \in 1 .. Len(t)
    BY <1>1, <1>4, <2>1, <2>3
  <2> QED
    BY <1>1, <1>3, <2>2, <2>3
<1>8. \A m \in 1 .. n + 1 : s[m] \in S => \E i \in 1 .. Len(u) : h[i] = m
  <2> SUFFICES ASSUME NEW m \in 1 .. n + 1, s[m] \in S PROVE \E i \in 1 .. Len(u) : h[i] = m
    OBVIOUS
  <2>1. CASE m = n + 1
    <3>1. Len(t) + 1 \in 1 .. Len(u)
      BY <1>1, <1>3
    <3> QED
      BY <1>4, <2>1, <3>1
  <2>2. CASE m \in 1 .. n
    <3>1. PICK i \in 1 .. Len(t) : g[i] = m
      BY <1>1, <2>2
    <3>2. i \in 1 .. Len(u) /\ h[i] = m
      BY <1>1, <1>3, <1>4, <3>1
    <3> QED
      BY <3>2
  <2> QED
    BY <2>1, <2>2
<1>9. Places(h, n + 1, s, S, u)
  BY <1>3, <1>5, <1>6, <1>7, <1>8 DEF Places, Elts
<1> QED
  BY <1>9 DEF u

(* Kept(s, S) is the elements of s that are in S, in the order of s. *)
LEMMA KeptPlaces ==
  ASSUME NEW s, NEW S, Len(s) \in Nat
  PROVE  \E g : Places(g, Len(s), s, S, Kept(s, S))
<1>1. PICK k : k = KeptBody(k, s, S, Len(s)) /\ Kept(s, S) = k[Len(s)]
  BY KeptSolved
<1> DEFINE T == {n \in Nat : n <= Len(s) => \E g : Places(g, n, s, S, k[n])}
<1>2. \A n \in 0 .. Len(s) : k[n] = IF n = 0 THEN <<>>
                                ELSE IF s[n] \in S THEN Append(k[n - 1], s[n]) ELSE k[n - 1]
  BY <1>1 DEF KeptBody
<1>3. 0 \in T
  <2>1. k[0] = <<>>
    BY <1>2
  <2>2. Places([i \in 1 .. 0 |-> 1], 0, s, S, <<>>)
    BY DEF Places
  <2> QED
    BY <2>1, <2>2
<1>4. ASSUME NEW n \in Nat, n \in T PROVE n + 1 \in T
  <2> SUFFICES ASSUME n + 1 <= Len(s) PROVE \E g : Places(g, n + 1, s, S, k[n + 1])
    OBVIOUS
  <2>1. PICK g : Places(g, n, s, S, k[n])
    BY <1>4
  <2>2. k[n + 1] = IF s[n + 1] \in S THEN Append(k[n], s[n + 1]) ELSE k[n]
    BY <1>2
  <2>3. CASE s[n + 1] \notin S
    <3>1. Places(g, n + 1, s, S, k[n])
      BY <2>1, <2>3 DEF Places
    <3> QED
      BY <2>2, <2>3, <3>1
  <2>4. CASE s[n + 1] \in S
    BY <2>1, <2>2, <2>4, PlacesAppend
  <2> QED
    BY <2>3, <2>4
<1> HIDE DEF T
<1>5. Len(s) \in T
  BY <1>3, <1>4, Induction
<1> QED
  BY <1>1, <1>5 DEF T

(* What is kept is determined by what is kept of: two lists of places agree *)
(* as far as the shorter one goes. *)
LEMMA PlacesAgree ==
  ASSUME NEW s, NEW S, NEW n \in Nat, NEW g, NEW t, Places(g, n, s, S, t),
         NEW h, NEW u, Places(h, n, s, S, u)
  PROVE  /\ Len(t) \in Nat /\ Len(t) <= Len(u)
         /\ \A i \in 1 .. Len(t) : g[i] = h[i]
<1>1. /\ Len(t) \in Nat /\ Len(u) \in Nat
      /\ g \in [1 .. Len(t) -> 1 .. n] /\ h \in [1 .. Len(u) -> 1 .. n]
      /\ \A i \in 1 .. Len(t) : s[g[i]] \in S
      /\ \A i \in 1 .. Len(u) : s[h[i]] \in S
      /\ \A i \in 1 .. Len(t) : \A j \in 1 .. Len(t) : i < j => g[i] < g[j]
      /\ \A i \in 1 .. Len(u) : \A j \in 1 .. Len(u) : i < j => h[i] < h[j]
      /\ \A m \in 1 .. n : s[m] \in S => \E i \in 1 .. Len(t) : g[i] = m
      /\ \A m \in 1 .. n : s[m] \in S => \E i \in 1 .. Len(u) : h[i] = m
  <2>1. t \in Seq({s[i] : i \in 1 .. Len(s)}) /\ u \in Seq({s[i] : i \in 1 .. Len(s)})
    BY DEF Places
  <2>2. Len(t) \in Nat /\ Len(u) \in Nat
    BY <2>1
  <2> QED
    BY <2>2, Zenon DEF Places
<1> DEFINE T == {k \in Nat : k <= Len(t) => k <= Len(u) /\ \A i \in 1 .. k : g[i] = h[i]}
<1>2. 0 \in T
  BY <1>1
<1>3. ASSUME NEW k \in Nat, k \in T PROVE k + 1 \in T
  <2> SUFFICES ASSUME k + 1 <= Len(t)
               PROVE  k + 1 <= Len(u) /\ \A i \in 1 .. k + 1 : g[i] = h[i]
    OBVIOUS
  <2>1. k <= Len(u) /\ \A i \in 1 .. k : g[i] = h[i]
    BY <1>1, <1>3
  <2>2. k + 1 \in 1 .. Len(t) /\ g[k + 1] \in 1 .. n /\ s[g[k + 1]] \in S
    BY <1>1
  <2>3. PICK j \in 1 .. Len(u) : h[j] = g[k + 1]
    BY <1>1, <2>2
  <2>4. ~ (j <= k)
    <3> SUFFICES ASSUME j <= k PROVE FALSE
      OBVIOUS
    <3>1. j \in 1 .. k /\ j \in 1 .. Len(t) /\ j < k + 1
      BY <1>1
    <3>2. g[j] < g[k + 1] /\ g[j] = h[j] /\ g[j] \in 1 .. n
      BY <1>1, <2>1, <2>2, <3>1
    <3> QED
      BY <2>2, <2>3, <3>2
  <2>5. k + 1 \in 1 .. Len(u)
    BY <1>1, <2>4
  <2>6. h[k + 1] \in 1 .. n /\ s[h[k + 1]] \in S
    BY <1>1, <2>5
  <2>7. PICK l \in 1 .. Len(t) : g[l] = h[k + 1]
    BY <1>1, <2>6
  <2>8. ~ (l <= k)
    <3> SUFFICES ASSUME l <= k PROVE FALSE
      OBVIOUS
    <3>1. l \in 1 .. k /\ l \in 1 .. Len(u) /\ l < k + 1
      BY <2>5
    <3>2. h[l] < h[k + 1] /\ g[l] = h[l] /\ h[l] \in 1 .. n
      BY <1>1, <2>1, <2>5, <3>1
    <3> QED
      BY <2>6, <2>7, <3>2
  <2>9. h[k + 1] <= h[j] /\ g[k + 1] <= g[l]
    <3>1. j = k + 1 \/ k + 1 < j
      BY <2>4
    <3>2. l = k + 1 \/ k + 1 < l
      BY <2>8
    <3>3. h[j] \in Nat /\ g[l] \in Nat
      BY <2>2, <2>3, <2>6, <2>7
    <3> QED
      BY <1>1, <2>2, <2>5, <2>6, <3>1, <3>2, <3>3
  <2>10. g[k + 1] = h[k + 1]
    BY <2>2, <2>3, <2>6, <2>7, <2>9
  <2> QED
    BY <2>1, <2>5, <2>10
<1> HIDE DEF T
<1>4. Len(t) \in T
  BY <1>1, <1>2, <1>3, Induction
<1> QED
  BY <1>1, <1>4 DEF T

(* Two lists that keep the same elements in the same order are one list. *)
LEMMA PlacesUnique ==
  ASSUME NEW s, NEW S, NEW n \in Nat, NEW g, NEW t, Places(g, n, s, S, t),
         NEW h, NEW u, Places(h, n, s, S, u)
  PROVE  t = u
<1>1. /\ Len(t) \in Nat /\ Len(t) <= Len(u)
      /\ \A i \in 1 .. Len(t) : g[i] = h[i]
  BY PlacesAgree
<1>2. Len(u) \in Nat /\ Len(u) <= Len(t)
  BY PlacesAgree
<1>3. Len(t) = Len(u)
  BY <1>1, <1>2
<1>4. /\ t \in Seq({s[i] : i \in 1 .. Len(s)}) /\ u \in Seq({s[i] : i \in 1 .. Len(s)})
      /\ \A i \in 1 .. Len(t) : t[i] = s[g[i]]
      /\ \A i \in 1 .. Len(u) : u[i] = s[h[i]]
  BY Zenon DEF Places
<1>5. \A i \in 1 .. Len(t) : t[i] = u[i]
  BY <1>1, <1>3, <1>4
<1>6. t = [i \in 1 .. Len(t) |-> t[i]] /\ u = [i \in 1 .. Len(u) |-> u[i]]
  BY <1>4
<1> QED
  BY <1>3, <1>5, <1>6

(* A list of the elements that are in S, in their order, is what Kept keeps. *)
LEMMA KeptUnique ==
  ASSUME NEW s, NEW S, Len(s) \in Nat, NEW g, NEW t, Places(g, Len(s), s, S, t)
  PROVE  t = Kept(s, S)
<1>1. PICK h : Places(h, Len(s), s, S, Kept(s, S))
  BY KeptPlaces
<1> QED
  BY <1>1, PlacesUnique

(* The recursion of FlattenSeq has a solution, which flattens each beginning *)
(* of w.                                                                     *)
FlatBody(f, w, N) == [n \in 1 .. N |-> IF n = 1 THEN w[n] ELSE f[n - 1] \o w[n]]

(* The recursion has a solution for any number of sequences. *)
LEMMA FlatRecursion ==
  ASSUME NEW w, NEW N \in Nat
  PROVE  \E f : f = FlatBody(f, w, N)
<1> DEFINE T == {n \in Nat : \E f : f = FlatBody(f, w, n)}
<1>1. 0 \in T
  <2> DEFINE f == [n \in 1 .. 0 |-> <<>>]
  <2>1. f = FlatBody(f, w, 0)
    BY DEF FlatBody
  <2> QED
    BY <2>1
<1>2. ASSUME NEW n \in Nat, n \in T PROVE n + 1 \in T
  <2>1. PICK f : f = FlatBody(f, w, n)
    BY <1>2
  <2> DEFINE next == IF n = 0 THEN w[n + 1] ELSE f[n] \o w[n + 1]
             m == [i \in 1 .. n + 1 |-> IF i = n + 1 THEN next ELSE f[i]]
  <2>2. \A i \in 1 .. n : f[i] = IF i = 1 THEN w[i] ELSE f[i - 1] \o w[i]
    BY <2>1 DEF FlatBody
  <2>3. ASSUME NEW i \in 1 .. n + 1
        PROVE  m[i] = IF i = 1 THEN w[i] ELSE m[i - 1] \o w[i]
    <3>1. CASE i = n + 1 /\ n = 0
      <4>1. m[i] = next /\ next = w[i] /\ i = 1
        BY <3>1
      <4> HIDE DEF m
      <4> QED
        BY <4>1
    <3>2. CASE i = n + 1 /\ n # 0
      <4>1. m[i] = next /\ next = f[n] \o w[i]
        BY <3>2
      <4>2. i # 1 /\ i - 1 = n /\ n \in 1 .. n + 1 /\ n # n + 1
        BY <3>2
      <4>3. m[n] = f[n]
        BY <4>2
      <4> HIDE DEF m, next
      <4> QED
        BY <4>1, <4>2, <4>3
    <3>3. CASE i \in 1 .. n
      <4>1. m[i] = f[i] /\ (i # 1 => m[i - 1] = f[i - 1])
        BY <3>3
      <4> HIDE DEF m
      <4> QED
        BY <3>3, <4>1, <2>2
    <3> QED
      BY <3>1, <3>2, <3>3
  <2>4. m = FlatBody(m, w, n + 1)
    <3>1. m = [i \in 1 .. n + 1 |-> m[i]]
      OBVIOUS
    <3> HIDE DEF m
    <3> QED
      BY <2>3, <3>1 DEF FlatBody
  <2> HIDE DEF m
  <2> QED
    BY <2>4
<1> HIDE DEF T
<1>3. N \in T
  BY <1>1, <1>2, Induction
<1> QED
  BY <1>3 DEF T

(* FlattenSeq(w) is the last value of that solution. *)
LEMMA FlatSolved ==
  ASSUME NEW w, Len(w) \in Nat
  PROVE  \E f : /\ f = FlatBody(f, w, Len(w))
               /\ FlattenSeq(w) = IF Len(w) = 0 THEN w ELSE f[Len(w)]
<1> DEFINE f == CHOOSE f : f = FlatBody(f, w, Len(w))
<1>1. f = FlatBody(f, w, Len(w))
  BY FlatRecursion
<1>2. FlattenSeq(w) = IF Len(w) = 0 THEN w ELSE f[Len(w)]
  BY DEF FlattenSeq, FlatBody
<1> HIDE DEF f
<1> QED
  BY <1>1, <1>2

(* Where the elements of f, the first n sequences of w one after the other, *)
(* come from: their spots, in order, are the spots of w.                    *)
Before(x, y) == x[1] < y[1] \/ (x[1] = y[1] /\ x[2] < y[2])

Spots(h, n, w, f) ==
  /\ f \in Seq(Nat)
  /\ h \in [1 .. Len(f) -> (1 .. n) \X Nat]
  /\ \A k \in 1 .. Len(f) : h[k][2] \in 1 .. Len(w[h[k][1]]) /\ f[k] = w[h[k][1]][h[k][2]]
  /\ \A j \in 1 .. Len(f) : \A k \in 1 .. Len(f) : j < k => Before(h[j], h[k])
  /\ \A p \in 1 .. n : \A t \in 1 .. Len(w[p]) : \E k \in 1 .. Len(f) : h[k] = <<p, t>>

(* One more sequence. *)
LEMMA SpotsConcat ==
  ASSUME NEW w \in Seq(Seq(Nat)), NEW n \in Nat, n + 1 <= Len(w), NEW h, NEW f, Spots(h, n, w, f)
  PROVE  \E g : Spots(g, n + 1, w, f \o w[n + 1])
<1> DEFINE s == w[n + 1]
           u == f \o s
           g == [k \in 1 .. Len(f) + Len(s) |->
                   IF k <= Len(f) THEN h[k] ELSE <<n + 1, k - Len(f)>>]
<1>0. f \in Seq(Nat) /\ Len(f) \in Nat
  <2>1. f \in Seq(Nat)
    BY DEF Spots
  <2> QED
    BY <2>1
<1>1. /\ h \in [1 .. Len(f) -> (1 .. n) \X Nat]
      /\ \A k \in 1 .. Len(f) : h[k][2] \in 1 .. Len(w[h[k][1]]) /\ f[k] = w[h[k][1]][h[k][2]]
      /\ \A j \in 1 .. Len(f) : \A k \in 1 .. Len(f) : j < k => Before(h[j], h[k])
      /\ \A p \in 1 .. n : \A t \in 1 .. Len(w[p]) : \E k \in 1 .. Len(f) : h[k] = <<p, t>>
  BY Zenon DEF Spots
<1>2. s \in Seq(Nat) /\ Len(s) \in Nat
  OBVIOUS
<1>3. /\ u \in Seq(Nat) /\ Len(u) = Len(f) + Len(s)
      /\ \A k \in 1 .. Len(f) : u[k] = f[k]
      /\ \A k \in 1 .. Len(u) : k > Len(f) => u[k] = s[k - Len(f)]
  BY <1>0, <1>2
<1> DEFINE L == Len(f)
<1>a. ASSUME NEW k \in 1 .. L
      PROVE  /\ k \in 1 .. Len(u) /\ g[k] = h[k]
             /\ h[k] \in (1 .. n) \X Nat /\ h[k][1] \in 1 .. n /\ h[k][2] \in Nat
  <2>1. k \in 1 .. L + Len(s) /\ k <= L
    BY <1>0, <1>2
  <2>2. g[k] = h[k]
    BY <2>1
  <2>3. h[k] \in (1 .. n) \X Nat
    BY <1>1
  <2> HIDE DEF g, u
  <2> QED
    BY <1>3, <2>1, <2>2, <2>3
<1>b. ASSUME NEW k \in 1 .. Len(u), k > L
      PROVE  /\ k - L \in 1 .. Len(s) /\ g[k] = <<n + 1, k - L>>
             /\ g[k][1] = n + 1 /\ g[k][2] = k - L
  <2>1. k \in 1 .. L + Len(s) /\ ~ (k <= L)
    BY <1>0, <1>2, <1>3, <1>b
  <2>2. g[k] = <<n + 1, k - L>>
    BY <2>1
  <2> HIDE DEF g, u
  <2> QED
    BY <1>0, <1>2, <2>1, <2>2
<1>c. \A k \in 1 .. Len(u) : k > L \/ k \in 1 .. L
  BY <1>0, <1>2, <1>3
<1>d. g = [k \in 1 .. Len(u) |-> g[k]]
  BY <1>3
<1> HIDE DEF u, g
<1>5. g \in [1 .. Len(u) -> (1 .. n + 1) \X Nat]
  <2>1. ASSUME NEW k \in 1 .. Len(u) PROVE g[k] \in (1 .. n + 1) \X Nat
    <3>1. CASE k > L
      <4>1. k - L \in Nat /\ n + 1 \in 1 .. n + 1
        BY <1>0, <1>2, <1>b, <3>1
      <4>2. g[k] = <<n + 1, k - L>>
        BY <1>b, <3>1
      <4> QED
        BY <4>1, <4>2
    <3>2. CASE k \in 1 .. L
      <4>1. g[k] = h[k] /\ h[k] \in (1 .. n) \X Nat
        BY <1>a, <3>2
      <4> QED
        BY <4>1
    <3> QED
      BY <1>c, <3>1, <3>2
  <2> QED
    BY <1>d, <2>1
<1>6. \A k \in 1 .. Len(u) : g[k][2] \in 1 .. Len(w[g[k][1]]) /\ u[k] = w[g[k][1]][g[k][2]]
  <2> SUFFICES ASSUME NEW k \in 1 .. Len(u)
               PROVE  g[k][2] \in 1 .. Len(w[g[k][1]]) /\ u[k] = w[g[k][1]][g[k][2]]
    OBVIOUS
  <2>1. CASE k > L
    BY <1>3, <1>b, <2>1
  <2>2. CASE k \in 1 .. L
    BY <1>1, <1>3, <1>a, <2>2
  <2> QED
    BY <1>c, <2>1, <2>2
<1>7. \A j \in 1 .. Len(u) : \A k \in 1 .. Len(u) : j < k => Before(g[j], g[k])
  <2> SUFFICES ASSUME NEW j \in 1 .. Len(u), NEW k \in 1 .. Len(u), j < k
               PROVE  Before(g[j], g[k])
    OBVIOUS
  <2>1. CASE k \in 1 .. L
    <3>1. j \in 1 .. L
      BY <2>1
    <3> QED
      BY <1>1, <1>a, <2>1, <3>1
  <2>2. CASE k > L /\ j \in 1 .. L
    <3>1. g[j][1] \in 1 .. n /\ g[k][1] = n + 1
      BY <1>a, <1>b, <2>2
    <3> QED
      BY <3>1 DEF Before
  <2>3. CASE j > L
    <3>0. k > L
      BY <1>0, <2>3
    <3>1. g[j][1] = n + 1 /\ g[k][1] = n + 1 /\ g[j][2] = j - L /\ g[k][2] = k - L
      BY <1>b, <2>3, <3>0
    <3>2. g[j][2] < g[k][2]
      BY <1>0, <3>1
    <3> QED
      BY <3>1, <3>2 DEF Before
  <2> QED
    BY <1>c, <2>1, <2>2, <2>3
<1>e. \A p \in 1 .. n + 1 : p = n + 1 \/ p \in 1 .. n
  OBVIOUS
<1>8. \A p \in 1 .. n + 1 : \A t \in 1 .. Len(w[p]) : \E k \in 1 .. Len(u) : g[k] = <<p, t>>
  <2> SUFFICES ASSUME NEW p \in 1 .. n + 1, NEW t \in 1 .. Len(w[p])
               PROVE  \E k \in 1 .. Len(u) : g[k] = <<p, t>>
    OBVIOUS
  <2>1. CASE p = n + 1
    <3> DEFINE k == t + L
    <3>0. t \in 1 .. Len(s)
      BY <2>1
    <3>1. k \in 1 .. Len(u) /\ k > L /\ k - L = t
      <4> HIDE DEF s, L
      <4>1. L \in Nat /\ Len(s) \in Nat /\ Len(u) = L + Len(s)
        BY <1>0, <1>2, <1>3 DEF L
      <4> QED
        BY <3>0, <4>1
    <3>2. g[k] = <<n + 1, k - L>>
      BY <1>b, <3>1
    <3> HIDE DEF k
    <3> QED
      BY <2>1, <3>1, <3>2
  <2>2. CASE p \in 1 .. n
    <3>1. PICK k \in 1 .. L : h[k] = <<p, t>>
      BY <1>1, <2>2
    <3>2. k \in 1 .. Len(u) /\ g[k] = h[k]
      BY <1>a
    <3> QED
      BY <3>1, <3>2
  <2>3. p = n + 1 \/ p \in 1 .. n
    BY <1>e
  <2> QED
    BY <2>1, <2>2, <2>3
<1>9. Spots(g, n + 1, w, u)
  BY <1>3, <1>5, <1>6, <1>7, <1>8 DEF Spots
<1> QED
  BY <1>9 DEF u

(* FlattenSeq(w) is the elements of the sequences of w, in their order. *)
LEMMA FlatSpots ==
  ASSUME NEW w \in Seq(Seq(Nat))
  PROVE  \E h : Spots(h, Len(w), w, FlattenSeq(w))
<1>1. PICK f : /\ f = FlatBody(f, w, Len(w))
               /\ FlattenSeq(w) = IF Len(w) = 0 THEN w ELSE f[Len(w)]
  BY FlatSolved
<1> DEFINE flat(n) == IF n = 0 THEN <<>> ELSE f[n]
           T == {n \in Nat : n <= Len(w) => \E h : Spots(h, n, w, flat(n))}
<1>2. \A n \in 1 .. Len(w) : f[n] = IF n = 1 THEN w[n] ELSE f[n - 1] \o w[n]
  BY <1>1 DEF FlatBody
<1>3. ASSUME NEW n \in Nat, n + 1 <= Len(w) PROVE flat(n + 1) = flat(n) \o w[n + 1]
  <2>1. w[n + 1] \in Seq(Nat) /\ n + 1 \in 1 .. Len(w)
    BY <1>3
  <2>2. CASE n = 0
    BY <1>2, <2>1, <2>2
  <2>3. CASE n # 0
    <3>1. n + 1 \in 1 .. Len(w) /\ n + 1 # 1 /\ n + 1 # 0 /\ (n + 1) - 1 = n
      BY <1>3, <2>3
    <3>2. f[n + 1] = f[n] \o w[n + 1]
      BY <1>2, <3>1
    <3> QED
      BY <2>3, <3>1, <3>2
  <2> QED
    BY <2>2, <2>3
<1>4. flat(0) = <<>>
  OBVIOUS
<1>5. FlattenSeq(w) = flat(Len(w))
  BY <1>1
<1> HIDE DEF flat
<1>6. 0 \in T
  <2>1. Spots([k \in 1 .. 0 |-> <<1, 1>>], 0, w, <<>>)
    BY DEF Spots
  <2> QED
    BY <1>4, <2>1
<1>7. ASSUME NEW n \in Nat, n \in T PROVE n + 1 \in T
  <2> SUFFICES ASSUME n + 1 <= Len(w) PROVE \E h : Spots(h, n + 1, w, flat(n + 1))
    OBVIOUS
  <2>1. PICK h : Spots(h, n, w, flat(n))
    BY <1>7
  <2> QED
    BY <1>3, <2>1, SpotsConcat
<1> HIDE DEF T
<1>8. Len(w) \in T
  BY <1>6, <1>7, Induction
<1> QED
  BY <1>5, <1>8 DEF T

------------------------------------------------------------------------------
(* Tilings *)

TileRec == [tabs : Seq(Nat), shown : Nat]
Tabs(tile) == {tile.tabs[t] : t \in DOMAIN tile.tabs}
All(w) == UNION {Tabs(w[p]) : p \in DOMAIN w}

\* No session of the n is in two tabs of the tiling w.
Loose(w, n) ==
  /\ w \in Seq(TileRec)
  /\ \A p \in DOMAIN w : IsInjective(w[p].tabs) /\ Tabs(w[p]) \subseteq 1 .. n
  /\ \A p \in DOMAIN w : \A q \in DOMAIN w :
       p # q => Tabs(w[p]) \cap Tabs(w[q]) = {}

\* Besides, each tile shows a tab it has.
Tidy(w, n) == Loose(w, n) /\ \A p \in DOMAIN w : w[p].shown \in DOMAIN w[p].tabs

(* A tiling whose tiles hold no more than different tiles of w do. *)
LEMMA Rearranged ==
  ASSUME NEW w, NEW n \in Nat, Loose(w, n), NEW v \in Seq(TileRec), NEW G \in [DOMAIN v -> DOMAIN w],
         IsInjective(G),
         \A p \in DOMAIN v : IsInjective(v[p].tabs) /\ Tabs(v[p]) \subseteq Tabs(w[G[p]])
  PROVE  Loose(v, n) /\ All(v) \subseteq All(w)
<1>1. \A p \in DOMAIN v : IsInjective(v[p].tabs) /\ Tabs(v[p]) \subseteq 1 .. n
  BY DEF Loose
<1>2. ASSUME NEW p \in DOMAIN v, NEW q \in DOMAIN v, p # q
      PROVE  Tabs(v[p]) \cap Tabs(v[q]) = {}
  <2>1. G[p] # G[q] /\ G[p] \in DOMAIN w /\ G[q] \in DOMAIN w
    BY <1>2 DEF IsInjective
  <2>2. Tabs(w[G[p]]) \cap Tabs(w[G[q]]) = {}
    BY <2>1 DEF Loose
  <2>3. Tabs(v[p]) \subseteq Tabs(w[G[p]]) /\ Tabs(v[q]) \subseteq Tabs(w[G[q]])
    OBVIOUS
  <2> QED
    BY <2>2, <2>3
<1>3. All(v) \subseteq All(w)
  BY DEF All
<1> QED
  BY <1>1, <1>2, <1>3 DEF Loose

(* Pruning the tiles without a tab and clamping the tab shown.             *)
LEMMA SettledTidy ==
  ASSUME NEW w, NEW n \in Nat, Loose(w, n)
  PROVE  Tidy(Settled(w), n) /\ All(Settled(w)) \subseteq All(w)
<1> DEFINE pos == [p \in DOMAIN w |-> p]
           S == {p \in DOMAIN w : w[p].tabs # <<>>}
           kept == Kept(pos, S)
           v == [k \in DOMAIN kept |-> Clamped(w[kept[k]])]
<1>0. w \in Seq(TileRec) /\ Len(w) \in Nat /\ DOMAIN w = 1 .. Len(w)
  BY DEF Loose
<1>1. Len(pos) = Len(w) /\ \A p \in DOMAIN w : pos[p] = p
  BY <1>0
<1>2. PICK g : Places(g, Len(w), pos, S, kept)
  BY <1>0, <1>1, KeptPlaces
<1>3. /\ kept \in Seq({pos[i] : i \in 1 .. Len(w)})
      /\ g \in [1 .. Len(kept) -> 1 .. Len(w)]
      /\ \A i \in 1 .. Len(kept) : pos[g[i]] \in S /\ kept[i] = pos[g[i]]
      /\ \A i \in 1 .. Len(kept) : \A j \in 1 .. Len(kept) : i < j => g[i] < g[j]
  BY <1>1, <1>2, Zenon DEF Places
<1>4. /\ Len(kept) \in Nat /\ DOMAIN kept = 1 .. Len(kept)
      /\ \A i \in 1 .. Len(kept) : kept[i] = g[i] /\ g[i] \in DOMAIN w
      /\ \A i \in 1 .. Len(kept) : kept[i] \in S
  <2> HIDE DEF kept, S, pos
  <2>1. Len(kept) \in Nat /\ DOMAIN kept = 1 .. Len(kept)
    BY <1>3
  <2>2. \A i \in 1 .. Len(kept) : kept[i] = g[i] /\ g[i] \in DOMAIN w /\ kept[i] \in S
    BY <1>0, <1>1, <1>3
  <2> QED
    BY <2>1, <2>2
<1>5. Settled(w) = v
  BY DEF Settled
<1> HIDE DEF kept
<1>6. ASSUME NEW k \in 1 .. Len(kept)
      PROVE  /\ v[k] \in TileRec /\ v[k].tabs = w[kept[k]].tabs
             /\ v[k].shown \in DOMAIN v[k].tabs
  <2> DEFINE tile == w[kept[k]]
  <2>1. kept[k] \in DOMAIN w /\ tile \in TileRec /\ tile.tabs # <<>>
    BY <1>0, <1>4
  <2>2. v[k] = Clamped(tile)
    BY <1>4
  <2> HIDE DEF v, tile
  <2>3. tile.tabs \in Seq(Nat) /\ tile.shown \in Nat
    BY <2>1 DEF TileRec
  <2>4. /\ Clamped(tile) \in TileRec /\ Clamped(tile).tabs = tile.tabs
        /\ Clamped(tile).shown = Greater(1, Lesser(tile.shown, Len(tile.tabs)))
    <3>1. Greater(1, Lesser(tile.shown, Len(tile.tabs))) \in Nat
      BY <2>3 DEF Greater, Lesser
    <3> QED
      BY <2>1, <3>1 DEF Clamped, TileRec
  <2>5. Len(tile.tabs) \in Nat /\ Len(tile.tabs) # 0
    BY <2>1, <2>3
  <2>6. Greater(1, Lesser(tile.shown, Len(tile.tabs))) \in 1 .. Len(tile.tabs)
    BY <2>3, <2>5 DEF Greater, Lesser
  <2> QED
    BY <2>2, <2>3, <2>4, <2>6 DEF tile
<1>7. v \in Seq(TileRec) /\ DOMAIN v = 1 .. Len(kept)
  <2>1. v = [k \in 1 .. Len(kept) |-> v[k]]
    BY <1>4
  <2> HIDE DEF v
  <2> QED
    BY <1>4, <1>6, <2>1
<1> HIDE DEF v
<1>8. g \in [DOMAIN v -> DOMAIN w] /\ IsInjective(g)
  <2>1. g \in [DOMAIN v -> DOMAIN w]
    BY <1>0, <1>3, <1>7
  <2>2. ASSUME NEW i \in 1 .. Len(kept), NEW j \in 1 .. Len(kept), g[i] = g[j]
        PROVE  i = j
    <3>1. g[i] \in Nat /\ g[j] \in Nat
      BY <1>3
    <3>2. ~ (i < j) /\ ~ (j < i)
      BY <1>3, <2>2, <3>1
    <3> QED
      BY <1>4, <3>2
  <2> QED
    BY <1>3, <2>1, <2>2 DEF IsInjective
<1>9. \A p \in DOMAIN v : IsInjective(v[p].tabs) /\ Tabs(v[p]) \subseteq Tabs(w[g[p]])
  BY <1>4, <1>6, <1>7 DEF Loose, Tabs
<1>10. Loose(v, n) /\ All(v) \subseteq All(w)
  BY <1>7, <1>8, <1>9, Rearranged
<1> QED
  BY <1>5, <1>6, <1>7, <1>10 DEF Tidy

\* t holds sessions of s, none of them i.
Thinned(t, s, i) ==
  /\ t \in Seq(Nat) /\ IsInjective(t)
  /\ \A k \in DOMAIN t : t[k] # i /\ \E u \in DOMAIN s : t[k] = s[u]

(* What is kept of a tile's tabs. *)
LEMMA KeptTabs ==
  ASSUME NEW s \in Seq(Nat), IsInjective(s), NEW i
  PROVE  Thinned(Kept(s, Int \ {i}), s, i)
<1> DEFINE S == Int \ {i}
           kept == Kept(s, S)
<1>0. Len(s) \in Nat /\ DOMAIN s = 1 .. Len(s)
  OBVIOUS
<1>1. PICK g : Places(g, Len(s), s, S, kept)
  BY <1>0, KeptPlaces
<1>2. /\ kept \in Seq({s[k] : k \in 1 .. Len(s)})
      /\ g \in [1 .. Len(kept) -> 1 .. Len(s)]
      /\ \A k \in 1 .. Len(kept) : s[g[k]] \in S /\ kept[k] = s[g[k]]
      /\ \A k \in 1 .. Len(kept) : \A j \in 1 .. Len(kept) : k < j => g[k] < g[j]
  BY <1>1, Zenon DEF Places
<1> HIDE DEF kept
<1>3. kept \in Seq(Nat) /\ Len(kept) \in Nat /\ DOMAIN kept = 1 .. Len(kept)
  <2>1. {s[k] : k \in 1 .. Len(s)} \subseteq Nat
    BY <1>0
  <2> QED
    BY <1>2, <2>1
<1>4. ASSUME NEW k \in 1 .. Len(kept), NEW j \in 1 .. Len(kept), kept[k] = kept[j]
      PROVE  k = j
  <2>1. g[k] \in 1 .. Len(s) /\ g[j] \in 1 .. Len(s) /\ s[g[k]] = s[g[j]]
    BY <1>2, <1>4
  <2>2. g[k] = g[j]
    BY <1>0, <2>1 DEF IsInjective
  <2>3. ~ (k < j) /\ ~ (j < k)
    BY <1>2, <2>1, <2>2
  <2> QED
    BY <2>3
<1>5. IsInjective(kept)
  BY <1>3, <1>4 DEF IsInjective
<1>6. \A t \in DOMAIN kept : kept[t] # i /\ \E u \in DOMAIN s : kept[t] = s[u]
  BY <1>0, <1>2, <1>3
<1> QED
  BY <1>3, <1>5, <1>6 DEF kept, Thinned

(* Taking one session out of a tiling. *)
LEMMA WithoutTidy ==
  ASSUME NEW w, NEW n \in Nat, Loose(w, n), NEW i
  PROVE  /\ Tidy(WithoutSession(w, i), n)
         /\ i \notin All(WithoutSession(w, i))
<1> DEFINE v == [p \in DOMAIN w |-> [w[p] EXCEPT !.tabs = Kept(@, Int \ {i})]]
           G == [p \in DOMAIN w |-> p]
<1>0. w \in Seq(TileRec) /\ Len(w) \in Nat /\ DOMAIN w = 1 .. Len(w)
  BY DEF Loose
<1>1. ASSUME NEW p \in DOMAIN w
      PROVE  /\ v[p] \in TileRec /\ IsInjective(v[p].tabs)
             /\ Tabs(v[p]) \subseteq Tabs(w[p]) /\ i \notin Tabs(v[p])
  <2> DEFINE s == w[p].tabs
             kept == Kept(s, Int \ {i})
  <2>1. w[p] \in TileRec /\ s \in Seq(Nat) /\ IsInjective(s)
    <3>1. w[p] \in TileRec
      BY <1>0
    <3>2. s \in Seq(Nat)
      BY <3>1 DEF TileRec
    <3> QED
      BY <3>1, <3>2 DEF Loose
  <2>2. v[p] = [w[p] EXCEPT !.tabs = kept]
    OBVIOUS
  <2> HIDE DEF v
  <2>3. Thinned(kept, s, i)
    <3> HIDE DEF s
    <3> QED
      BY <2>1, KeptTabs
  <2> HIDE DEF kept
  <2>4. v[p] \in TileRec /\ v[p].tabs = kept
    BY <2>1, <2>2, <2>3 DEF TileRec, Thinned
  <2> QED
    BY <2>3, <2>4 DEF Tabs, Thinned
<1>2. v \in Seq(TileRec) /\ DOMAIN v = DOMAIN w
  <2>1. v = [p \in 1 .. Len(w) |-> v[p]]
    BY <1>0
  <2> HIDE DEF v
  <2> QED
    BY <1>0, <1>1, <2>1
<1>3. WithoutSession(w, i) = Settled(v)
  BY DEF WithoutSession
<1> HIDE DEF v
<1>4. G \in [DOMAIN v -> DOMAIN w] /\ IsInjective(G) /\ \A p \in DOMAIN v : G[p] = p
  BY <1>2 DEF IsInjective
<1> HIDE DEF G
<1>5. Loose(v, n)
  BY <1>1, <1>2, <1>4, Rearranged
<1>6. i \notin All(v)
  BY <1>1, <1>2 DEF All
<1> QED
  BY <1>3, <1>5, <1>6, SettledTidy

(* A session leaves the list: the indexes behind it move down. *)
LEMMA RemoveTidy ==
  ASSUME NEW w, NEW n \in Nat, Loose(w, n), NEW i \in 1 .. n
  PROVE  Tidy(RemoveSession(w, i), n - 1)
<1> DEFINE c == WithoutSession(w, i)
           down(x) == IF x > i THEN x - 1 ELSE x
           v == [p \in DOMAIN c |-> [c[p] EXCEPT !.tabs = [t \in DOMAIN @ |-> down(@[t])]]]
<1>1. Tidy(c, n) /\ i \notin All(c)
  BY WithoutTidy
<1>2. RemoveSession(w, i) = v
  BY DEF RemoveSession
<1> HIDE DEF c
<1>3. c \in Seq(TileRec) /\ Len(c) \in Nat /\ DOMAIN c = 1 .. Len(c)
  BY <1>1 DEF Tidy, Loose
<1>4. ASSUME NEW p \in DOMAIN c
      PROVE  /\ v[p] \in TileRec /\ DOMAIN v[p].tabs = DOMAIN c[p].tabs
             /\ v[p].shown \in DOMAIN v[p].tabs
             /\ \A t \in DOMAIN c[p].tabs : /\ v[p].tabs[t] = down(c[p].tabs[t])
                                            /\ c[p].tabs[t] \in (1 .. n) \ {i}
  <2> DEFINE s == c[p].tabs
             u == [t \in DOMAIN s |-> down(s[t])]
  <2>1. c[p] \in TileRec /\ s \in Seq(Nat) /\ c[p].shown \in DOMAIN s
    <3>1. c[p] \in TileRec
      BY <1>3
    <3>2. s \in Seq(Nat)
      BY <3>1 DEF TileRec
    <3> QED
      BY <1>1, <3>1, <3>2 DEF Tidy
  <2>2. \A t \in DOMAIN s : s[t] \in (1 .. n) \ {i}
    BY <1>1 DEF Tidy, Loose, Tabs, All
  <2>3. v[p] = [c[p] EXCEPT !.tabs = u]
    OBVIOUS
  <2>4. u \in Seq(Nat) /\ DOMAIN u = DOMAIN s
    <3>1. Len(s) \in Nat /\ DOMAIN s = 1 .. Len(s)
      BY <2>1
    <3>2. \A t \in DOMAIN s : down(s[t]) \in Nat
      BY <2>2
    <3> HIDE DEF down, s
    <3> QED
      BY <3>1, <3>2
  <2>5. \A t \in DOMAIN s : u[t] = down(s[t])
    OBVIOUS
  <2> HIDE DEF v, u, down
  <2>6. v[p] \in TileRec /\ v[p].tabs = u /\ v[p].shown = c[p].shown
    BY <2>1, <2>3, <2>4 DEF TileRec
  <2> QED
    BY <2>1, <2>2, <2>4, <2>5, <2>6
<1>5. v \in Seq(TileRec) /\ DOMAIN v = DOMAIN c
  <2>1. v = [p \in 1 .. Len(c) |-> v[p]]
    BY <1>3
  <2> HIDE DEF v
  <2> QED
    BY <1>3, <1>4, <2>1
<1> HIDE DEF v
<1>6. \A x \in (1 .. n) \ {i} : \A y \in (1 .. n) \ {i} :
        down(x) \in 1 .. n - 1 /\ (down(x) = down(y) => x = y)
  OBVIOUS
<1> HIDE DEF down
<1>7. ASSUME NEW p \in DOMAIN v
      PROVE  IsInjective(v[p].tabs) /\ Tabs(v[p]) \subseteq 1 .. n - 1
  <2>1. IsInjective(c[p].tabs)
    BY <1>1, <1>5 DEF Tidy, Loose
  <2>2. Tabs(v[p]) \subseteq 1 .. n - 1
    BY <1>4, <1>5, <1>6 DEF Tabs
  <2>3. IsInjective(v[p].tabs)
    BY <1>4, <1>5, <1>6, <2>1 DEF IsInjective
  <2> QED
    BY <2>2, <2>3
<1>8. ASSUME NEW p \in DOMAIN v, NEW q \in DOMAIN v, p # q
      PROVE  Tabs(v[p]) \cap Tabs(v[q]) = {}
  <2> SUFFICES ASSUME NEW x \in Tabs(v[p]), x \in Tabs(v[q]) PROVE FALSE
    OBVIOUS
  <2>1. PICK t \in DOMAIN c[p].tabs : x = down(c[p].tabs[t]) /\ c[p].tabs[t] \in (1 .. n) \ {i}
    BY <1>4, <1>5 DEF Tabs
  <2>2. PICK u \in DOMAIN c[q].tabs : x = down(c[q].tabs[u]) /\ c[q].tabs[u] \in (1 .. n) \ {i}
    BY <1>4, <1>5 DEF Tabs
  <2>3. c[p].tabs[t] = c[q].tabs[u]
    BY <1>6, <2>1, <2>2
  <2>4. Tabs(c[p]) \cap Tabs(c[q]) = {}
    BY <1>1, <1>5, <1>8 DEF Tidy, Loose
  <2> QED
    BY <2>3, <2>4 DEF Tabs
<1>9. Loose(v, n - 1)
  BY <1>5, <1>7, <1>8 DEF Loose
<1> QED
  BY <1>2, <1>4, <1>5, <1>9 DEF Tidy

Shifted(p, at) == IF p < at THEN p ELSE p - 1

\* u is s with e inserted at `at`.
TakesAt(T, u, s, e, at) ==
  /\ u \in Seq(T) /\ at \in 1 .. Len(s) + 1 /\ Len(u) = Len(s) + 1 /\ u[at] = e
  /\ \A p \in 1 .. Len(s) + 1 :
       p # at => Shifted(p, at) \in 1 .. Len(s) /\ u[p] = s[Shifted(p, at)]

(* What is before and after an element that is inserted. *)
LEMMA Inserted ==
  ASSUME NEW T, NEW s \in Seq(T), NEW e \in T, NEW at \in 1 .. Len(s) + 1
  PROVE  TakesAt(T, InsertAt(s, at, e), s, e, at)
<1> DEFINE front == SubSeq(s, 1, at - 1)
           back == SubSeq(s, at, Len(s))
           one == <<e>>
           v == front \o one \o back
<1>0. Len(s) \in Nat /\ at \in Nat
  OBVIOUS
<1>1. one \in Seq(T) /\ Len(one) = 1 /\ one[1] = e
  OBVIOUS
<1>2. /\ front \in Seq(T) /\ Len(front) = at - 1
      /\ \A p \in 1 .. at - 1 : front[p] = s[p]
  OBVIOUS
<1>3. /\ back \in Seq(T) /\ Len(back) = Len(s) - at + 1
      /\ \A p \in 1 .. Len(back) : back[p] = s[at + p - 1]
  OBVIOUS
<1>4. InsertAt(s, at, e) = v
  BY DEF InsertAt
<1> HIDE DEF front, back, one
<1> DEFINE u == front \o one
<1>5. /\ u \in Seq(T) /\ Len(u) = at /\ u[at] = e
      /\ \A p \in 1 .. at - 1 : u[p] = s[p]
  <2>1. /\ u \in Seq(T) /\ Len(u) = Len(front) + Len(one)
        /\ \A p \in 1 .. Len(front) + Len(one) :
             u[p] = IF p <= Len(front) THEN front[p] ELSE one[p - Len(front)]
    BY <1>1, <1>2, ConcatProperties
  <2> HIDE DEF u
  <2>2. Len(u) = at /\ at - Len(front) = 1 /\ ~ (at <= Len(front)) /\ at \in 1 .. at
    BY <1>0, <1>1, <1>2, <2>1
  <2>3. u[at] = e
    BY <1>1, <2>1, <2>2
  <2>4. \A p \in 1 .. at - 1 : u[p] = s[p]
    BY <1>0, <1>1, <1>2, <2>1
  <2> QED
    BY <2>1, <2>2, <2>3, <2>4
<1> HIDE DEF u
<1>6. /\ v \in Seq(T) /\ Len(v) = Len(s) + 1
      /\ \A p \in 1 .. Len(s) + 1 : v[p] = IF p <= at THEN u[p] ELSE back[p - at]
  <2>1. /\ u \o back \in Seq(T) /\ Len(u \o back) = Len(u) + Len(back)
        /\ \A p \in 1 .. Len(u) + Len(back) :
             (u \o back)[p] = IF p <= Len(u) THEN u[p] ELSE back[p - Len(u)]
    BY <1>3, <1>5, ConcatProperties
  <2>2. v = u \o back
    BY DEF u
  <2> HIDE DEF v
  <2>3. Len(u) + Len(back) = Len(s) + 1
    BY <1>0, <1>3, <1>5
  <2> QED
    BY <1>5, <2>1, <2>2, <2>3
<1>7. /\ \A p \in 1 .. at : v[p] = u[p]
      /\ \A p \in 1 .. Len(s) + 1 : p > at => v[p] = back[p - at]
  <2> HIDE DEF v
  <2> QED
    BY <1>0, <1>6
<1> HIDE DEF v
<1>8. v[at] = e
  BY <1>0, <1>5, <1>7
<1>9. ASSUME NEW p \in 1 .. Len(s) + 1, p # at
      PROVE  Shifted(p, at) \in 1 .. Len(s) /\ v[p] = s[Shifted(p, at)]
  <2>1. CASE p < at
    <3>1. p \in 1 .. at - 1 /\ p \in 1 .. at /\ p \in 1 .. Len(s) /\ Shifted(p, at) = p
      BY <1>0, <2>1 DEF Shifted
    <3> QED
      BY <1>5, <1>7, <3>1
  <2>2. CASE p > at
    <3>1. p - at \in 1 .. Len(back) /\ Shifted(p, at) = p - 1 /\ at + (p - at) - 1 = p - 1
      BY <1>0, <1>3, <2>2 DEF Shifted
    <3>2. v[p] = back[p - at] /\ back[p - at] = s[p - 1]
      BY <1>3, <1>7, <2>2, <3>1
    <3>3. p - 1 \in 1 .. Len(s)
      BY <1>0, <2>2
    <3> QED
      BY <3>1, <3>2, <3>3
  <2> QED
    BY <1>0, <1>9, <2>1, <2>2
<1> QED
  BY <1>4, <1>6, <1>8, <1>9 DEF TakesAt

(* A session that is nowhere in the tiling becomes a tile of its own. *)
LEMMA AddTile ==
  ASSUME NEW w, NEW n \in Nat, Tidy(w, n), NEW i \in 1 .. n, i \notin All(w),
         NEW at \in 1 .. Len(w) + 1
  PROVE  Tidy(InsertAt(w, at, Tile(<<i>>, 1)), n)
<1> DEFINE new == Tile(<<i>>, 1)
           v == InsertAt(w, at, new)
           old(p) == Shifted(p, at)
<1>0. w \in Seq(TileRec) /\ Len(w) \in Nat /\ DOMAIN w = 1 .. Len(w)
  BY DEF Tidy, Loose
<1>1. /\ new \in TileRec /\ Tabs(new) = {i} /\ IsInjective(new.tabs)
      /\ new.shown \in DOMAIN new.tabs
  <2>1. <<i>> \in Seq(Nat) /\ DOMAIN <<i>> = {1} /\ <<i>>[1] = i
    OBVIOUS
  <2>2. new.tabs = <<i>> /\ new.shown = 1 /\ new \in TileRec
    BY <2>1 DEF Tile, TileRec
  <2> HIDE DEF new
  <2> QED
    BY <2>1, <2>2 DEF Tabs, IsInjective
<1> HIDE DEF new
<1>4. /\ v \in Seq(TileRec) /\ Len(v) = Len(w) + 1 /\ DOMAIN v = 1 .. Len(v)
      /\ v[at] = new
      /\ \A p \in 1 .. Len(v) : p # at => old(p) \in 1 .. Len(w) /\ v[p] = w[old(p)]
  <2> HIDE DEF v, old
  <2>1. TakesAt(TileRec, v, w, new, at)
    BY <1>0, <1>1, Inserted DEF v
  <2> QED
    BY <1>0, <2>1 DEF TakesAt, old
<1> HIDE DEF v
<1>6. ASSUME NEW p \in DOMAIN v
      PROVE  /\ IsInjective(v[p].tabs) /\ Tabs(v[p]) \subseteq 1 .. n
             /\ v[p].shown \in DOMAIN v[p].tabs
  <2>1. CASE p = at
    BY <1>1, <1>4, <2>1
  <2>2. CASE p # at
    <3>1. old(p) \in DOMAIN w /\ v[p] = w[old(p)]
      BY <1>0, <1>4, <2>2
    <3> HIDE DEF old
    <3> QED
      BY <3>1 DEF Tidy, Loose
  <2> QED
    BY <2>1, <2>2
<1>7. ASSUME NEW p \in DOMAIN v, NEW q \in DOMAIN v, p # q
      PROVE  Tabs(v[p]) \cap Tabs(v[q]) = {}
  <2>1. \A r \in DOMAIN v : r # at => Tabs(v[r]) \subseteq All(w)
    <3> HIDE DEF old
    <3> QED
      BY <1>0, <1>4 DEF All
  <2>2. CASE p = at \/ q = at
    BY <1>1, <1>4, <1>7, <2>1, <2>2
  <2>3. CASE p # at /\ q # at
    <3>1. old(p) # old(q)
      BY <1>0, <1>4, <1>7, <2>3 DEF Shifted
    <3>2. old(p) \in DOMAIN w /\ v[p] = w[old(p)] /\ old(q) \in DOMAIN w /\ v[q] = w[old(q)]
      BY <1>0, <1>4, <2>3
    <3> HIDE DEF old
    <3> QED
      BY <3>1, <3>2 DEF Tidy, Loose
  <2> QED
    BY <2>2, <2>3
<1>8. Loose(v, n)
  BY <1>4, <1>6, <1>7 DEF Loose
<1> QED
  BY <1>6, <1>8 DEF Tidy, v, new

Replaced(w, target, tile) == [p \in DOMAIN w |-> IF p = target THEN tile ELSE w[p]]

(* A session that is nowhere in the tiling becomes one more tab of a tile. *)
LEMMA ReplaceTile ==
  ASSUME NEW w, NEW n \in Nat, Tidy(w, n), NEW i \in 1 .. n, i \notin All(w),
         NEW target, NEW tile,
         target \in DOMAIN w => /\ tile \in TileRec /\ IsInjective(tile.tabs)
                                /\ Tabs(tile) \subseteq Tabs(w[target]) \cup {i}
                                /\ tile.shown \in DOMAIN tile.tabs
  PROVE  Tidy(Replaced(w, target, tile), n)
<1> DEFINE v == [p \in DOMAIN w |-> IF p = target THEN tile ELSE w[p]]
<1>0. w \in Seq(TileRec) /\ Len(w) \in Nat /\ DOMAIN w = 1 .. Len(w)
  BY DEF Tidy, Loose
<1>1. ASSUME NEW p \in DOMAIN w
      PROVE  /\ v[p] \in TileRec /\ IsInjective(v[p].tabs)
             /\ Tabs(v[p]) \subseteq Tabs(w[p]) \cup (IF p = target THEN {i} ELSE {})
             /\ v[p].shown \in DOMAIN v[p].tabs
  <2>1. CASE p = target
    <3>1. v[p] = tile
      BY <2>1
    <3> HIDE DEF v
    <3> QED
      BY <2>1, <3>1
  <2>2. CASE p # target
    <3>1. v[p] = w[p]
      BY <2>2
    <3>2. w[p] \in TileRec
      BY <1>0
    <3> HIDE DEF v
    <3> QED
      BY <3>1, <3>2 DEF Tidy, Loose
  <2> QED
    BY <2>1, <2>2
<1>2. v \in Seq(TileRec) /\ DOMAIN v = DOMAIN w
  <2>1. v = [p \in 1 .. Len(w) |-> v[p]]
    BY <1>0
  <2> HIDE DEF v
  <2> QED
    BY <1>0, <1>1, <2>1
<1> HIDE DEF v
<1>3. \A p \in DOMAIN w : Tabs(w[p]) \subseteq 1 .. n /\ i \notin Tabs(w[p])
  BY DEF Tidy, Loose, All
<1>4. \A p \in DOMAIN v : Tabs(v[p]) \subseteq 1 .. n
  BY <1>1, <1>2, <1>3
<1>5. ASSUME NEW p \in DOMAIN v, NEW q \in DOMAIN v, p # q
      PROVE  Tabs(v[p]) \cap Tabs(v[q]) = {}
  <2>1. Tabs(w[p]) \cap Tabs(w[q]) = {}
    BY <1>2, <1>5 DEF Tidy, Loose
  <2> QED
    BY <1>1, <1>2, <1>3, <1>5, <2>1
<1>6. Loose(v, n)
  BY <1>1, <1>2, <1>4, <1>5 DEF Loose
<1> QED
  BY <1>1, <1>2, <1>6 DEF Tidy, v, Replaced

(* A tile with one tab. *)
LEMMA SingleTile ==
  ASSUME NEW i \in Nat
  PROVE  /\ Tile(<<i>>, 1) \in TileRec /\ Tabs(Tile(<<i>>, 1)) = {i}
         /\ IsInjective(Tile(<<i>>, 1).tabs)
         /\ Tile(<<i>>, 1).shown \in DOMAIN Tile(<<i>>, 1).tabs
<1> DEFINE new == Tile(<<i>>, 1)
<1>1. <<i>> \in Seq(Nat) /\ DOMAIN <<i>> = {1} /\ <<i>>[1] = i
  OBVIOUS
<1>2. new.tabs = <<i>> /\ new.shown = 1 /\ new \in TileRec
  BY <1>1 DEF Tile, TileRec
<1> HIDE DEF new
<1>3. /\ new \in TileRec /\ Tabs(new) = {i} /\ IsInjective(new.tabs)
      /\ new.shown \in DOMAIN new.tabs
  BY <1>1, <1>2 DEF Tabs, IsInjective
<1> QED
  BY <1>3 DEF new

(* The first tile of a tiling. *)
LEMMA OneTile ==
  ASSUME NEW n \in Nat, NEW i \in 1 .. n
  PROVE  Tidy(<<Tile(<<i>>, 1)>>, n)
<1> DEFINE new == Tile(<<i>>, 1)
           v == <<new>>
<1>1. /\ new \in TileRec /\ Tabs(new) = {i} /\ IsInjective(new.tabs)
      /\ new.shown \in DOMAIN new.tabs
  BY SingleTile
<1> HIDE DEF new
<1>2. v \in Seq(TileRec) /\ DOMAIN v = {1} /\ v[1] = new
  BY <1>1
<1> HIDE DEF v
<1>3. Tidy(v, n)
  BY <1>1, <1>2 DEF Tidy, Loose
<1> QED
  BY <1>3 DEF v, new

(* Two sessions side by side. *)
LEMMA TwoTiles ==
  ASSUME NEW n \in Nat, NEW a \in 1 .. n, NEW b \in 1 .. n, a # b
  PROVE  Tidy(<<Tile(<<a>>, 1), Tile(<<b>>, 1)>>, n)
<1> DEFINE x == Tile(<<a>>, 1)
           y == Tile(<<b>>, 1)
           v == <<x, y>>
<1>1. /\ x \in TileRec /\ Tabs(x) = {a} /\ IsInjective(x.tabs)
      /\ x.shown \in DOMAIN x.tabs
  BY SingleTile
<1>2. /\ y \in TileRec /\ Tabs(y) = {b} /\ IsInjective(y.tabs)
      /\ y.shown \in DOMAIN y.tabs
  BY SingleTile
<1> HIDE DEF x, y
<1>3. v \in Seq(TileRec) /\ DOMAIN v = {1, 2} /\ v[1] = x /\ v[2] = y
  BY <1>1, <1>2
<1> HIDE DEF v
<1>4. \A p \in DOMAIN v : IsInjective(v[p].tabs) /\ Tabs(v[p]) \subseteq 1 .. n
                          /\ v[p].shown \in DOMAIN v[p].tabs
  BY <1>1, <1>2, <1>3
<1>5. \A p \in DOMAIN v : \A q \in DOMAIN v : p # q => Tabs(v[p]) \cap Tabs(v[q]) = {}
  BY <1>1, <1>2, <1>3
<1>6. Tidy(v, n)
  BY <1>3, <1>4, <1>5 DEF Tidy, Loose
<1> QED
  BY <1>6 DEF v, x, y

\* The index before the session i left the list of the one at index x after.
Up(x, i) == IF x >= i THEN x + 1 ELSE x

(* What RemoveAt leaves of a sequence. *)
LEMMA RemovedAt ==
  ASSUME NEW T, NEW s \in Seq(T), NEW k \in DOMAIN s
  PROVE  /\ RemoveAt(s, k) \in Seq(T) /\ Len(RemoveAt(s, k)) = Len(s) - 1
         /\ DOMAIN RemoveAt(s, k) = 1 .. Len(s) - 1
         /\ \A p \in 1 .. Len(s) - 1 : /\ Up(p, k) \in DOMAIN s /\ Up(p, k) # k
                                       /\ RemoveAt(s, k)[p] = s[Up(p, k)]
<1> DEFINE front == SubSeq(s, 1, k - 1)
           back == SubSeq(s, k + 1, Len(s))
           v == RemoveAt(s, k)
<1>0. Len(s) \in Nat /\ k \in 1 .. Len(s) /\ DOMAIN s = 1 .. Len(s)
  OBVIOUS
<1>1. /\ front \in Seq(T) /\ Len(front) = k - 1
      /\ \A p \in 1 .. k - 1 : front[p] = s[p]
  BY <1>0
<1>2. /\ back \in Seq(T) /\ Len(back) = Len(s) - k
      /\ \A p \in 1 .. Len(back) : back[p] = s[k + p]
  <2>1. k + 1 \in Int /\ Len(s) \in Int /\ \A p \in k + 1 .. Len(s) : s[p] \in T
    BY <1>0
  <2>2. /\ back \in Seq(T)
        /\ Len(back) = IF k + 1 <= Len(s) THEN Len(s) - (k + 1) + 1 ELSE 0
        /\ \A p \in 1 .. Len(s) - (k + 1) + 1 : back[p] = s[k + 1 + p - 1]
    BY <2>1, SubSeqProperties
  <2> HIDE DEF back
  <2>3. Len(back) = Len(s) - k
    BY <1>0, <2>2
  <2>4. ASSUME NEW p \in 1 .. Len(back) PROVE back[p] = s[k + p]
    <3>1. p \in 1 .. Len(s) - (k + 1) + 1 /\ k + 1 + p - 1 = k + p
      BY <1>0, <2>3
    <3> QED
      BY <2>2, <3>1
  <2> QED
    BY <2>2, <2>3, <2>4
<1>3. v = front \o back
  BY DEF RemoveAt
<1> HIDE DEF front, back, v
<1>4. /\ v \in Seq(T) /\ Len(v) = Len(front) + Len(back)
      /\ \A p \in 1 .. Len(front) + Len(back) :
           v[p] = IF p <= Len(front) THEN front[p] ELSE back[p - Len(front)]
  BY <1>1, <1>2, <1>3, ConcatProperties
<1>5. Len(v) = Len(s) - 1 /\ DOMAIN v = 1 .. Len(s) - 1
  BY <1>0, <1>1, <1>2, <1>4
<1>6. ASSUME NEW p \in 1 .. Len(s) - 1
      PROVE  Up(p, k) \in DOMAIN s /\ Up(p, k) # k /\ v[p] = s[Up(p, k)]
  <2>0. p \in 1 .. Len(front) + Len(back)
    BY <1>0, <1>1, <1>2
  <2>1. CASE p < k
    <3>1. p <= Len(front) /\ p \in 1 .. k - 1 /\ Up(p, k) = p /\ p \in 1 .. Len(s)
      BY <1>0, <1>1, <2>1 DEF Up
    <3>2. v[p] = s[p]
      BY <1>1, <1>4, <2>0, <3>1
    <3> QED
      BY <1>0, <2>1, <3>1, <3>2
  <2>2. CASE ~ (p < k)
    <3>0. Len(front) = k - 1 /\ Len(back) = Len(s) - k /\ p \in Int
      BY <1>1, <1>2
    <3>1. /\ p - Len(front) \in 1 .. Len(back) /\ k + (p - Len(front)) = p + 1
          /\ ~ (p <= Len(front)) /\ Up(p, k) = p + 1 /\ p + 1 \in 1 .. Len(s) /\ p + 1 # k
      <4>1. p + 1 \in 1 .. Len(s) /\ p + 1 # k /\ Up(p, k) = p + 1
        BY <1>0, <2>2 DEF Up
      <4>2. p - (k - 1) \in 1 .. Len(s) - k /\ k + (p - (k - 1)) = p + 1 /\ ~ (p <= k - 1)
        BY <1>0, <2>2
      <4> QED
        BY <3>0, <4>1, <4>2
    <3>2. v[p] = back[p - Len(front)]
      BY <1>4, <2>0, <3>1
    <3>3. back[p - Len(front)] = s[k + (p - Len(front))]
      BY <1>2, <3>1
    <3> QED
      BY <1>0, <3>1, <3>2, <3>3
  <2> QED
    BY <2>1, <2>2
<1> QED
  BY <1>4, <1>5, <1>6 DEF v

(* A session taken out of a tile's tabs. *)
LEMMA RemovedTab ==
  ASSUME NEW s \in Seq(Nat), IsInjective(s), NEW k \in DOMAIN s
  PROVE  Thinned(RemoveAt(s, k), s, s[k])
<1> DEFINE v == RemoveAt(s, k)
<1>1. /\ v \in Seq(Nat) /\ DOMAIN v = 1 .. Len(s) - 1
      /\ \A p \in DOMAIN v : Up(p, k) \in DOMAIN s /\ Up(p, k) # k /\ v[p] = s[Up(p, k)]
  BY RemovedAt
<1> HIDE DEF v
<1>2. \A p \in DOMAIN v : \A q \in DOMAIN v : Up(p, k) = Up(q, k) => p = q
  <2>1. k \in Nat /\ DOMAIN v \subseteq Int
    BY <1>1
  <2>2. \A p \in Int : \A q \in Int : Up(p, k) = Up(q, k) => p = q
    BY <2>1 DEF Up
  <2> QED
    BY <2>1, <2>2
<1>3. IsInjective(v)
  BY <1>1, <1>2 DEF IsInjective
<1>4. \A p \in DOMAIN v : v[p] # s[k] /\ \E u \in DOMAIN s : v[p] = s[u]
  BY <1>1 DEF IsInjective
<1> QED
  BY <1>1, <1>3, <1>4 DEF Thinned, v

(* A tile with one more session among its tabs, which it shows. *)
LEMMA InsertedTab ==
  ASSUME NEW s \in Seq(Nat), IsInjective(s), NEW i \in Nat, \A t \in DOMAIN s : s[t] # i,
         NEW u, NEW at, TakesAt(Nat, u, s, i, at)
  PROVE  /\ Tile(u, at) \in TileRec /\ IsInjective(Tile(u, at).tabs)
         /\ \A t \in DOMAIN u : u[t] = i \/ \E x \in DOMAIN s : u[t] = s[x]
         /\ Tile(u, at).tabs = u
         /\ Tile(u, at).shown \in DOMAIN Tile(u, at).tabs
<1>0. /\ Len(s) \in Nat /\ DOMAIN s = 1 .. Len(s) /\ DOMAIN u = 1 .. Len(s) + 1
      /\ u \in Seq(Nat) /\ at \in 1 .. Len(s) + 1 /\ u[at] = i
      /\ \A p \in 1 .. Len(s) + 1 :
           p # at => Shifted(p, at) \in 1 .. Len(s) /\ u[p] = s[Shifted(p, at)]
  BY DEF TakesAt
<1>1. Tile(u, at) \in TileRec /\ Tile(u, at).tabs = u /\ Tile(u, at).shown = at
  BY <1>0 DEF Tile, TileRec
<1>2. ASSUME NEW p \in DOMAIN u, NEW q \in DOMAIN u, u[p] = u[q]
      PROVE  p = q
  <2>1. CASE p = at \/ q = at
    BY <1>0, <1>2, <2>1
  <2>2. CASE p # at /\ q # at
    <3>1. Shifted(p, at) = Shifted(q, at)
      BY <1>0, <1>2, <2>2 DEF IsInjective
    <3>2. p \in Int /\ q \in Int /\ at \in Int
      BY <1>0
    <3> QED
      BY <2>2, <3>1, <3>2 DEF Shifted
  <2> QED
    BY <2>1, <2>2
<1>3. IsInjective(u)
  BY <1>2 DEF IsInjective
<1>4. \A t \in DOMAIN u : u[t] = i \/ \E x \in DOMAIN s : u[t] = s[x]
  BY <1>0
<1> QED
  BY <1>0, <1>1, <1>3, <1>4

(* A session becomes a tile of its own. *)
LEMMA SplitTidy ==
  ASSUME NEW w, NEW n \in Nat, Loose(w, n), NEW i \in 1 .. n,
         NEW target \in Nat \ {0}, NEW after \in BOOLEAN
  PROVE  Tidy(SplitBeside(w, target, i, after), n)
<1> DEFINE clean == WithoutSession(w, i)
           at == Lesser(target, Len(clean)) + (IF after THEN 1 ELSE 0)
<1>1. Tidy(clean, n) /\ i \notin All(clean)
  BY WithoutTidy
<1>2. SplitBeside(w, target, i, after) =
        IF clean = <<>> THEN <<Tile(<<i>>, 1)>> ELSE InsertAt(clean, at, Tile(<<i>>, 1))
  BY DEF SplitBeside
<1>3. CASE clean = <<>>
  BY <1>2, <1>3, OneTile
<1>4. CASE clean # <<>>
  <2> HIDE DEF clean
  <2>1. clean \in Seq(TileRec)
    BY <1>1 DEF Tidy, Loose
  <2>2. Len(clean) \in Nat /\ Len(clean) # 0
    BY <1>4, <2>1
  <2>3. at \in 1 .. Len(clean) + 1
    <3>1. Lesser(target, Len(clean)) \in 1 .. Len(clean)
      BY <2>2 DEF Lesser
    <3>2. (IF after THEN 1 ELSE 0) \in {0, 1}
      OBVIOUS
    <3>3. \A x \in 1 .. Len(clean) : \A y \in {0, 1} : x + y \in 1 .. Len(clean) + 1
      BY <2>2
    <3> QED
      BY <3>1, <3>2, <3>3
  <2> QED
    BY <1>1, <1>2, <1>4, <2>3, AddTile
<1> QED
  BY <1>3, <1>4

(* A tile of a tidy tiling takes one more tab, at a place of its own. *)
LEMMA TileTakes ==
  ASSUME NEW w, NEW n \in Nat, Tidy(w, n), NEW i \in 1 .. n, i \notin All(w), NEW target,
         NEW at, NEW u,
         target \in DOMAIN w => TakesAt(Nat, u, w[target].tabs, i, at)
  PROVE  Tidy(Replaced(w, target, Tile(u, at)), n)
<1>1. ASSUME target \in DOMAIN w
      PROVE  /\ Tile(u, at) \in TileRec /\ IsInjective(Tile(u, at).tabs)
             /\ Tabs(Tile(u, at)) \subseteq Tabs(w[target]) \cup {i}
             /\ Tile(u, at).shown \in DOMAIN Tile(u, at).tabs
  <2> DEFINE s == w[target].tabs
  <2>1. s \in Seq(Nat)
    <3>1. w[target] \in TileRec
      BY <1>1 DEF Tidy, Loose
    <3> QED
      BY <3>1 DEF TileRec
  <2>2. IsInjective(s) /\ \A t \in DOMAIN s : s[t] # i
    BY <1>1 DEF Tidy, Loose, All, Tabs
  <2>3. TakesAt(Nat, u, s, i, at) /\ i \in Nat
    BY <1>1
  <2> HIDE DEF s
  <2>4. /\ Tile(u, at) \in TileRec /\ IsInjective(Tile(u, at).tabs)
        /\ \A t \in DOMAIN u : u[t] = i \/ \E x \in DOMAIN s : u[t] = s[x]
        /\ Tile(u, at).tabs = u
        /\ Tile(u, at).shown \in DOMAIN Tile(u, at).tabs
    BY <2>1, <2>2, <2>3, InsertedTab
  <2>5. Tabs(Tile(u, at)) \subseteq Tabs(w[target]) \cup {i}
    BY <2>4 DEF Tabs, s
  <2> QED
    BY <2>4, <2>5
<1> QED
  BY <1>1, ReplaceTile

(* A session becomes the last tab of a tile. *)
LEMMA InsertTidy ==
  ASSUME NEW w, NEW n \in Nat, Loose(w, n), NEW i \in 1 .. n, NEW target
  PROVE  Tidy(InsertTab(w, target, i), n)
<1> DEFINE clean == WithoutSession(w, i)
           u == Append(clean[target].tabs, i)
           at == Len(clean[target].tabs) + 1
           v == Replaced(clean, target, Tile(u, at))
<1>1. Tidy(clean, n) /\ i \notin All(clean)
  BY WithoutTidy
<1>2. InsertTab(w, target, i) = IF clean = <<>> THEN <<Tile(<<i>>, 1)>> ELSE v
  <2> HIDE DEF clean
  <2>1. v = [p \in DOMAIN clean |->
               IF p = target THEN Tile(Append(clean[p].tabs, i), Len(clean[p].tabs) + 1)
                             ELSE clean[p]]
    BY DEF Replaced
  <2> QED
    BY <2>1 DEF InsertTab, clean
<1> HIDE DEF clean
<1>3. ASSUME target \in DOMAIN clean
      PROVE  TakesAt(Nat, u, clean[target].tabs, i, at)
  <2> DEFINE s == clean[target].tabs
  <2>1. s \in Seq(Nat)
    <3>1. clean[target] \in TileRec
      BY <1>1, <1>3 DEF Tidy, Loose
    <3> QED
      BY <3>1 DEF TileRec
  <2> HIDE DEF s
  <2>2. /\ Append(s, i) \in Seq(Nat) /\ Len(Append(s, i)) = Len(s) + 1
        /\ Append(s, i)[Len(s) + 1] = i /\ \A p \in 1 .. Len(s) : Append(s, i)[p] = s[p]
    BY <2>1
  <2>3. \A p \in 1 .. Len(s) + 1 :
           p # Len(s) + 1 => p \in 1 .. Len(s) /\ Shifted(p, Len(s) + 1) = p
    BY <2>1 DEF Shifted
  <2>4. Len(s) + 1 \in 1 .. Len(s) + 1
    BY <2>1
  <2> QED
    BY <2>2, <2>3, <2>4 DEF s, TakesAt
<1> HIDE DEF u, at
<1>4. Tidy(v, n)
  BY <1>1, <1>3, TileTakes
<1> QED
  BY <1>2, <1>4, OneTile

(* A tab is moved from one tile to another. *)
LEMMA MoveTidy ==
  ASSUME NEW w, NEW n \in Nat, Tidy(w, n), NEW fromPane, NEW fromTab, NEW toPane,
         NEW toPos \in Nat \ {0}
  PROVE  Tidy(MoveTab(w, fromPane, fromTab, toPane, toPos), n)
<1>0. CASE fromPane \notin DOMAIN w \/ fromTab \notin DOMAIN w[fromPane].tabs
  BY <1>0 DEF MoveTab
<1> SUFFICES ASSUME fromPane \in DOMAIN w, fromTab \in DOMAIN w[fromPane].tabs
             PROVE  Tidy(MoveTab(w, fromPane, fromTab, toPane, toPos), n)
  BY <1>0
<1> DEFINE i == w[fromPane].tabs[fromTab]
           rest == RemoveAt(w[fromPane].tabs, fromTab)
           pre == [w EXCEPT ![fromPane].tabs = RemoveAt(@, fromTab)]
           clean == Settled(pre)
           at == Lesser(toPos, Len(clean[toPane].tabs) + 1)
           u == InsertAt(clean[toPane].tabs, at, i)
           v == Replaced(clean, toPane, Tile(u, at))
           G == [p \in DOMAIN w |-> p]
<1>1. w \in Seq(TileRec) /\ Len(w) \in Nat /\ DOMAIN w = 1 .. Len(w)
  BY DEF Tidy, Loose
<1>2. /\ w[fromPane] \in TileRec /\ w[fromPane].tabs \in Seq(Nat)
      /\ IsInjective(w[fromPane].tabs) /\ i \in 1 .. n
  <2>1. w[fromPane] \in TileRec
    BY <1>1
  <2> QED
    BY <2>1 DEF TileRec, Tidy, Loose, Tabs
<1>3. Thinned(rest, w[fromPane].tabs, i)
  BY <1>2, RemovedTab
<1>4. MoveTab(w, fromPane, fromTab, toPane, toPos) =
        IF clean = <<>> THEN <<Tile(<<i>>, 1)>> ELSE v
  <2> DEFINE place(p) == Lesser(toPos, Len(clean[p].tabs) + 1)
  <2>1. MoveTab(w, fromPane, fromTab, toPane, toPos) =
          IF clean = <<>> THEN <<Tile(<<i>>, 1)>>
          ELSE [p \in DOMAIN clean |->
                  IF p = toPane THEN Tile(InsertAt(clean[p].tabs, place(p), i), place(p))
                                ELSE clean[p]]
    BY DEF MoveTab
  <2> HIDE DEF clean, i
  <2>2. v = [p \in DOMAIN clean |->
               IF p = toPane THEN Tile(InsertAt(clean[p].tabs, place(p), i), place(p))
                             ELSE clean[p]]
    BY DEF Replaced
  <2> QED
    BY <2>1, <2>2
<1>5. /\ DOMAIN pre = DOMAIN w
      /\ pre[fromPane] = [w[fromPane] EXCEPT !.tabs = rest]
      /\ \A p \in DOMAIN w : p # fromPane => pre[p] = w[p]
      /\ pre = [p \in 1 .. Len(w) |-> pre[p]]
  BY <1>1
<1> HIDE DEF clean, pre, rest
<1>6. ASSUME NEW p \in DOMAIN w
      PROVE  /\ pre[p] \in TileRec /\ IsInjective(pre[p].tabs)
             /\ Tabs(pre[p]) \subseteq Tabs(w[p]) /\ i \notin Tabs(pre[p])
  <2>1. CASE p = fromPane
    <3>1. pre[p] \in TileRec /\ pre[p].tabs = rest
      BY <1>2, <1>3, <1>5, <2>1 DEF TileRec, Thinned
    <3> HIDE DEF i
    <3> QED
      BY <1>3, <2>1, <3>1 DEF Thinned, Tabs
  <2>2. CASE p # fromPane
    <3>1. pre[p] = w[p] /\ w[p] \in TileRec
      BY <1>1, <1>5, <2>2
    <3>2. i \in Tabs(w[fromPane])
      BY DEF Tabs
    <3>3. Tabs(w[p]) \cap Tabs(w[fromPane]) = {}
      BY <2>2 DEF Tidy, Loose
    <3> QED
      BY <3>1, <3>2, <3>3 DEF Tidy, Loose
  <2> QED
    BY <2>1, <2>2
<1>7. pre \in Seq(TileRec)
  BY <1>1, <1>5, <1>6
<1>8. G \in [DOMAIN pre -> DOMAIN w] /\ IsInjective(G) /\ \A p \in DOMAIN w : G[p] = p
  BY <1>5 DEF IsInjective
<1> HIDE DEF i, G
<1>9. Loose(w, n)
  BY DEF Tidy
<1>10. Loose(pre, n)
  BY <1>5, <1>6, <1>7, <1>8, <1>9, Rearranged
<1>11. i \notin All(pre)
  BY <1>5, <1>6 DEF All
<1>12. Tidy(clean, n) /\ i \notin All(clean)
  BY <1>10, <1>11, SettledTidy DEF clean
<1>13. ASSUME toPane \in DOMAIN clean
       PROVE  TakesAt(Nat, u, clean[toPane].tabs, i, at)
  <2> DEFINE s == clean[toPane].tabs
  <2>1. s \in Seq(Nat)
    <3>1. clean[toPane] \in TileRec
      BY <1>12, <1>13 DEF Tidy, Loose
    <3> QED
      BY <3>1 DEF TileRec
  <2> HIDE DEF s
  <2>2. Lesser(toPos, Len(s) + 1) \in 1 .. Len(s) + 1
    BY <2>1 DEF Lesser
  <2>3. i \in Nat
    BY <1>2
  <2> QED
    BY <2>1, <2>2, <2>3, Inserted DEF s
<1> HIDE DEF u, at
<1>14. Tidy(v, n)
  BY <1>2, <1>12, <1>13, TileTakes
<1> QED
  BY <1>2, <1>4, <1>14, OneTile

------------------------------------------------------------------------------
(* The sessions of a tiling, in the order in which they are shown *)

(* The leaves of a tiling: the tabs of its tiles, one tile after the other. *)
LEMMA LeavesOf ==
  ASSUME NEW w, NEW n \in Nat, Loose(w, n)
  PROVE  /\ Leaves(w) \in Seq(Nat)
         /\ Len(Leaves(w)) \in Nat /\ DOMAIN Leaves(w) = 1 .. Len(Leaves(w))
         /\ IsInjective(Leaves(w)) /\ \A k \in DOMAIN Leaves(w) : Leaves(w)[k] \in 1 .. n
         /\ \A i \in All(w) : \E k \in DOMAIN Leaves(w) : Leaves(w)[k] = i
<1> DEFINE s == [p \in DOMAIN w |-> w[p].tabs]
           f == Leaves(w)
<1>0. w \in Seq(TileRec) /\ Len(w) \in Nat /\ DOMAIN w = 1 .. Len(w)
  BY DEF Loose
<1>1. s \in Seq(Seq(Nat)) /\ Len(s) = Len(w) /\ \A p \in DOMAIN w : s[p] = w[p].tabs
  <2>1. ASSUME NEW p \in DOMAIN w PROVE w[p].tabs \in Seq(Nat)
    <3>1. w[p] \in TileRec
      BY <1>0
    <3> QED
      BY <3>1 DEF TileRec
  <2> QED
    BY <1>0, <2>1
<1>2. f = FlattenSeq(s)
  BY DEF Leaves
<1> HIDE DEF s, f
<1>3. PICK h : Spots(h, Len(w), s, f)
  BY <1>1, <1>2, FlatSpots
<1>4. f \in Seq(Nat)
  BY <1>3 DEF Spots
<1>5. Len(f) \in Nat /\ DOMAIN f = 1 .. Len(f)
  BY <1>4
<1>6. /\ h \in [1 .. Len(f) -> (1 .. Len(w)) \X Nat]
      /\ \A k \in 1 .. Len(f) : h[k][2] \in 1 .. Len(s[h[k][1]]) /\ f[k] = s[h[k][1]][h[k][2]]
      /\ \A j \in 1 .. Len(f) : \A k \in 1 .. Len(f) : j < k => Before(h[j], h[k])
      /\ \A p \in 1 .. Len(w) : \A t \in 1 .. Len(s[p]) : \E k \in 1 .. Len(f) : h[k] = <<p, t>>
  BY <1>3, Zenon DEF Spots
<1>7. ASSUME NEW k \in 1 .. Len(f)
      PROVE  /\ h[k] = <<h[k][1], h[k][2]>> /\ h[k][1] \in DOMAIN w /\ h[k][2] \in Nat
             /\ h[k][2] \in DOMAIN w[h[k][1]].tabs
             /\ f[k] = w[h[k][1]].tabs[h[k][2]]
  <2>1. h[k] \in (1 .. Len(w)) \X Nat
    BY <1>6
  <2>2. h[k] = <<h[k][1], h[k][2]>> /\ h[k][1] \in DOMAIN w /\ h[k][2] \in Nat
    BY <1>0, <2>1
  <2>3. s[h[k][1]] = w[h[k][1]].tabs /\ s[h[k][1]] \in Seq(Nat)
    BY <1>0, <1>1, <2>2
  <2>4. DOMAIN s[h[k][1]] = 1 .. Len(s[h[k][1]])
    BY <2>3
  <2> QED
    BY <1>6, <2>2, <2>3, <2>4
<1>8. ASSUME NEW j \in 1 .. Len(f), NEW k \in 1 .. Len(f), f[j] = f[k]
      PROVE  j = k
  <2>1. h[j][1] = h[k][1]
    <3>1. f[j] \in Tabs(w[h[j][1]]) /\ f[k] \in Tabs(w[h[k][1]])
      BY <1>7 DEF Tabs
    <3> QED
      BY <1>7, <1>8, <3>1 DEF Loose
  <2>2. h[j][2] = h[k][2]
    BY <1>7, <1>8, <2>1 DEF Loose, IsInjective
  <2>3. ~ Before(h[j], h[k]) /\ ~ Before(h[k], h[j])
    <3>1. h[j][1] \in Nat /\ h[j][2] \in Nat
      BY <1>0, <1>7
    <3> QED
      BY <2>1, <2>2, <3>1 DEF Before
  <2>4. ~ (j < k) /\ ~ (k < j)
    BY <1>6, <2>3
  <2> QED
    BY <1>5, <2>4
<1>9. IsInjective(f)
  BY <1>5, <1>8 DEF IsInjective
<1>10. \A k \in DOMAIN f : f[k] \in 1 .. n
  BY <1>5, <1>7 DEF Loose, Tabs
<1>11. ASSUME NEW i \in All(w) PROVE \E k \in DOMAIN f : f[k] = i
  <2>1. PICK p \in DOMAIN w : i \in Tabs(w[p])
    BY DEF All
  <2>2. PICK t \in DOMAIN w[p].tabs : i = w[p].tabs[t]
    BY <2>1 DEF Tabs
  <2>3. s[p] = w[p].tabs /\ s[p] \in Seq(Nat) /\ p \in 1 .. Len(w)
    BY <1>0, <1>1
  <2>4. t \in 1 .. Len(s[p])
    BY <2>3
  <2>5. PICK k \in 1 .. Len(f) : h[k] = <<p, t>>
    BY <1>6, <2>3, <2>4
  <2> QED
    BY <1>5, <1>7, <2>2, <2>5
<1> QED
  BY <1>4, <1>5, <1>9, <1>10, <1>11 DEF f

(* Each tile that is tidy has a leaf at least. *)
LEMMA LeavesEnough ==
  ASSUME NEW w, NEW n \in Nat, Tidy(w, n)
  PROVE  Len(w) <= Len(Leaves(w))
<1> DEFINE F == [p \in DOMAIN w |-> CHOOSE k \in DOMAIN Leaves(w) :
                                      Leaves(w)[k] = w[p].tabs[w[p].shown]]
<1>0. /\ w \in Seq(TileRec) /\ Len(w) \in Nat /\ DOMAIN w = 1 .. Len(w)
      /\ Loose(w, n)
  BY DEF Tidy, Loose
<1>1. /\ Len(Leaves(w)) \in Nat /\ DOMAIN Leaves(w) = 1 .. Len(Leaves(w))
      /\ \A i \in All(w) : \E k \in DOMAIN Leaves(w) : Leaves(w)[k] = i
  BY <1>0, LeavesOf
<1>2. ASSUME NEW p \in DOMAIN w
      PROVE  F[p] \in DOMAIN Leaves(w) /\ Leaves(w)[F[p]] \in Tabs(w[p])
  <2>1. w[p].tabs[w[p].shown] \in Tabs(w[p]) /\ w[p].tabs[w[p].shown] \in All(w)
    BY DEF Tidy, Tabs, All
  <2> QED
    BY <1>1, <2>1
<1>3. F \in [DOMAIN w -> DOMAIN Leaves(w)]
  BY <1>2
<1> HIDE DEF F
<1>4. IsInjective(F)
  BY <1>0, <1>2, <1>3 DEF IsInjective, Loose
<1>5. F \in Injection(1 .. Len(w), 1 .. Len(Leaves(w)))
  BY <1>0, <1>1, <1>3, <1>4 DEF Injection
<1>6. /\ IsFiniteSet(1 .. Len(Leaves(w)))
      /\ Cardinality(1 .. Len(Leaves(w))) = Len(Leaves(w)) /\ Cardinality(1 .. Len(w)) = Len(w)
  <2>1. \A m \in Nat : IsFiniteSet(1 .. m) /\ Cardinality(1 .. m) = m
    <3> TAKE m \in Nat
    <3>1. 1 \in Int /\ m \in Int
      OBVIOUS
    <3>2. IsFiniteSet(1 .. m) /\ Cardinality(1 .. m) = IF 1 > m THEN 0 ELSE m - 1 + 1
      BY <3>1, FS_Interval
    <3> QED
      BY <3>2
  <2> HIDE DEF F
  <2> QED
    BY <1>0, <1>1, <2>1
<1> QED
  BY <1>5, <1>6, FS_Injection

(* No session is tiled twice. *)
LEMMA LeavesCounted ==
  ASSUME NEW w, NEW n \in Nat, Loose(w, n)
  PROVE  Len(Leaves(w)) = Cardinality({Leaves(w)[k] : k \in DOMAIN Leaves(w)})
<1> DEFINE f == Leaves(w)
           S == {f[k] : k \in DOMAIN f}
           g == [k \in 1 .. Len(f) |-> f[k]]
<1>1. Len(f) \in Nat /\ DOMAIN f = 1 .. Len(f) /\ IsInjective(f)
  BY LeavesOf
<1> HIDE DEF f
<1>2. g \in Bijection(1 .. Len(f), S)
  BY <1>1 DEF Bijection, Injection, Surjection, IsInjective
<1>3. Cardinality(S) = Len(f)
  BY <1>1, <1>2, FS_CountingElements DEF ExistsBijection
<1> QED
  BY <1>3 DEF f

------------------------------------------------------------------------------
(* The order of the leaves, before and after a session is closed *)

\* In the tiling w, a tab of session x comes before one of session y.
Ahead(w, x, y) ==
  \E p \in DOMAIN w : \E t \in DOMAIN w[p].tabs :
    \E q \in DOMAIN w : \E u \in DOMAIN w[q].tabs :
      w[p].tabs[t] = x /\ w[q].tabs[u] = y /\ Before(<<p, t>>, <<q, u>>)

(* The order of the tabs is an order when no session is in two of them. *)
LEMMA AheadOnce ==
  ASSUME NEW w, NEW n \in Nat, Loose(w, n), NEW x, NEW y, Ahead(w, x, y)
  PROVE  ~ Ahead(w, y, x)
<1> SUFFICES ASSUME Ahead(w, y, x) PROVE FALSE
  OBVIOUS
<1>1. PICK p \in DOMAIN w : \E t \in DOMAIN w[p].tabs :
        \E q \in DOMAIN w : \E u \in DOMAIN w[q].tabs :
          w[p].tabs[t] = x /\ w[q].tabs[u] = y /\ Before(<<p, t>>, <<q, u>>)
  BY DEF Ahead
<1>2. PICK t \in DOMAIN w[p].tabs : \E q \in DOMAIN w : \E u \in DOMAIN w[q].tabs :
          w[p].tabs[t] = x /\ w[q].tabs[u] = y /\ Before(<<p, t>>, <<q, u>>)
  BY <1>1
<1>3. PICK q \in DOMAIN w : \E u \in DOMAIN w[q].tabs :
          w[p].tabs[t] = x /\ w[q].tabs[u] = y /\ Before(<<p, t>>, <<q, u>>)
  BY <1>2
<1>4. PICK u \in DOMAIN w[q].tabs :
          w[p].tabs[t] = x /\ w[q].tabs[u] = y /\ Before(<<p, t>>, <<q, u>>)
  BY <1>3
<1>5. PICK a \in DOMAIN w : \E b \in DOMAIN w[a].tabs :
        \E c \in DOMAIN w : \E d \in DOMAIN w[c].tabs :
          w[a].tabs[b] = y /\ w[c].tabs[d] = x /\ Before(<<a, b>>, <<c, d>>)
  BY DEF Ahead
<1>6. PICK b \in DOMAIN w[a].tabs : \E c \in DOMAIN w : \E d \in DOMAIN w[c].tabs :
          w[a].tabs[b] = y /\ w[c].tabs[d] = x /\ Before(<<a, b>>, <<c, d>>)
  BY <1>5
<1>7. PICK c \in DOMAIN w : \E d \in DOMAIN w[c].tabs :
          w[a].tabs[b] = y /\ w[c].tabs[d] = x /\ Before(<<a, b>>, <<c, d>>)
  BY <1>6
<1>8. PICK d \in DOMAIN w[c].tabs :
          w[a].tabs[b] = y /\ w[c].tabs[d] = x /\ Before(<<a, b>>, <<c, d>>)
  BY <1>7
<1>9. a = q /\ c = p
  <2>1. /\ x \in Tabs(w[p]) /\ x \in Tabs(w[c])
        /\ y \in Tabs(w[q]) /\ y \in Tabs(w[a])
    BY <1>4, <1>8 DEF Tabs
  <2> QED
    BY <2>1 DEF Loose
<1>10. b = u /\ d = t
  BY <1>4, <1>8, <1>9 DEF Loose, IsInjective
<1>11. p \in Nat /\ q \in Nat /\ t \in Nat /\ u \in Nat
  <2>1. w \in Seq(TileRec) /\ DOMAIN w = 1 .. Len(w)
    BY DEF Loose
  <2>2. p \in Nat /\ q \in Nat /\ w[p] \in TileRec /\ w[q] \in TileRec
    BY <2>1
  <2>3. w[p].tabs \in Seq(Nat) /\ w[q].tabs \in Seq(Nat)
    BY <2>2 DEF TileRec
  <2>4. DOMAIN w[p].tabs = 1 .. Len(w[p].tabs) /\ DOMAIN w[q].tabs = 1 .. Len(w[q].tabs)
    BY <2>3
  <2> QED
    BY <2>2, <2>4
<1>12. Before(<<p, t>>, <<q, u>>) /\ Before(<<q, u>>, <<p, t>>)
  BY <1>4, <1>8, <1>9, <1>10
<1> QED
  BY <1>11, <1>12 DEF Before

(* The leaves are the sessions of the tiling, in the order of their tabs. *)
LEMMA LeavesAhead ==
  ASSUME NEW w, NEW n \in Nat, Loose(w, n)
  PROVE  /\ \A k \in DOMAIN Leaves(w) : Leaves(w)[k] \in All(w)
         /\ \A j \in DOMAIN Leaves(w) : \A k \in DOMAIN Leaves(w) :
              j < k <=> Ahead(w, Leaves(w)[j], Leaves(w)[k])
<1> DEFINE s == [p \in DOMAIN w |-> w[p].tabs]
           f == Leaves(w)
<1>0. w \in Seq(TileRec) /\ Len(w) \in Nat /\ DOMAIN w = 1 .. Len(w)
  BY DEF Loose
<1>1. s \in Seq(Seq(Nat)) /\ Len(s) = Len(w) /\ \A p \in DOMAIN w : s[p] = w[p].tabs
  <2>1. ASSUME NEW p \in DOMAIN w PROVE w[p].tabs \in Seq(Nat)
    <3>1. w[p] \in TileRec
      BY <1>0
    <3> QED
      BY <3>1 DEF TileRec
  <2> QED
    BY <1>0, <2>1
<1>2. f = FlattenSeq(s)
  BY DEF Leaves
<1> HIDE DEF s, f
<1>3. PICK h : Spots(h, Len(w), s, f)
  BY <1>1, <1>2, FlatSpots
<1>4. f \in Seq(Nat)
  BY <1>3 DEF Spots
<1>5. Len(f) \in Nat /\ DOMAIN f = 1 .. Len(f)
  BY <1>4
<1>6. /\ h \in [1 .. Len(f) -> (1 .. Len(w)) \X Nat]
      /\ \A k \in 1 .. Len(f) : h[k][2] \in 1 .. Len(s[h[k][1]]) /\ f[k] = s[h[k][1]][h[k][2]]
      /\ \A j \in 1 .. Len(f) : \A k \in 1 .. Len(f) : j < k => Before(h[j], h[k])
  BY <1>3, Zenon DEF Spots
<1>7. ASSUME NEW k \in 1 .. Len(f)
      PROVE  /\ h[k] = <<h[k][1], h[k][2]>> /\ h[k][1] \in DOMAIN w
             /\ h[k][2] \in DOMAIN w[h[k][1]].tabs
             /\ f[k] = w[h[k][1]].tabs[h[k][2]]
  <2>1. h[k] \in (1 .. Len(w)) \X Nat
    BY <1>6
  <2>2. h[k] = <<h[k][1], h[k][2]>> /\ h[k][1] \in DOMAIN w /\ h[k][2] \in Nat
    BY <1>0, <2>1
  <2>3. s[h[k][1]] = w[h[k][1]].tabs /\ s[h[k][1]] \in Seq(Nat)
    BY <1>0, <1>1, <2>2
  <2>4. DOMAIN s[h[k][1]] = 1 .. Len(s[h[k][1]])
    BY <2>3
  <2> QED
    BY <1>6, <2>2, <2>3, <2>4
<1>8. \A k \in 1 .. Len(f) : f[k] \in All(w)
  BY <1>7 DEF All, Tabs
<1>9. ASSUME NEW j \in 1 .. Len(f), NEW k \in 1 .. Len(f), j < k
      PROVE  Ahead(w, f[j], f[k])
  <2>1. Before(<<h[j][1], h[j][2]>>, <<h[k][1], h[k][2]>>)
    <3>1. Before(h[j], h[k])
      BY <1>6, <1>9
    <3> QED
      BY <1>7, <3>1
  <2> QED
    BY <1>7, <2>1 DEF Ahead
<1>10. ASSUME NEW j \in 1 .. Len(f), NEW k \in 1 .. Len(f), Ahead(w, f[j], f[k])
       PROVE  j < k
  <2>1. ~ Ahead(w, f[k], f[j])
    BY <1>10, AheadOnce
  <2>2. j # k
    BY <1>10, <2>1
  <2>3. ~ (k < j)
    BY <1>9, <2>1
  <2> QED
    BY <2>2, <2>3
<1> QED
  BY <1>5, <1>8, <1>9, <1>10 DEF f

(* The tiles that stay when those without a tab are pruned, in their order. *)
LEMMA SettledFrom ==
  ASSUME NEW w, NEW n \in Nat, Loose(w, n)
  PROVE  \E g \in [DOMAIN Settled(w) -> DOMAIN w] :
           /\ \A k \in DOMAIN Settled(w) : Settled(w)[k].tabs = w[g[k]].tabs
           /\ \A j \in DOMAIN Settled(w) : \A k \in DOMAIN Settled(w) : j < k => g[j] < g[k]
           /\ \A p \in DOMAIN w : w[p].tabs # <<>> => \E k \in DOMAIN Settled(w) : g[k] = p
<1> DEFINE pos == [p \in DOMAIN w |-> p]
           S == {p \in DOMAIN w : w[p].tabs # <<>>}
           kept == Kept(pos, S)
           v == [k \in DOMAIN kept |-> Clamped(w[kept[k]])]
<1>0. w \in Seq(TileRec) /\ Len(w) \in Nat /\ DOMAIN w = 1 .. Len(w)
  BY DEF Loose
<1>1. Len(pos) = Len(w) /\ \A p \in DOMAIN w : pos[p] = p
  BY <1>0
<1>2. PICK g : Places(g, Len(w), pos, S, kept)
  BY <1>0, <1>1, KeptPlaces
<1>3. /\ kept \in Seq({pos[i] : i \in 1 .. Len(w)})
      /\ g \in [1 .. Len(kept) -> 1 .. Len(w)]
      /\ \A i \in 1 .. Len(kept) : pos[g[i]] \in S /\ kept[i] = pos[g[i]]
      /\ \A i \in 1 .. Len(kept) : \A j \in 1 .. Len(kept) : i < j => g[i] < g[j]
      /\ \A m \in 1 .. Len(w) : pos[m] \in S => \E i \in 1 .. Len(kept) : g[i] = m
  BY <1>1, <1>2, Zenon DEF Places
<1>4. /\ DOMAIN kept = 1 .. Len(kept)
      /\ \A i \in 1 .. Len(kept) : kept[i] = g[i] /\ g[i] \in DOMAIN w
  <2> HIDE DEF kept, S, pos
  <2>1. DOMAIN kept = 1 .. Len(kept)
    BY <1>3
  <2> QED
    BY <1>0, <1>1, <1>3, <2>1
<1>5. Settled(w) = v
  BY DEF Settled
<1> HIDE DEF kept
<1>6. ASSUME NEW k \in 1 .. Len(kept) PROVE v[k].tabs = w[g[k]].tabs
  <2>1. w[g[k]] \in TileRec /\ v[k] = Clamped(w[g[k]])
    BY <1>0, <1>4
  <2> HIDE DEF v
  <2> QED
    BY <2>1 DEF Clamped, TileRec
<1>7. DOMAIN v = 1 .. Len(kept)
  BY <1>4
<1> HIDE DEF v
<1>8. \A p \in DOMAIN w : w[p].tabs # <<>> => \E k \in 1 .. Len(kept) : g[k] = p
  BY <1>0, <1>1, <1>3
<1> HIDE DEF S, pos
<1>9. g \in [DOMAIN v -> DOMAIN w]
  BY <1>0, <1>3, <1>7
<1>10. /\ \A k \in DOMAIN v : v[k].tabs = w[g[k]].tabs
       /\ \A p \in DOMAIN w : w[p].tabs # <<>> => \E k \in DOMAIN v : g[k] = p
  BY <1>6, <1>7, <1>8
<1>11. \A j \in DOMAIN v : \A k \in DOMAIN v : j < k => g[j] < g[k]
  BY <1>3, <1>7
<1> HIDE DEF kept
<1> QED
  BY <1>5, <1>9, <1>10, <1>11, Zenon

(* Settling a tiling takes no session out and keeps the order. *)
LEMMA SettledAhead ==
  ASSUME NEW w, NEW n \in Nat, Loose(w, n)
  PROVE  /\ All(Settled(w)) = All(w)
         /\ \A x : \A y : Ahead(Settled(w), x, y) => Ahead(w, x, y)
<1> DEFINE v == Settled(w)
<1>1. PICK g \in [DOMAIN v -> DOMAIN w] :
           /\ \A k \in DOMAIN v : v[k].tabs = w[g[k]].tabs
           /\ \A j \in DOMAIN v : \A k \in DOMAIN v : j < k => g[j] < g[k]
           /\ \A p \in DOMAIN w : w[p].tabs # <<>> => \E k \in DOMAIN v : g[k] = p
  BY SettledFrom
<1>2. \A k \in DOMAIN v : k \in Nat
  <2>1. Tidy(v, n)
    BY SettledTidy
  <2>2. DOMAIN v = 1 .. Len(v)
    BY <2>1 DEF Tidy, Loose
  <2> QED
    BY <2>2
<1> HIDE DEF v
<1>3. All(v) \subseteq All(w)
  BY <1>1 DEF All, Tabs
<1>4. ASSUME NEW x \in All(w) PROVE x \in All(v)
  <2>1. PICK p \in DOMAIN w : x \in Tabs(w[p])
    BY DEF All
  <2>2. w[p].tabs # <<>>
    BY <2>1 DEF Tabs
  <2>3. PICK k \in DOMAIN v : g[k] = p
    BY <1>1, <2>2
  <2>4. x \in Tabs(v[k])
    BY <1>1, <2>1, <2>3 DEF Tabs
  <2> QED
    BY <2>4 DEF All
<1>5. ASSUME NEW x, NEW y, Ahead(v, x, y) PROVE Ahead(w, x, y)
  <2>1. PICK p \in DOMAIN v : \E t \in DOMAIN v[p].tabs :
          \E q \in DOMAIN v : \E u \in DOMAIN v[q].tabs :
            v[p].tabs[t] = x /\ v[q].tabs[u] = y /\ Before(<<p, t>>, <<q, u>>)
    BY <1>5 DEF Ahead
  <2>2. PICK t \in DOMAIN v[p].tabs : \E q \in DOMAIN v : \E u \in DOMAIN v[q].tabs :
            v[p].tabs[t] = x /\ v[q].tabs[u] = y /\ Before(<<p, t>>, <<q, u>>)
    BY <2>1
  <2>3. PICK q \in DOMAIN v : \E u \in DOMAIN v[q].tabs :
            v[p].tabs[t] = x /\ v[q].tabs[u] = y /\ Before(<<p, t>>, <<q, u>>)
    BY <2>2
  <2>4. PICK u \in DOMAIN v[q].tabs :
            v[p].tabs[t] = x /\ v[q].tabs[u] = y /\ Before(<<p, t>>, <<q, u>>)
    BY <2>3
  <2>5. Before(<<g[p], t>>, <<g[q], u>>)
    BY <1>1, <1>2, <2>4 DEF Before
  <2>6. /\ g[p] \in DOMAIN w /\ t \in DOMAIN w[g[p]].tabs /\ w[g[p]].tabs[t] = x
        /\ g[q] \in DOMAIN w /\ u \in DOMAIN w[g[q]].tabs /\ w[g[q]].tabs[u] = y
    BY <1>1, <2>4
  <2> QED
    BY <2>5, <2>6 DEF Ahead
<1> QED
  BY <1>3, <1>4, <1>5 DEF v

(* What is kept of a tile's tabs, and in which order. *)
LEMMA KeptOrder ==
  ASSUME NEW s \in Seq(Nat), NEW i
  PROVE  \E g \in [DOMAIN Kept(s, Int \ {i}) -> DOMAIN s] :
           /\ \A k \in DOMAIN g : Kept(s, Int \ {i})[k] = s[g[k]] /\ s[g[k]] # i /\ k \in Nat
           /\ \A j \in DOMAIN g : \A k \in DOMAIN g : j < k => g[j] < g[k]
           /\ \A u \in DOMAIN s : s[u] # i => \E k \in DOMAIN g : g[k] = u
<1> DEFINE S == Int \ {i}
           kept == Kept(s, S)
<1>0. Len(s) \in Nat /\ DOMAIN s = 1 .. Len(s) /\ \A u \in DOMAIN s : s[u] \in Nat
  OBVIOUS
<1>1. PICK g : Places(g, Len(s), s, S, kept)
  BY <1>0, KeptPlaces
<1>2. /\ kept \in Seq({s[k] : k \in 1 .. Len(s)})
      /\ g \in [1 .. Len(kept) -> 1 .. Len(s)]
      /\ \A k \in 1 .. Len(kept) : s[g[k]] \in S /\ kept[k] = s[g[k]]
      /\ \A k \in 1 .. Len(kept) : \A j \in 1 .. Len(kept) : k < j => g[k] < g[j]
      /\ \A u \in 1 .. Len(s) : s[u] \in S => \E k \in 1 .. Len(kept) : g[k] = u
  BY <1>1, Zenon DEF Places
<1> HIDE DEF kept
<1>3. DOMAIN kept = 1 .. Len(kept) /\ DOMAIN g = 1 .. Len(kept)
  BY <1>2
<1>4. g \in [DOMAIN kept -> DOMAIN s]
  BY <1>0, <1>2, <1>3
<1>5. \A u \in DOMAIN s : s[u] # i => \E k \in DOMAIN g : g[k] = u
  BY <1>0, <1>2, <1>3
<1>6. \A k \in DOMAIN g : kept[k] = s[g[k]] /\ s[g[k]] # i /\ k \in Nat
  BY <1>2, <1>3
<1>7. \A j \in DOMAIN g : \A k \in DOMAIN g : j < k => g[j] < g[k]
  BY <1>2, <1>3
<1> QED
  BY <1>4, <1>5, <1>6, <1>7 DEF kept

(* Taking a session out of a tiling takes no other out and keeps the order. *)
LEMMA WithoutAhead ==
  ASSUME NEW w, NEW n \in Nat, Loose(w, n), NEW i
  PROVE  /\ All(WithoutSession(w, i)) = All(w) \ {i}
         /\ \A x : \A y : Ahead(WithoutSession(w, i), x, y) => Ahead(w, x, y)
<1> DEFINE v == [p \in DOMAIN w |-> [w[p] EXCEPT !.tabs = Kept(@, Int \ {i})]]
           G == [p \in DOMAIN w |-> p]
<1>0. w \in Seq(TileRec) /\ Len(w) \in Nat /\ DOMAIN w = 1 .. Len(w)
  BY DEF Loose
<1>1. ASSUME NEW p \in DOMAIN w
      PROVE  /\ w[p] \in TileRec /\ w[p].tabs \in Seq(Nat) /\ IsInjective(w[p].tabs)
             /\ v[p].tabs = Kept(w[p].tabs, Int \ {i})
             /\ v[p] \in TileRec /\ IsInjective(v[p].tabs)
  <2> DEFINE s == w[p].tabs
             kept == Kept(s, Int \ {i})
  <2>1. w[p] \in TileRec /\ s \in Seq(Nat) /\ IsInjective(s)
    <3>1. w[p] \in TileRec
      BY <1>0
    <3>2. s \in Seq(Nat)
      BY <3>1 DEF TileRec
    <3> QED
      BY <3>1, <3>2 DEF Loose
  <2>2. v[p] = [w[p] EXCEPT !.tabs = kept]
    OBVIOUS
  <2> HIDE DEF v
  <2>3. Thinned(kept, s, i)
    <3> HIDE DEF s
    <3> QED
      BY <2>1, KeptTabs
  <2> HIDE DEF kept
  <2>4. v[p] \in TileRec /\ v[p].tabs = kept
    BY <2>1, <2>2, <2>3 DEF TileRec, Thinned
  <2> QED
    BY <2>1, <2>3, <2>4 DEF Thinned, kept
<1>2. v \in Seq(TileRec) /\ DOMAIN v = DOMAIN w
  <2>1. v = [p \in 1 .. Len(w) |-> v[p]]
    BY <1>0
  <2> HIDE DEF v
  <2> QED
    BY <1>0, <1>1, <2>1
<1>3. WithoutSession(w, i) = Settled(v)
  BY DEF WithoutSession
<1> HIDE DEF v
<1> DEFINE From(p, g) ==
             /\ g \in [DOMAIN v[p].tabs -> DOMAIN w[p].tabs]
             /\ \A k \in DOMAIN v[p].tabs : v[p].tabs[k] = w[p].tabs[g[k]]
                                            /\ w[p].tabs[g[k]] # i /\ k \in Nat
             /\ \A j \in DOMAIN v[p].tabs : \A k \in DOMAIN v[p].tabs : j < k => g[j] < g[k]
             /\ \A u \in DOMAIN w[p].tabs : w[p].tabs[u] # i => \E k \in DOMAIN v[p].tabs : g[k] = u
<1>4. ASSUME NEW p \in DOMAIN w PROVE \E g : From(p, g)
  <2> DEFINE s == w[p].tabs
  <2>1. s \in Seq(Nat) /\ v[p].tabs = Kept(s, Int \ {i})
    BY <1>1
  <2> HIDE DEF s
  <2>2. PICK g \in [DOMAIN Kept(s, Int \ {i}) -> DOMAIN s] :
           /\ \A k \in DOMAIN g : Kept(s, Int \ {i})[k] = s[g[k]] /\ s[g[k]] # i /\ k \in Nat
           /\ \A j \in DOMAIN g : \A k \in DOMAIN g : j < k => g[j] < g[k]
           /\ \A u \in DOMAIN s : s[u] # i => \E k \in DOMAIN g : g[k] = u
    BY <2>1, KeptOrder
  <2>3. DOMAIN g = DOMAIN v[p].tabs
    BY <2>1
  <2>4. From(p, g)
    BY <2>1, <2>2, <2>3 DEF s
  <2> QED
    BY <2>4
<1> HIDE DEF From
<1>5. G \in [DOMAIN v -> DOMAIN w] /\ IsInjective(G) /\ \A p \in DOMAIN v : G[p] = p
  BY <1>2 DEF IsInjective
<1> HIDE DEF G
<1>6. Loose(v, n)
  <2>1. ASSUME NEW p \in DOMAIN v PROVE Tabs(v[p]) \subseteq Tabs(w[p])
    <3>1. PICK g : From(p, g)
      BY <1>2, <1>4
    <3> QED
      BY <3>1 DEF From, Tabs
  <2> QED
    BY <1>1, <1>2, <1>5, <2>1, Rearranged
<1>7. All(v) = All(w) \ {i}
  <2>1. ASSUME NEW p \in DOMAIN w PROVE Tabs(v[p]) = Tabs(w[p]) \ {i}
    <3>1. PICK g : From(p, g)
      BY <1>4
    <3>2. Tabs(v[p]) \subseteq Tabs(w[p]) \ {i}
      BY <3>1 DEF From, Tabs
    <3>3. ASSUME NEW x \in Tabs(w[p]), x # i PROVE x \in Tabs(v[p])
      <4>1. PICK u \in DOMAIN w[p].tabs : x = w[p].tabs[u]
        BY DEF Tabs
      <4>2. PICK k \in DOMAIN v[p].tabs : g[k] = u
        BY <3>1, <3>3, <4>1 DEF From
      <4> QED
        BY <3>1, <4>1, <4>2 DEF From, Tabs
    <3> QED
      BY <3>2, <3>3
  <2> QED
    BY <1>2, <2>1 DEF All
<1>8. ASSUME NEW x, NEW y, Ahead(v, x, y) PROVE Ahead(w, x, y)
  <2>1. PICK p \in DOMAIN v : \E t \in DOMAIN v[p].tabs :
          \E q \in DOMAIN v : \E u \in DOMAIN v[q].tabs :
            v[p].tabs[t] = x /\ v[q].tabs[u] = y /\ Before(<<p, t>>, <<q, u>>)
    BY <1>8 DEF Ahead
  <2>2. PICK t \in DOMAIN v[p].tabs : \E q \in DOMAIN v : \E u \in DOMAIN v[q].tabs :
            v[p].tabs[t] = x /\ v[q].tabs[u] = y /\ Before(<<p, t>>, <<q, u>>)
    BY <2>1
  <2>3. PICK q \in DOMAIN v : \E u \in DOMAIN v[q].tabs :
            v[p].tabs[t] = x /\ v[q].tabs[u] = y /\ Before(<<p, t>>, <<q, u>>)
    BY <2>2
  <2>4. PICK u \in DOMAIN v[q].tabs :
            v[p].tabs[t] = x /\ v[q].tabs[u] = y /\ Before(<<p, t>>, <<q, u>>)
    BY <2>3
  <2>5. PICK g : From(p, g)
    BY <1>2, <1>4
  <2>6. CASE p = q
    <3>1. t < u
      <4>1. p \in Nat
        BY <1>0, <1>2
      <4> QED
        BY <2>4, <2>6, <4>1 DEF Before
    <3>2. g[t] < g[u] /\ g[t] \in DOMAIN w[p].tabs /\ g[u] \in DOMAIN w[p].tabs
          /\ w[p].tabs[g[t]] = x /\ w[p].tabs[g[u]] = y
      BY <2>4, <2>5, <2>6, <3>1 DEF From
    <3>3. Before(<<p, g[t]>>, <<p, g[u]>>)
      BY <3>2 DEF Before
    <3> QED
      BY <1>2, <3>2, <3>3 DEF Ahead
  <2>7. CASE p # q
    <3>1. PICK h : From(q, h)
      BY <1>2, <1>4
    <3>2. p < q
      BY <2>4, <2>7 DEF Before
    <3>3. g[t] \in DOMAIN w[p].tabs /\ h[u] \in DOMAIN w[q].tabs
          /\ w[p].tabs[g[t]] = x /\ w[q].tabs[h[u]] = y
      BY <2>4, <2>5, <3>1 DEF From
    <3>4. Before(<<p, g[t]>>, <<q, h[u]>>)
      BY <3>2 DEF Before
    <3> QED
      BY <1>2, <3>3, <3>4 DEF Ahead
  <2> QED
    BY <2>6, <2>7
<1>9. /\ All(Settled(v)) = All(v)
      /\ \A x : \A y : Ahead(Settled(v), x, y) => Ahead(v, x, y)
  BY <1>6, SettledAhead
<1> QED
  BY <1>3, <1>7, <1>8, <1>9

(* A session that leaves the list: the others keep their tabs, in their order, *)
(* under the indexes they have now.                                        *)
LEMMA RemoveAhead ==
  ASSUME NEW w, NEW n \in Nat, Loose(w, n), NEW i \in 1 .. n
  PROVE  /\ \A x \in All(RemoveSession(w, i)) : Up(x, i) \in All(w)
         /\ \A y \in All(w) : y # i => \E x \in All(RemoveSession(w, i)) : y = Up(x, i)
         /\ \A x : \A y : Ahead(RemoveSession(w, i), x, y) => Ahead(w, Up(x, i), Up(y, i))
<1> DEFINE c == WithoutSession(w, i)
           down(x) == IF x > i THEN x - 1 ELSE x
           v == [p \in DOMAIN c |-> [c[p] EXCEPT !.tabs = [t \in DOMAIN @ |-> down(@[t])]]]
<1>1. Tidy(c, n) /\ i \notin All(c)
  BY WithoutTidy
<1>2. RemoveSession(w, i) = v
  BY DEF RemoveSession
<1>3. /\ All(c) = All(w) \ {i}
      /\ \A x : \A y : Ahead(c, x, y) => Ahead(w, x, y)
  BY WithoutAhead
<1> HIDE DEF c
<1>4. c \in Seq(TileRec) /\ Len(c) \in Nat /\ DOMAIN c = 1 .. Len(c)
  BY <1>1 DEF Tidy, Loose
<1>5. ASSUME NEW p \in DOMAIN c
      PROVE  /\ DOMAIN v[p].tabs = DOMAIN c[p].tabs
             /\ \A t \in DOMAIN c[p].tabs : /\ v[p].tabs[t] = down(c[p].tabs[t])
                                            /\ c[p].tabs[t] \in (1 .. n) \ {i}
  <2>1. c[p] \in TileRec
    BY <1>4
  <2>2. v[p].tabs = [t \in DOMAIN c[p].tabs |-> down(c[p].tabs[t])]
    BY <2>1 DEF TileRec
  <2>3. \A t \in DOMAIN c[p].tabs : c[p].tabs[t] \in (1 .. n) \ {i}
    BY <1>1 DEF Tidy, Loose, Tabs, All
  <2> HIDE DEF v, down
  <2> QED
    BY <2>2, <2>3
<1>6. DOMAIN v = DOMAIN c
  OBVIOUS
<1>7. \A x \in (1 .. n) \ {i} : Up(down(x), i) = x
  BY DEF Up
<1> HIDE DEF v, down
<1>8. ASSUME NEW p \in DOMAIN v, NEW t \in DOMAIN v[p].tabs
      PROVE  /\ p \in DOMAIN c /\ t \in DOMAIN c[p].tabs
             /\ Up(v[p].tabs[t], i) = c[p].tabs[t]
  BY <1>5, <1>6, <1>7
<1>9. ASSUME NEW x \in All(v) PROVE Up(x, i) \in All(w)
  <2>1. PICK p \in DOMAIN v : x \in Tabs(v[p])
    BY DEF All
  <2>2. PICK t \in DOMAIN v[p].tabs : x = v[p].tabs[t]
    BY <2>1 DEF Tabs
  <2>3. Up(x, i) \in All(c)
    BY <1>8, <2>2 DEF All, Tabs
  <2> QED
    BY <1>3, <2>3
<1>10. ASSUME NEW y \in All(w), y # i PROVE \E x \in All(v) : y = Up(x, i)
  <2>1. y \in All(c)
    BY <1>3, <1>10
  <2>2. PICK p \in DOMAIN c : y \in Tabs(c[p])
    BY <2>1 DEF All
  <2>3. PICK t \in DOMAIN c[p].tabs : y = c[p].tabs[t]
    BY <2>2 DEF Tabs
  <2>4. p \in DOMAIN v /\ t \in DOMAIN v[p].tabs
    BY <1>5, <1>6
  <2>5. v[p].tabs[t] \in All(v)
    BY <2>4 DEF All, Tabs
  <2>6. y = Up(v[p].tabs[t], i)
    BY <1>8, <2>3, <2>4
  <2> QED
    BY <2>5, <2>6
<1>11. ASSUME NEW x, NEW y, Ahead(v, x, y) PROVE Ahead(c, Up(x, i), Up(y, i))
  <2>1. PICK p \in DOMAIN v : \E t \in DOMAIN v[p].tabs :
          \E q \in DOMAIN v : \E u \in DOMAIN v[q].tabs :
            v[p].tabs[t] = x /\ v[q].tabs[u] = y /\ Before(<<p, t>>, <<q, u>>)
    BY <1>11 DEF Ahead
  <2>2. PICK t \in DOMAIN v[p].tabs : \E q \in DOMAIN v : \E u \in DOMAIN v[q].tabs :
            v[p].tabs[t] = x /\ v[q].tabs[u] = y /\ Before(<<p, t>>, <<q, u>>)
    BY <2>1
  <2>3. PICK q \in DOMAIN v : \E u \in DOMAIN v[q].tabs :
            v[p].tabs[t] = x /\ v[q].tabs[u] = y /\ Before(<<p, t>>, <<q, u>>)
    BY <2>2
  <2>4. PICK u \in DOMAIN v[q].tabs :
            v[p].tabs[t] = x /\ v[q].tabs[u] = y /\ Before(<<p, t>>, <<q, u>>)
    BY <2>3
  <2>5. /\ p \in DOMAIN c /\ t \in DOMAIN c[p].tabs /\ c[p].tabs[t] = Up(x, i)
        /\ q \in DOMAIN c /\ u \in DOMAIN c[q].tabs /\ c[q].tabs[u] = Up(y, i)
    BY <1>8, <2>4
  <2> QED
    BY <2>4, <2>5 DEF Ahead
<1> QED
  BY <1>2, <1>3, <1>9, <1>10, <1>11

------------------------------------------------------------------------------
(* The session list and the panes *)

Session == [id : Nat, remote : BOOLEAN, state : {"Connecting", "Connected", "Ended"}]
ListInv == sessions \in Seq(Session) /\ opened \in Nat

Serving == client # 0 \/ \E a \in attempts : a.live

SftpInv ==
  /\ ClientIsOfItsSession
  /\ \A a \in attempts : a = [of |-> a.of, live |-> a.live] /\ a.live \in BOOLEAN
  /\ \A a \in attempts : a.live => /\ client = 0
                                   /\ a.of # 0
                                   /\ attached \in DOMAIN sessions
                                   /\ a.of = Transport(sessions, attached)
  /\ Serving => /\ sftpPane
                /\ attached = active
                /\ tab.kind \in {"Sftp", "NewTab", "Vaults"}

FollowInv == ForwardsFollowFocus /\ (nav => forwardPane)

(* What is served stays right when the panes are settled, provided the session *)
(* at the attached index is still the same one. *)
LEMMA SettledSftp ==
  ASSUME SftpInv, ReconcileSftp, sftpPane => sftpPane',
         Serving /\ tab'.kind = "Sftp" /\ active' = attached
                 /\ Connected(sessions', active')
           => Transport(sessions', active') = Transport(sessions, attached)
  PROVE  SftpInv'
<1> DEFINE target == IF ~overlay' /\ tab'.kind = "Sftp" /\ Connected(sessions', active')
                     THEN active' ELSE 0
<1>1. CASE ~sftpPane' \/ attached = target
  <2>1. UNCHANGED <<attached, client, attempts>>
    BY <1>1 DEF ReconcileSftp
  <2>2. CASE ~Serving
    BY <2>1, <2>2 DEF SftpInv, Serving, ClientIsOfItsSession
  <2>3. CASE Serving
    <3>1. attached \in DOMAIN sessions /\ Transport(sessions, attached) # 0
      BY <2>3 DEF SftpInv, Serving, ClientIsOfItsSession
    <3>2. attached # 0
      BY <3>1 DEF Transport, Connected
    <3>3. attached = target /\ target # 0
      BY <1>1, <2>3, <3>2 DEF SftpInv
    <3>4. tab'.kind = "Sftp" /\ Connected(sessions', active') /\ active' = attached
      BY <3>3
    <3>5. Transport(sessions', active') = Transport(sessions, attached)
      BY <2>3, <3>4
    <3>6. attached' \in DOMAIN sessions'
      BY <2>1, <3>4 DEF Connected
    <3> QED
      BY <2>1, <2>3, <3>4, <3>5, <3>6 DEF SftpInv, Serving, ClientIsOfItsSession
  <2> QED
    BY <2>2, <2>3
<1>2. CASE ~(~sftpPane' \/ attached = target)
  <2> DEFINE other == Transport(sessions', target)
  <2>1. /\ attached' = target
        /\ client' = 0
        /\ attempts' = {[of |-> a.of, live |-> FALSE] : a \in attempts}
                       \cup (IF other = 0 THEN {}
                             ELSE {[of |-> other, live |-> TRUE]})
    BY <1>2 DEF ReconcileSftp
  <2>2. ASSUME NEW b \in attempts'
        PROVE  /\ b = [of |-> b.of, live |-> b.live] /\ b.live \in BOOLEAN
               /\ b.live => other # 0 /\ b.of = other
    <3>1. CASE \E a \in attempts : b = [of |-> a.of, live |-> FALSE]
      BY <3>1
    <3>2. CASE other # 0 /\ b = [of |-> other, live |-> TRUE]
      BY <3>2
    <3> QED
      BY <2>1, <3>1, <3>2
  <2>3. other # 0 => /\ target \in DOMAIN sessions' /\ target = active'
                     /\ tab'.kind = "Sftp"
    BY DEF Transport, Connected
  <2> HIDE DEF target, other
  <2>4. ClientIsOfItsSession'
    BY <2>1 DEF ClientIsOfItsSession
  <2>5. Serving' => other # 0
    BY <2>1, <2>2 DEF Serving
  <2>6. other = Transport(sessions', attached')
    BY <2>1 DEF other
  <2> QED
    BY <1>2, <2>1, <2>2, <2>3, <2>4, <2>5, <2>6 DEF SftpInv
<1> QED
  BY <1>1, <1>2

(* Removing one session leaves those before it where they are. *)
LEMMA RemovalBefore ==
  ASSUME ListInv, NEW i \in DOMAIN sessions
  PROVE  /\ RemoveAt(sessions, i) \in Seq(Session)
         /\ \A k \in 1 .. i - 1 : /\ k \in DOMAIN RemoveAt(sessions, i)
                                  /\ RemoveAt(sessions, i)[k] = sessions[k]
<1>1. i \in 1 .. Len(sessions) /\ Len(sessions) \in Nat /\ sessions \in Seq(Session)
  BY DEF ListInv
<1>2. \A k \in 1 .. i - 1 : k \in 1 .. Len(sessions) - 1 /\ Up(k, i) = k
  BY <1>1 DEF Up
<1>3. /\ RemoveAt(sessions, i) \in Seq(Session)
      /\ DOMAIN RemoveAt(sessions, i) = 1 .. Len(sessions) - 1
      /\ \A k \in 1 .. Len(sessions) - 1 : RemoveAt(sessions, i)[k] = sessions[Up(k, i)]
  BY <1>1, RemovedAt
<1> QED
  BY <1>2, <1>3

(* A session added at the end leaves the list as the invariant wants it.   *)
LEMMA PushKeepsList ==
  ASSUME ListInv, NEW remote \in BOOLEAN, Push(remote)
  PROVE  ListInv'
BY DEF ListInv, Push, Session

(* A step that settles the panes after a handler that shows another surface. *)
LEMMA ShowsOther ==
  ASSUME SftpInv, ReconcileSftp, sftpPane => sftpPane', tab'.kind # "Sftp"
  PROVE  SftpInv'
BY SettledSftp

(* A step that settles the panes over an unchanged list. *)
LEMMA SameList ==
  ASSUME SftpInv, ReconcileSftp, sftpPane => sftpPane', sessions' = sessions
  PROVE  SftpInv'
BY SettledSftp DEF Transport, Connected

(* A step that touches nothing the SFTP pane depends on. *)
LEMMA SameSftp ==
  ASSUME SftpInv, UNCHANGED <<attached, client, attempts, sftpPane, sessions>>,
         Serving => /\ active' = active
                    /\ tab'.kind \in {"Sftp", "NewTab", "Vaults"}
  PROVE  SftpInv'
BY DEF SftpInv, Serving, ClientIsOfItsSession, Transport, Connected

(* Closing one session keeps the list and what the SFTP pane serves.       *)
LEMMA CloseAtKeepsSftp ==
  ASSUME ListInv, SftpInv, NEW i, CloseAt(i)
  PROVE  ListInv' /\ SftpInv'
<1>1. CASE i \notin DOMAIN sessions
  BY <1>1, SameSftp DEF CloseAt, ListInv, LeavesPanes, panes, SftpInv
<1>2. CASE i \in DOMAIN sessions
  <2>1. /\ sessions' = RemoveAt(sessions, i) /\ opened' = opened
        /\ ReconcileSftp /\ UNCHANGED sftpPane
    BY <1>2 DEF CloseAt, Reconcile
  <2>2. ListInv'
    BY <1>2, <2>1, RemovalBefore DEF ListInv
  <2>3. ASSUME Serving, tab'.kind = "Sftp", active' = attached,
               Connected(sessions', active')
        PROVE  Transport(sessions', active') = Transport(sessions, attached)
    <3>1. active = attached /\ attached \in DOMAIN sessions /\ attached # 0
      BY <2>3 DEF SftpInv, Serving, ClientIsOfItsSession, Connected
    <3>2. attached \in Nat /\ i \in Nat
      BY <1>2, <3>1 DEF ListInv
    <3>3. active' = IF active = i THEN 0 ELSE IF active > i THEN active - 1 ELSE active
      <4>1. tab.kind # "Workspace"
        BY <2>3 DEF SftpInv
      <4>2. TabAfterClose(tab, i).kind # "Workspace"
        BY <4>1 DEF TabAfterClose, Surface, SessionTab
      <4> QED
        BY <1>2, <4>2 DEF CloseAt
    <3>4. attached \in 1 .. i - 1
      BY <2>3, <3>1, <3>2, <3>3 DEF ListInv
    <3> QED
      BY <1>2, <2>1, <2>3, <3>4, RemovalBefore DEF Transport, Connected, ListInv
  <2> QED
    BY <2>1, <2>2, <2>3, SettledSftp
<1> QED
  BY <1>1, <1>2

(* Every step keeps the session list a list and the SFTP pane right. *)
LEMMA SftpStep == ListInv /\ SftpInv /\ [Next]_vars => (ListInv /\ SftpInv)'
<1> SUFFICES ASSUME ListInv, SftpInv, [Next]_vars
             PROVE  ListInv' /\ SftpInv'
  OBVIOUS
<1> USE DEF Reconcile
<1>1. CASE OpenSession
  <2>1. ListInv' /\ tab'.kind # "Sftp"
    BY <1>1, PushKeepsList DEF OpenSession, SessionTab
  <2> QED
    BY <1>1, <2>1, ShowsOther DEF OpenSession
<1>2. CASE DragTab \/ CancelDrag \/ (\E p \in Ids, b \in BOOLEAN : DropOnEdge(p, b))
           \/ (\E p \in Ids : DropInPane(p) \/ ClosePane(p))
  <2>1. UNCHANGED <<sessions, opened, tab, active, panes>>
    BY <1>2 DEF DragTab, CancelDrag, DropOnEdge, DropInPane, ClosePane, LeavesPanes, layout
  <2> QED
    BY <2>1, SameSftp DEF ListInv, panes, SftpInv
<1>3. CASE CloseWorkspace
  <2>1. tab'.kind # "Sftp"
    BY <1>3 DEF CloseWorkspace, Fallback, Surface, SessionTab
  <2> QED
    BY <1>3, <2>1, ShowsOther DEF CloseWorkspace, ListInv
<1>4. CASE Select
  <2>1. sftpPane => sftpPane'
    BY <1>4 DEF Select, SelectTab
  <2> QED
    BY <1>4, <2>1, SameList DEF Select, ListInv
<1>5. CASE NewTab \/ \E b \in BOOLEAN : SelectNav(b)
  <2>1. /\ UNCHANGED <<sessions, opened, active, attached, client, attempts, sftpPane>>
        /\ tab'.kind \in {"NewTab", "Vaults"}
    BY <1>5 DEF NewTab, SelectNav, LeavesPanes, panes, Surface
  <2> QED
    BY <2>1, SameSftp DEF ListInv
<1>6. CASE ToggleOverlay
  BY <1>6, SameList DEF ToggleOverlay, layout, ListInv
<1>7. ASSUME NEW b \in BOOLEAN, DropOnSession(b)
      PROVE  ListInv' /\ SftpInv'
  <2>1. /\ (\E first, second, at : TileTwo(first, second, at))
        /\ Push(FALSE) \/ UNCHANGED <<sessions, opened>>
    BY <1>7 DEF DropOnSession
  <2>2. ReconcileSftp /\ UNCHANGED sftpPane /\ tab'.kind # "Sftp"
    BY <2>1 DEF TileTwo, Surface
  <2> QED
    BY <2>1, <2>2, PushKeepsList, ShowsOther DEF ListInv
<1>8. ASSUME NEW i \in Ids, TileSideBySide(i)
      PROVE  ListInv' /\ SftpInv'
  <2>1. /\ (\E first, second, at : TileTwo(first, second, at))
        /\ UNCHANGED <<sessions, opened>>
    BY <1>8 DEF TileSideBySide
  <2>2. ReconcileSftp /\ UNCHANGED sftpPane /\ tab'.kind # "Sftp"
    BY <2>1 DEF TileTwo, Surface
  <2> QED
    BY <2>1, <2>2, ShowsOther DEF ListInv
<1>9. ASSUME NEW i \in Ids, CloseSession(i)
      PROVE  ListInv' /\ SftpInv'
  BY <1>9, CloseAtKeepsSftp DEF CloseSession
<1>10. CASE CloseNext
  BY <1>10, CloseAtKeepsSftp DEF CloseNext
<1>11. ASSUME NEW p \in Ids, AddTab(p) \/ \E t \in Ids : FocusTab(p, t)
       PROVE  ListInv' /\ SftpInv'
  <2>1. /\ ~Serving
        /\ UNCHANGED <<attached, client, attempts, sftpPane>>
        /\ Push(FALSE) \/ UNCHANGED <<sessions, opened>>
    BY <1>11 DEF AddTab, FocusTab, InWorkspace, LeavesPanes, panes, SftpInv
  <2> QED
    BY <2>1, PushKeepsList DEF ListInv, SftpInv, Serving, ClientIsOfItsSession
<1>12. ASSUME NEW p \in Ids, SplitPane(p)
       PROVE  ListInv' /\ SftpInv'
  <2>1. /\ Push(TRUE) \/ Push(FALSE)
        /\ ReconcileSftp /\ UNCHANGED sftpPane /\ tab'.kind # "Sftp"
    BY <1>12 DEF SplitPane, Surface
  <2> QED
    BY <2>1, PushKeepsList, ShowsOther
<1>13. ASSUME NEW i \in Ids, PaneNotified(i)
       PROVE  ListInv' /\ SftpInv'
  <2>1. PICK s \in {"Connecting", "Connected", "Ended"} :
          sessions' = [sessions EXCEPT ![i].state = s]
    BY <1>13 DEF PaneNotified
  <2>2. i \in DOMAIN sessions /\ sessions[i] \in Session
    BY <1>13 DEF PaneNotified, ListInv
  <2>3. sessions' = [sessions EXCEPT ![i] = [sessions[i] EXCEPT !.state = s]]
    BY <2>1
  <2>4. ListInv'
    <3> DEFINE new == [sessions[i] EXCEPT !.state = s]
    <3>1. new \in Session
      BY <2>2 DEF Session
    <3>2. sessions' \in Seq(Session)
      <4> HIDE DEF new
      <4> QED
        BY <2>2, <2>3, <3>1 DEF ListInv, new
    <3>3. opened' = opened
      BY <1>13 DEF PaneNotified
    <3> QED
      BY <3>2, <3>3 DEF ListInv
  <2>5. ASSUME Serving, active' = attached, Connected(sessions', active')
        PROVE  Transport(sessions', active') = Transport(sessions, attached)
    <3>1. Transport(sessions, attached) # 0 /\ attached \in DOMAIN sessions
      BY <2>5 DEF SftpInv, Serving, ClientIsOfItsSession
    <3>2. /\ sessions'[attached].id = sessions[attached].id
          /\ sessions'[attached].remote = sessions[attached].remote
      BY <2>2, <2>3, <3>1 DEF ListInv, Session
    <3> QED
      BY <2>5, <3>1, <3>2 DEF Transport
  <2> QED
    BY <1>13, <2>4, <2>5, SettledSftp DEF PaneNotified
<1>14. ASSUME NEW a \in attempts, NEW ok \in BOOLEAN, OpenAnswered(a, ok)
       PROVE  ListInv' /\ SftpInv'
  <2>1. UNCHANGED <<sessions, opened, tab, active, sftpPane>>
    BY <1>14 DEF OpenAnswered, layout
  <2>2. ASSUME NEW b \in attempts, b.live, a.live
        PROVE  b = a
    BY <2>2 DEF SftpInv
  <2>3. CASE a.live
    <3>1. \A b \in attempts' : ~b.live
      BY <1>14, <2>2, <2>3 DEF OpenAnswered
    <3>2. client' = (IF ok THEN a.of ELSE 0) /\ attached' = (IF ok THEN attached ELSE 0)
      BY <1>14, <2>3 DEF OpenAnswered, SftpInv
    <3> QED
      BY <1>14, <2>1, <2>3, <3>1, <3>2
      DEF OpenAnswered, ListInv, SftpInv, Serving, ClientIsOfItsSession, Transport, Connected
  <2>4. CASE ~a.live
    BY <1>14, <2>1, <2>4
    DEF OpenAnswered, ListInv, SftpInv, Serving, ClientIsOfItsSession, Transport, Connected
  <2> QED
    BY <2>3, <2>4
<1>15. CASE UNCHANGED vars
  BY <1>15, SameSftp DEF vars, ListInv, SftpInv
<1> QED
  BY <1>1, <1>2, <1>3, <1>4, <1>5, <1>6, <1>7, <1>8, <1>9, <1>10, <1>11, <1>12,
     <1>13, <1>14, <1>15 DEF Next, UserStep, Report

(* The SFTP pane never holds a client of a session other than the one it is *)
(* attached to, nor of one that ended or was closed. *)
THEOREM ClientFollowsSession == Spec => []ClientIsOfItsSession
<1>1. Init => ListInv /\ SftpInv
  BY DEF Init, ListInv, SftpInv, Serving, ClientIsOfItsSession
<1>2. SftpInv => ClientIsOfItsSession
  BY DEF SftpInv
<1> QED
  BY <1>1, <1>2, SftpStep, PTL DEF Spec

(* Every step leaves the port-forwarding pane, if in view, on the focus. *)
LEMMA FollowStep == FollowInv /\ [Next]_vars => FollowInv'
<1> SUFFICES ASSUME FollowInv, [Next]_vars
             PROVE  FollowInv'
  OBVIOUS
<1> USE DEF FollowInv, ForwardsFollowFocus
<1>1. ASSUME ReconcileForward, nav' => forwardPane'
      PROVE  FollowInv'
  BY <1>1 DEF ReconcileForward
<1>2. CASE OpenSession \/ CloseWorkspace \/ Select
  <2>1. ReconcileForward /\ UNCHANGED <<nav, forwardPane>>
    BY <1>2 DEF OpenSession, CloseWorkspace, Select, SelectTab, Reconcile
  <2> QED
    BY <1>1, <2>1
<1>3. CASE \/ \E b \in BOOLEAN : DropOnSession(b)
           \/ \E i \in Ids : TileSideBySide(i) \/ PaneNotified(i) \/ SplitPane(i)
  <2>1. ReconcileForward /\ UNCHANGED <<nav, forwardPane>>
    BY <1>3 DEF DropOnSession, TileSideBySide, TileTwo, PaneNotified, SplitPane, Reconcile
  <2> QED
    BY <1>1, <2>1
<1>4. CASE DragTab \/ CancelDrag \/ (\E p \in Ids, b \in BOOLEAN : DropOnEdge(p, b))
           \/ (\E p \in Ids : DropInPane(p) \/ ClosePane(p))
  BY <1>4 DEF DragTab, CancelDrag, DropOnEdge, DropInPane, ClosePane, LeavesPanes,
              layout, panes
<1>5. CASE NewTab \/ \E p \in Ids : AddTab(p) \/ \E t \in Ids : FocusTab(p, t)
  <2>1. CASE NewTab
    BY <2>1 DEF NewTab, LeavesPanes, panes, Surface
  <2>2. ASSUME NEW p \in Ids, AddTab(p)
        PROVE  FollowInv'
    BY <2>2 DEF AddTab, InWorkspace, LeavesPanes, panes
  <2>3. ASSUME NEW p \in Ids, NEW t \in Ids, FocusTab(p, t)
        PROVE  FollowInv'
    <3>1. tab'.kind # "Vaults" /\ UNCHANGED <<nav, forwardPane>>
      BY <2>3 DEF FocusTab, InWorkspace, LeavesPanes, panes
    <3> QED
      BY <3>1
  <2> QED
    BY <1>5, <2>1, <2>2, <2>3
<1>6. ASSUME NEW b \in BOOLEAN, SelectNav(b)
      PROVE  FollowInv'
  BY <1>1, <1>6 DEF SelectNav
<1>7. CASE ToggleOverlay \/ \E a \in attempts, ok \in BOOLEAN : OpenAnswered(a, ok)
  BY <1>7 DEF ToggleOverlay, OpenAnswered, layout
<1>8. ASSUME NEW i, CloseAt(i)
      PROVE  FollowInv'
  <2>1. UNCHANGED nav
    BY <1>8 DEF CloseAt
  <2>2. CASE i \notin DOMAIN sessions
    BY <1>8, <2>1, <2>2 DEF CloseAt, LeavesPanes, panes
  <2>3. CASE i \in DOMAIN sessions
    BY <1>1, <1>8, <2>1, <2>3 DEF CloseAt, Reconcile
  <2> QED
    BY <2>2, <2>3
<1>9. CASE CloseNext \/ \E i \in Ids : CloseSession(i)
  BY <1>8, <1>9 DEF CloseNext, CloseSession
<1>10. CASE UNCHANGED vars
  BY <1>10 DEF vars
<1> QED
  BY <1>2, <1>3, <1>4, <1>5, <1>6, <1>7, <1>9, <1>10 DEF Next, UserStep, Report

(* While the port-forwarding pane is in view it forwards over the focused *)
(* session, and over nothing once that session ended or was closed. *)
THEOREM ForwardsStayOnFocus == Spec => []ForwardsFollowFocus
<1>1. Init => FollowInv
  BY DEF Init, FollowInv, ForwardsFollowFocus
<1>2. FollowInv => ForwardsFollowFocus
  BY DEF FollowInv
<1> QED
  BY <1>1, <1>2, FollowStep, PTL DEF Spec

------------------------------------------------------------------------------
(* The indexes the window keeps *)

Surfaces == {"Vaults", "Sftp", "NewTab", "Workspace", "Session"}

\* Every index the window keeps, and what keeps it an index of the list.
IndexInv ==
  /\ ListInv
  /\ Tidy(ws, Len(sessions))
  /\ tab \in [kind : Surfaces, index : 0 .. Len(sessions)]
  /\ tab.index = IF tab.kind = "Session" THEN active ELSE 0
  /\ dragged \in [session : 0 .. Len(sessions), pane : Nat, tab : Nat]
  /\ active \in 0 .. Len(sessions)
  /\ focus \in Nat \ {0}
  /\ attached \in 0 .. Len(sessions) /\ sftpPane \in BOOLEAN
  /\ ~sftpPane => attached = 0

(* What the pane serves after it was settled: nothing, or the focused session. *)
LEMMA SettledAttached ==
  ASSUME ReconcileSftp, ~sftpPane' => attached = 0
  PROVE  attached' \in {0, active'} /\ (~sftpPane' => attached' = 0)
<1> DEFINE target == IF ~overlay' /\ tab'.kind = "Sftp" /\ Connected(sessions', active')
                     THEN active' ELSE 0
<1>1. CASE ~sftpPane'
  BY <1>1 DEF ReconcileSftp
<1>2. CASE sftpPane'
  <2>1. attached' = target
    BY <1>2 DEF ReconcileSftp
  <2> QED
    BY <1>2, <2>1
<1> QED
  BY <1>1, <1>2

(* A session that was just appended to the list is in no tile yet. *)
LEMMA TidyMore ==
  ASSUME NEW w, NEW n \in Nat, Tidy(w, n)
  PROVE  Tidy(w, n + 1) /\ n + 1 \notin All(w)
<1>1. 1 .. n \subseteq 1 .. n + 1 /\ n + 1 \notin 1 .. n
  OBVIOUS
<1> QED
  BY <1>1 DEF Tidy, Loose, All

(* One more session, at the end of the list. *)
LEMMA PushGrows ==
  ASSUME IndexInv, NEW remote \in BOOLEAN, Push(remote)
  PROVE  /\ ListInv' /\ Len(sessions) \in Nat /\ Len(sessions') = Len(sessions) + 1
         /\ Tidy(ws, Len(sessions')) /\ Len(sessions') \notin All(ws)
         /\ Len(sessions') >= Len(sessions) /\ Len(sessions') \in Nat
         /\ Len(sessions') \in 1 .. Len(sessions') /\ Len(sessions') \in 0 .. Len(sessions')
<1> DEFINE new == [id |-> opened + 1, remote |-> remote,
                   state |-> IF remote THEN "Connecting" ELSE "Connected"]
<1>1. sessions \in Seq(Session) /\ opened \in Nat /\ Len(sessions) \in Nat
  BY DEF IndexInv, ListInv
<1>2. new \in Session
  BY <1>1 DEF Session
<1>3. sessions' = Append(sessions, new) /\ opened' = opened + 1
  BY DEF Push
<1> HIDE DEF new
<1>4. ListInv' /\ Len(sessions') = Len(sessions) + 1
  BY <1>1, <1>2, <1>3 DEF ListInv
<1>5. Tidy(ws, Len(sessions')) /\ Len(sessions') \notin All(ws)
  BY <1>1, <1>4, TidyMore DEF IndexInv
<1> QED
  BY <1>1, <1>4, <1>5

(* A step that settles the pane, over lists of which the later is no shorter. *)
LEMMA GrowsTo ==
  ASSUME IndexInv, ListInv', Len(sessions') >= Len(sessions),
         Tidy(ws, Len(sessions))' ,
         tab' \in [kind : Surfaces, index : 0 .. Len(sessions')],
         tab'.index = IF tab'.kind = "Session" THEN active' ELSE 0,
         dragged' = dragged \/ dragged' = NoDrag,
         active' \in 0 .. Len(sessions'), focus' \in Nat \ {0},
         \/ UNCHANGED <<attached, sftpPane>>
         \/ ReconcileSftp /\ sftpPane' \in BOOLEAN /\ (~sftpPane' => ~sftpPane)
  PROVE  IndexInv'
<1>1. Len(sessions) \in Nat /\ Len(sessions') \in Nat
  BY DEF IndexInv, ListInv
<1>2. 0 .. Len(sessions) \subseteq 0 .. Len(sessions')
  BY <1>1
<1>3. dragged' \in [session : 0 .. Len(sessions'), pane : Nat, tab : Nat]
  BY <1>1, <1>2 DEF IndexInv, NoDrag
<1>4. attached' \in 0 .. Len(sessions') /\ sftpPane' \in BOOLEAN /\ (~sftpPane' => attached' = 0)
  BY <1>1, <1>2, SettledAttached DEF IndexInv
<1> QED
  BY <1>3, <1>4, Zenon DEF IndexInv

(* A tile of its own for each of two sessions. *)
LEMMA TileTwoTidy ==
  ASSUME IndexInv, ListInv', Len(sessions') >= Len(sessions),
         NEW first \in 1 .. Len(sessions'), NEW second \in 1 .. Len(sessions'),
         first # second, NEW at \in {1, 2}, TileTwo(first, second, at)
  PROVE  IndexInv'
<1>1. Len(sessions') \in Nat
  BY DEF ListInv
<1>2. Tidy(ws, Len(sessions))'
  BY <1>1, TwoTiles DEF TileTwo
<1>3. tab' = [kind |-> "Workspace", index |-> 0] /\ dragged' = NoDrag
      /\ focus' = at /\ (active' = first \/ active' = second)
      /\ ReconcileSftp /\ UNCHANGED sftpPane
  BY DEF TileTwo, Surface, Reconcile
<1>4. active' \in 0 .. Len(sessions') /\ focus' \in Nat \ {0} /\ 0 \in 0 .. Len(sessions')
  BY <1>1, <1>3
<1>5. tab' \in [kind : Surfaces, index : 0 .. Len(sessions')]
      /\ tab'.kind = "Workspace" /\ tab'.index = 0
  BY <1>3, <1>4 DEF Surfaces
<1>6. sftpPane' \in BOOLEAN
  BY <1>3 DEF IndexInv
<1> QED
  BY <1>2, <1>3, <1>4, <1>5, <1>6, GrowsTo

(* A list that loses one of its sessions. *)
LEMMA Shortened ==
  ASSUME ListInv, NEW i \in DOMAIN sessions
  PROVE  RemoveAt(sessions, i) \in Seq(Session)
         /\ Len(RemoveAt(sessions, i)) = Len(sessions) - 1
BY RemovedAt DEF ListInv

(* A session leaves the list, and every index behind it moves down. *)
LEMMA CloseAtKeepsIndexes ==
  ASSUME IndexInv, NEW i, CloseAt(i)
  PROVE  IndexInv'
<1>1. CASE i \notin DOMAIN sessions
  <2>1. /\ UNCHANGED <<sessions, opened, tab, active, ws, focus, attached, sftpPane>>
        /\ dragged' = NoDrag
    BY <1>1 DEF CloseAt, LeavesPanes, panes
  <2>2. ListInv' /\ Len(sessions') >= Len(sessions) /\ Tidy(ws, Len(sessions))'
    BY <2>1 DEF IndexInv, ListInv
  <2> QED
    BY <2>1, <2>2, GrowsTo DEF IndexInv
<1>2. CASE i \in DOMAIN sessions
  <2> DEFINE n == Len(sessions)
             t == TabAfterClose(tab, i)
             kept == RemoveSession(ws, i)
             leaves == Leaves(kept)
             at == Greater(1, Lesser(focus, Len(kept)))
             on == CASE active = i -> 0
                     [] active > i -> active - 1
                     [] OTHER -> active
             tiled == t.kind = "Workspace"
  <2>1. n \in Nat /\ i \in 1 .. n
    BY <1>2 DEF IndexInv, ListInv
  <2>2. /\ sessions' = RemoveAt(sessions, i) /\ opened' = opened /\ ws' = kept /\ focus' = at
        /\ tab' = (IF tiled /\ leaves = <<>> THEN Surface("Vaults") ELSE t)
        /\ active' = (IF tiled /\ leaves # <<>> THEN leaves[at] ELSE on)
        /\ sftpPane' = sftpPane /\ ReconcileSftp /\ dragged' = NoDrag
    BY <1>2 DEF CloseAt, Reconcile
  <2>3. ListInv' /\ Len(sessions') = n - 1
    BY <1>2, <2>2, Shortened DEF IndexInv, ListInv
  <2>4. Tidy(kept, n - 1)
    BY <2>1, RemoveTidy DEF IndexInv, Tidy
  <2>5. /\ leaves \in Seq(Nat) /\ Len(kept) \in Nat /\ Len(leaves) \in Nat /\ DOMAIN leaves = 1 .. Len(leaves)
        /\ Len(kept) <= Len(leaves) /\ \A k \in DOMAIN leaves : leaves[k] \in 1 .. n - 1
    <3>1. n - 1 \in Nat /\ Loose(kept, n - 1)
      BY <2>1, <2>4 DEF Tidy
    <3> HIDE DEF kept, n
    <3>2. Len(kept) \in Nat
      BY <3>1 DEF Loose
    <3> QED
      BY <2>4, <3>1, <3>2, LeavesOf, LeavesEnough
  <2>6. at \in Nat \ {0} /\ (leaves # <<>> => leaves[at] \in 1 .. n - 1)
    <3> HIDE DEF kept, n
    <3>1. focus \in Nat \ {0}
      BY DEF IndexInv
    <3>2. at \in Nat \ {0} /\ (at <= Len(kept) \/ at = 1)
      BY <2>5, <3>1 DEF Greater, Lesser
    <3>3. ASSUME leaves # <<>> PROVE at \in DOMAIN leaves
      <4>1. Len(leaves) # 0
        BY <2>5, <3>3
      <4> QED
        BY <2>5, <3>2, <4>1
    <3> QED
      BY <2>5, <3>2, <3>3
  <2>7. on \in 0 .. n - 1
    BY <2>1 DEF IndexInv
  <2>8. /\ t \in [kind : Surfaces, index : 0 .. n - 1]
        /\ t.index = IF t.kind = "Session" THEN on ELSE 0
    <3>0. tab \in [kind : Surfaces, index : 0 .. n]
          /\ tab.index = (IF tab.kind = "Session" THEN active ELSE 0)
          /\ active \in 0 .. n
      BY DEF IndexInv
    <3>1. CASE tab.kind = "Session" /\ tab.index = i
      <4>1. t = Surface("Vaults")
        <5>1. ~ (tab.index > i)
          BY <2>1, <3>1
        <5> QED
          BY <3>1, <5>1 DEF TabAfterClose
      <4>2. 0 \in 0 .. n - 1
        BY <2>1
      <4> HIDE DEF t, on
      <4> QED
        BY <4>1, <4>2 DEF Surface, Surfaces
    <3>2. CASE tab.kind = "Session" /\ tab.index > i
      <4>1. t = SessionTab(active - 1) /\ on = active - 1
        BY <2>1, <3>0, <3>2 DEF TabAfterClose
      <4>2. active - 1 \in 0 .. n - 1
        BY <2>1, <3>0, <3>2
      <4> HIDE DEF t, on
      <4> QED
        BY <4>1, <4>2 DEF SessionTab, Surfaces
    <3>3. CASE ~ (tab.kind = "Session" /\ tab.index = i)
               /\ ~ (tab.kind = "Session" /\ tab.index > i)
      <4>1. t = tab
        BY <3>3 DEF TabAfterClose
      <4>2. tab.kind = "Session" => on = active /\ active \in 0 .. n - 1
        BY <2>1, <3>0, <3>3
      <4>3. tab.index \in 0 .. n - 1
        BY <2>1, <3>0, <4>2
      <4> HIDE DEF t, on
      <4> QED
        BY <3>0, <4>1, <4>2, <4>3
    <3> QED
      BY <3>1, <3>2, <3>3
  <2> HIDE DEF t, on, leaves, at, kept, n
  <2>9. /\ active' \in 0 .. n - 1
        /\ tab' \in [kind : Surfaces, index : 0 .. n - 1]
        /\ tab'.index = IF tab'.kind = "Session" THEN active' ELSE 0
    <3>1. 0 \in 0 .. n - 1 /\ 1 .. n - 1 \subseteq 0 .. n - 1
      BY <2>1
    <3>2. CASE tiled /\ leaves = <<>>
      BY <2>2, <2>7, <3>1, <3>2 DEF Surface, Surfaces
    <3>3. CASE tiled /\ leaves # <<>>
      BY <2>2, <2>6, <2>8, <3>1, <3>3
    <3>4. CASE ~ tiled
      BY <2>2, <2>7, <2>8, <3>4
    <3> QED
      BY <3>2, <3>3, <3>4
  <2>10. attached' \in 0 .. n - 1 /\ sftpPane' \in BOOLEAN /\ (~sftpPane' => attached' = 0)
    <3>1. 0 \in 0 .. n - 1
      BY <2>1
    <3> QED
      BY <2>2, <2>9, <3>1, SettledAttached DEF IndexInv
  <2>11. dragged' \in [session : 0 .. n - 1, pane : Nat, tab : Nat]
    BY <2>1, <2>2 DEF NoDrag
  <2> QED
    BY <2>2, <2>3, <2>4, <2>6, <2>9, <2>10, <2>11 DEF IndexInv
<1> QED
  BY <1>1, <1>2

(* A step that leaves the list, the tiling and the pane alone. *)
LEMMA SameTiling ==
  ASSUME IndexInv, UNCHANGED <<sessions, opened, ws>>,
         tab' \in [kind : Surfaces, index : 0 .. Len(sessions)],
         tab'.index = IF tab'.kind = "Session" THEN active' ELSE 0,
         dragged' = dragged \/ dragged' = NoDrag,
         active' \in 0 .. Len(sessions), focus' \in Nat \ {0},
         \/ UNCHANGED <<attached, sftpPane>>
         \/ ReconcileSftp /\ sftpPane' \in BOOLEAN /\ (~sftpPane' => ~sftpPane)
  PROVE  IndexInv'
<1>1. ListInv' /\ Tidy(ws, Len(sessions))' /\ Len(sessions') = Len(sessions)
      /\ Len(sessions') >= Len(sessions)
  BY DEF IndexInv, ListInv
<1> QED
  BY <1>1, GrowsTo

(* What the surfaces a handler shows are. *)
LEMMA SurfaceKinds ==
  ASSUME NEW n \in Nat
  PROVE  /\ \A k \in Surfaces \ {"Session"} :
              /\ Surface(k) \in [kind : Surfaces, index : 0 .. n]
              /\ Surface(k).kind = k /\ Surface(k).index = 0
         /\ \A i \in 0 .. n : /\ SessionTab(i) \in [kind : Surfaces, index : 0 .. n]
                              /\ SessionTab(i).kind = "Session" /\ SessionTab(i).index = i
BY DEF Surface, SessionTab, Surfaces

(* A session is opened in a tab of its own. *)
LEMMA OpenKeeps ==
  ASSUME IndexInv, OpenSession
  PROVE  IndexInv'
<1>1. PICK remote \in BOOLEAN : Push(remote)
  BY DEF OpenSession
<1>2. /\ ListInv' /\ Len(sessions) \in Nat /\ Len(sessions') = Len(sessions) + 1
      /\ Tidy(ws, Len(sessions')) /\ Len(sessions') >= Len(sessions)
      /\ Len(sessions') \in Nat /\ Len(sessions') \in 0 .. Len(sessions')
  BY <1>1, PushGrows
<1>3. /\ active' = Len(sessions') /\ tab' = SessionTab(Len(sessions'))
      /\ UNCHANGED <<ws, focus, dragged, sftpPane>> /\ ReconcileSftp
  BY DEF OpenSession, Reconcile
<1>4. Tidy(ws, Len(sessions))' /\ focus' \in Nat \ {0} /\ sftpPane' \in BOOLEAN
  BY <1>2, <1>3 DEF IndexInv
<1>5. tab' \in [kind : Surfaces, index : 0 .. Len(sessions')]
      /\ tab'.kind = "Session" /\ tab'.index = active'
  BY <1>2, <1>3, SurfaceKinds
<1> QED
  BY <1>2, <1>3, <1>4, <1>5, GrowsTo

(* A surface is selected in the strip; the workspace may be seeded by it. *)
LEMMA SelectKeeps ==
  ASSUME IndexInv, Select
  PROVE  IndexInv'
<1> DEFINE n == Len(sessions)
<1>1. PICK t \in {Surface("Vaults"), Surface("Sftp"), Surface("NewTab"),
                  Surface("Workspace"), Fallback} \cup {SessionTab(i) : i \in DOMAIN sessions} :
        SelectTab(t)
  BY DEF Select
<1>2. UNCHANGED <<sessions, opened, dragged>> /\ ReconcileSftp
  BY DEF Select, Reconcile
<1>3. n \in Nat /\ DOMAIN sessions = 1 .. n /\ active \in 0 .. n
  BY DEF IndexInv, ListInv
<1>4. /\ t \in [kind : Surfaces, index : 0 .. n]
      /\ t.kind # "Session" => t.index = 0
  <2>1. Fallback = Surface("Vaults") \/ Fallback = SessionTab(active)
    BY DEF Fallback
  <2>2. \/ t \in {Surface("Vaults"), Surface("Sftp"), Surface("NewTab"), Surface("Workspace")}
        \/ \E i \in 0 .. n : t = SessionTab(i)
    BY <1>3, <2>1
  <2>3. {"Vaults", "Sftp", "NewTab", "Workspace"} \subseteq Surfaces \ {"Session"}
    BY DEF Surfaces
  <2> QED
    BY <1>3, <2>2, <2>3, SurfaceKinds
<1> DEFINE seeds == t.kind = "Workspace" /\ Leaves(ws) = <<>> /\ active # 0
           seeded == IF seeds THEN <<Tile(<<active>>, 1)>> ELSE ws
           at == IF seeded # ws THEN 1 ELSE focus
           leaves == Leaves(seeded)
<1>5. /\ tab' = t /\ sftpPane' = (sftpPane \/ t.kind = "Sftp") /\ ws' = seeded
      /\ focus' = at
      /\ active' = CASE t.kind = "Session" -> t.index
                     [] t.kind = "Workspace" /\ at \in DOMAIN leaves -> leaves[at]
                     [] OTHER -> active
  BY <1>1 DEF SelectTab
<1>6. Tidy(seeded, n)
  <2>1. CASE seeds
    <3>1. active \in 1 .. n
      BY <1>3, <2>1
    <3> QED
      BY <1>3, <2>1, <3>1, OneTile
  <2>2. CASE ~ seeds
    BY <2>2 DEF IndexInv
  <2> QED
    BY <2>1, <2>2
<1> HIDE DEF seeds, seeded
<1>7. at \in Nat \ {0}
  BY DEF IndexInv
<1>8. \A k \in DOMAIN leaves : leaves[k] \in 1 .. n
  BY <1>3, <1>6, LeavesOf DEF Tidy
<1> HIDE DEF at, leaves, n
<1>9. /\ active' \in 0 .. n
      /\ tab'.index = IF tab'.kind = "Session" THEN active' ELSE 0
  <2>1. CASE t.kind = "Session"
    BY <1>4, <1>5, <2>1
  <2>2. CASE t.kind = "Workspace" /\ at \in DOMAIN leaves
    <3>1. leaves[at] \in 0 .. n
      BY <1>3, <1>8, <2>2
    <3> QED
      BY <1>4, <1>5, <2>2, <3>1
  <2>3. CASE t.kind # "Session" /\ ~ (t.kind = "Workspace" /\ at \in DOMAIN leaves)
    BY <1>3, <1>4, <1>5, <2>3
  <2> QED
    BY <2>1, <2>2, <2>3
<1>10. sftpPane' \in BOOLEAN /\ (~sftpPane' => ~sftpPane)
  BY <1>5 DEF IndexInv
<1>11. ListInv' /\ Len(sessions') = n /\ n >= n
  BY <1>2, <1>3 DEF IndexInv, ListInv, n
<1>12. Tidy(ws, Len(sessions))'
  BY <1>5, <1>6, <1>11
<1> QED
  BY <1>2, <1>4, <1>5, <1>7, <1>9, <1>10, <1>11, <1>12, GrowsTo DEF n

(* A tab is picked up, from the strip or from a tile. *)
LEMMA DragKeeps ==
  ASSUME IndexInv, DragTab
  PROVE  IndexInv'
<1> DEFINE n == Len(sessions)
<1>1. n \in Nat /\ DOMAIN sessions = 1 .. n
  BY DEF IndexInv, ListInv
<1>2. /\ UNCHANGED <<sessions, opened, tab, active, ws, focus, attached, sftpPane>>
  BY DEF DragTab, LeavesPanes, panes
<1>3. dragged' \in [session : 0 .. n, pane : Nat, tab : Nat]
  <2>1. CASE \E i \in DOMAIN sessions : dragged' = [NoDrag EXCEPT !.session = i]
    BY <1>1, <2>1 DEF NoDrag
  <2>2. ASSUME NEW p \in DOMAIN ws, NEW t \in DOMAIN ws[p].tabs,
               dragged' = [session |-> ws[p].tabs[t], pane |-> p, tab |-> t]
        PROVE  dragged' \in [session : 0 .. n, pane : Nat, tab : Nat]
    <3>1. ws \in Seq(TileRec) /\ ws[p] \in TileRec
      BY DEF IndexInv, Tidy, Loose
    <3>2. ws[p].tabs \in Seq(Nat)
      BY <3>1 DEF TileRec
    <3>3. p \in Nat /\ t \in Nat
      BY <3>1, <3>2
    <3>4. ws[p].tabs[t] \in Tabs(ws[p])
      BY DEF Tabs
    <3>5. ws[p].tabs[t] \in 1 .. n
      BY <3>4 DEF IndexInv, Tidy, Loose
    <3> QED
      BY <1>1, <2>2, <3>3, <3>5
  <2> QED
    BY <2>1, <2>2 DEF DragTab
<1>4. ListInv' /\ Tidy(ws, Len(sessions))' /\ Len(sessions') = n
  BY <1>2 DEF IndexInv, ListInv
<1> QED
  BY <1>2, <1>3, <1>4 DEF IndexInv

(* A drop on a session in view tiles it beside the dragged one. *)
LEMMA DropOnSessionKeeps ==
  ASSUME IndexInv, NEW after \in BOOLEAN, DropOnSession(after)
  PROVE  IndexInv'
<1> DEFINE n == Len(sessions)
           current == Greater(1, active)
<1>1. n \in Nat /\ dragged.session \in 1 .. n /\ active \in 0 .. n
  BY DEF IndexInv, ListInv, DropOnSession
<1>2. current \in 1 .. n
  BY <1>1 DEF Greater
<1> HIDE DEF current
<1>3. CASE dragged.session = current
  <2>1. Push(FALSE)
    BY <1>3 DEF DropOnSession, current
  <2>2. /\ ListInv' /\ Len(sessions') = n + 1 /\ Len(sessions') >= Len(sessions)
    <3>1. /\ ListInv' /\ Len(sessions') = n + 1
      BY <2>1, PushGrows
    <3> QED
      BY <1>1, <3>1
  <2>3. /\ current \in 1 .. Len(sessions') /\ Len(sessions') \in 1 .. Len(sessions')
        /\ current # Len(sessions')
    BY <1>1, <1>2, <2>2
  <2>4. \/ TileTwo(current, Len(sessions'), 2) \/ TileTwo(Len(sessions'), current, 1)
    BY <1>3 DEF DropOnSession, current
  <2> QED
    BY <2>2, <2>3, <2>4, TileTwoTidy
<1>4. CASE dragged.session # current
  <2>1. UNCHANGED <<sessions, opened>>
    BY <1>4 DEF DropOnSession, current
  <2>2. /\ ListInv' /\ Len(sessions') = n /\ Len(sessions') >= Len(sessions)
    BY <1>1, <2>1 DEF IndexInv, ListInv
  <2>3. current \in 1 .. Len(sessions') /\ dragged.session \in 1 .. Len(sessions')
    BY <1>1, <1>2, <2>2
  <2>4. \/ TileTwo(current, dragged.session, 2) \/ TileTwo(dragged.session, current, 1)
    BY <1>4 DEF DropOnSession, current
  <2> QED
    BY <1>4, <2>2, <2>3, <2>4, TileTwoTidy
<1> QED
  BY <1>3, <1>4

(* The menu of a tab tiles two sessions. *)
LEMMA TileSideBySideKeeps ==
  ASSUME IndexInv, NEW other, TileSideBySide(other)
  PROVE  IndexInv'
<1> DEFINE n == Len(sessions)
           left == Greater(1, active)
           rest == {i \in DOMAIN sessions : i # left}
           right == IF other # left THEN other
                    ELSE CHOOSE i \in rest : \A j \in rest : i <= j
<1>1. n \in Nat /\ DOMAIN sessions = 1 .. n /\ active \in 0 .. n /\ n > 1 /\ other \in 1 .. n
  BY DEF IndexInv, ListInv, TileSideBySide
<1>2. left \in 1 .. n
  BY <1>1 DEF Greater
<1>3. UNCHANGED <<sessions, opened>> /\ TileTwo(left, right, 2)
  BY DEF TileSideBySide
<1> HIDE DEF left
<1>4. rest \in SUBSET Nat /\ rest # {}
  <2>1. 1 \in 1 .. n /\ 2 \in 1 .. n
    BY <1>1
  <2>2. 1 \in rest \/ 2 \in rest
    BY <1>1, <2>1
  <2> QED
    BY <1>1, <2>2
<1>5. \E i \in rest : \A j \in rest : i <= j
  <2> HIDE DEF rest
  <2> QED
    BY <1>4, LeastNatural
<1>6. right \in 1 .. n /\ right # left
  <2>1. CASE other # left
    BY <1>1, <2>1
  <2>2. CASE other = left
    <3>1. right \in rest
      <4> HIDE DEF rest
      <4> QED
        BY <1>5, <2>2
    <3> HIDE DEF right
    <3> QED
      BY <1>1, <3>1
  <2> QED
    BY <2>1, <2>2
<1> HIDE DEF right
<1>7. ListInv' /\ Len(sessions') = n /\ Len(sessions') >= Len(sessions)
  BY <1>1, <1>3 DEF IndexInv, ListInv
<1> QED
  BY <1>2, <1>3, <1>6, <1>7, TileTwoTidy

(* A handler that changes the tiling and tells no pane. *)
LEMMA Retiled ==
  ASSUME IndexInv, UNCHANGED <<sessions, opened, tab, attached, sftpPane>>,
         Tidy(ws', Len(sessions)),
         dragged' = dragged \/ dragged' = NoDrag, focus' \in Nat \ {0},
         active' \in 0 .. Len(sessions), tab.kind = "Session" => active' = active
  PROVE  IndexInv'
<1>1. ListInv' /\ Len(sessions') = Len(sessions) /\ Len(sessions') >= Len(sessions)
  BY DEF IndexInv, ListInv
<1>2. Tidy(ws, Len(sessions))'
  BY <1>1
<1>3. /\ tab' \in [kind : Surfaces, index : 0 .. Len(sessions')]
      /\ tab'.index = IF tab'.kind = "Session" THEN active' ELSE 0
  BY <1>1 DEF IndexInv
<1> QED
  BY <1>1, <1>2, <1>3, GrowsTo

(* A tile gets a new session as a tab. *)
LEMMA AddTabKeeps ==
  ASSUME IndexInv, NEW p \in Ids, AddTab(p)
  PROVE  IndexInv'
<1>1. Push(FALSE)
  BY DEF AddTab
<1>2. /\ ListInv' /\ Len(sessions) \in Nat /\ Len(sessions') = Len(sessions) + 1
      /\ Tidy(ws, Len(sessions')) /\ Len(sessions') \in Nat
      /\ Len(sessions') >= Len(sessions)
      /\ Len(sessions') \in 1 .. Len(sessions') /\ Len(sessions') \in 0 .. Len(sessions')
  BY <1>1, PushGrows
<1>3. /\ ws' = InsertTab(ws, p, Len(sessions')) /\ focus' = p /\ active' = Len(sessions')
      /\ UNCHANGED <<tab, dragged, attached, sftpPane>> /\ tab.kind = "Workspace"
  BY DEF AddTab, InWorkspace, LeavesPanes, panes
<1>4. Tidy(ws, Len(sessions))'
  BY <1>2, <1>3, InsertTidy DEF Tidy
<1>5. p \in Nat \ {0}
  BY SessionsAssumption DEF Ids
<1>6. /\ tab' \in [kind : Surfaces, index : 0 .. Len(sessions')]
      /\ tab'.index = IF tab'.kind = "Session" THEN active' ELSE 0
  <2>1. tab.index = 0 /\ tab.index \in 0 .. Len(sessions')
    BY <1>2, <1>3 DEF IndexInv
  <2> QED
    BY <1>3, <2>1 DEF IndexInv
<1> QED
  BY <1>2, <1>3, <1>4, <1>5, <1>6, GrowsTo

(* A tile gets a new session beside it. *)
LEMMA SplitPaneKeeps ==
  ASSUME IndexInv, NEW p \in Ids, SplitPane(p)
  PROVE  IndexInv'
<1> DEFINE n == Len(sessions')
<1>1. Push(TRUE) \/ Push(FALSE)
  BY DEF SplitPane
<1>2. /\ ListInv' /\ Len(sessions) \in Nat /\ n = Len(sessions) + 1
      /\ Tidy(ws, n) /\ n \notin All(ws) /\ n \in Nat
      /\ n >= Len(sessions) /\ n \in 1 .. n /\ n \in 0 .. n
  BY <1>1, PushGrows
<1>3. /\ p \in DOMAIN ws /\ ws' = InsertAt(ws, p + 1, Tile(<<n>>, 1))
      /\ focus' = p + 1 /\ active' = n /\ tab' = Surface("Workspace")
      /\ UNCHANGED <<dragged, sftpPane>> /\ ReconcileSftp
  BY DEF SplitPane, Reconcile
<1>4. p \in 1 .. Len(ws) /\ Len(ws) \in Nat
  BY <1>3 DEF IndexInv, Tidy, Loose
<1>5. p + 1 \in 1 .. Len(ws) + 1 /\ p + 1 \in Nat \ {0}
  BY <1>4
<1>6. Tidy(ws, Len(sessions))'
  BY <1>2, <1>3, <1>5, AddTile
<1>7. "Workspace" \in Surfaces \ {"Session"}
  BY DEF Surfaces
<1>8. /\ tab' \in [kind : Surfaces, index : 0 .. n]
      /\ tab'.kind = "Workspace" /\ tab'.index = 0
  BY <1>2, <1>3, <1>7, SurfaceKinds
<1>9. sftpPane' \in BOOLEAN
  BY <1>3 DEF IndexInv
<1> QED
  BY <1>2, <1>3, <1>5, <1>6, <1>8, <1>9, GrowsTo

(* A dragged tab is dropped into a tile or on one of its edges. *)
LEMMA DropKeeps ==
  ASSUME IndexInv, NEW p \in Ids,
         DropInPane(p) \/ \E after \in BOOLEAN : DropOnEdge(p, after)
  PROVE  IndexInv'
<1> DEFINE n == Len(sessions)
<1>1. n \in Nat /\ p \in Nat \ {0} /\ dragged.session \in 1 .. n /\ p \in DOMAIN ws
  BY SessionsAssumption DEF Ids, IndexInv, ListInv, DropInPane, DropOnEdge
<1>2. /\ UNCHANGED <<sessions, opened, tab, active, focus, attached, sftpPane>>
      /\ dragged' = NoDrag
  BY DEF DropInPane, DropOnEdge, LeavesPanes, panes
<1>3. Tidy(ws, n) /\ Loose(ws, n)
  BY DEF IndexInv, Tidy
<1>4. Tidy(ws', n)
  <2>1. ASSUME NEW after \in BOOLEAN, DropOnEdge(p, after) PROVE Tidy(ws', n)
    <3>1. ws' = SplitBeside(ws, p, dragged.session, after)
      BY <2>1 DEF DropOnEdge
    <3> HIDE DEF n
    <3> QED
      BY <1>1, <1>3, <3>1, SplitTidy
  <2>2. ASSUME DropInPane(p) PROVE Tidy(ws', n)
    <3>1. ws' = IF dragged.pane # 0
                THEN MoveTab(ws, dragged.pane, dragged.tab, p, Len(ws[p].tabs) + 1)
                ELSE InsertTab(ws, p, dragged.session)
      BY <2>2 DEF DropInPane
    <3>2. Len(ws[p].tabs) + 1 \in Nat \ {0}
      <4>1. ws[p] \in TileRec
        BY <1>1, <1>3 DEF Loose
      <4>2. ws[p].tabs \in Seq(Nat)
        BY <4>1 DEF TileRec
      <4> QED
        BY <4>2
    <3> HIDE DEF n
    <3> QED
      BY <1>1, <1>3, <3>1, <3>2, MoveTidy, InsertTidy
  <2> QED
    BY <2>1, <2>2
<1> QED
  BY <1>2, <1>4, Retiled DEF IndexInv

(* A tab of a tile is shown and focused. *)
LEMMA FocusKeeps ==
  ASSUME IndexInv, NEW p \in Ids, NEW t \in Ids, FocusTab(p, t)
  PROVE  IndexInv'
<1> DEFINE n == Len(sessions)
           G == [q \in DOMAIN ws |-> q]
<1>1. n \in Nat /\ p \in Nat \ {0} /\ p \in DOMAIN ws /\ t \in DOMAIN ws[p].tabs /\ t \in Nat
  BY SessionsAssumption DEF Ids, IndexInv, ListInv, FocusTab
<1>2. /\ UNCHANGED <<sessions, opened, tab, attached, sftpPane>>
      /\ dragged' = dragged /\ focus' = p /\ active' = ws[p].tabs[t]
      /\ ws' = [ws EXCEPT ![p].shown = t] /\ tab.kind = "Workspace"
  BY DEF FocusTab, InWorkspace, LeavesPanes, panes
<1>3. Tidy(ws, n) /\ Loose(ws, n) /\ ws \in Seq(TileRec)
  BY DEF IndexInv, Tidy, Loose
<1>4. /\ DOMAIN ws' = DOMAIN ws /\ DOMAIN ws = 1 .. Len(ws) /\ Len(ws) \in Nat
      /\ ws' = [q \in 1 .. Len(ws) |-> ws'[q]]
      /\ ws'[p] = [ws[p] EXCEPT !.shown = t]
      /\ \A q \in DOMAIN ws : q # p => ws'[q] = ws[q]
  <2>1. DOMAIN ws = 1 .. Len(ws) /\ Len(ws) \in Nat
    BY <1>3
  <2>2. /\ DOMAIN ws' = DOMAIN ws /\ ws' = [q \in DOMAIN ws |-> ws'[q]]
        /\ ws'[p] = [ws[p] EXCEPT !.shown = t]
        /\ \A q \in DOMAIN ws : q # p => ws'[q] = ws[q]
    BY <1>1, <1>2
  <2> QED
    BY <2>1, <2>2, Zenon
<1>5. ASSUME NEW q \in DOMAIN ws
      PROVE  ws'[q] \in TileRec /\ ws'[q].tabs = ws[q].tabs
             /\ ws'[q].shown \in DOMAIN ws'[q].tabs
  <2>1. ws[q] \in TileRec
    BY <1>3
  <2>2. CASE q = p
    BY <1>1, <1>4, <2>1, <2>2 DEF TileRec
  <2>3. CASE q # p
    BY <1>3, <1>4, <2>1, <2>3 DEF Tidy
  <2> QED
    BY <2>2, <2>3
<1>6. ws' \in Seq(TileRec)
  BY <1>4, <1>5
<1>7. G \in [DOMAIN ws' -> DOMAIN ws] /\ IsInjective(G) /\ \A q \in DOMAIN ws' : G[q] = q
  BY <1>4 DEF IsInjective
<1> HIDE DEF G, n
<1>8. \A q \in DOMAIN ws' : IsInjective(ws'[q].tabs) /\ Tabs(ws'[q]) \subseteq Tabs(ws[G[q]])
  BY <1>3, <1>4, <1>5, <1>7 DEF Loose, Tabs
<1>9. Loose(ws', n)
  BY <1>1, <1>3, <1>6, <1>7, <1>8, Rearranged
<1>10. Tidy(ws', n)
  BY <1>4, <1>5, <1>9 DEF Tidy
<1>11. active' \in 0 .. n
  <2>1. ws[p].tabs[t] \in Tabs(ws[p])
    BY <1>1 DEF Tabs
  <2>2. ws[p].tabs[t] \in 1 .. n
    BY <1>1, <1>3, <2>1 DEF Loose
  <2> QED
    BY <1>1, <1>2, <2>2
<1> QED
  BY <1>1, <1>2, <1>10, <1>11, Retiled DEF n

(* The workspace is closed; its sessions stay. *)
LEMMA CloseWorkspaceKeeps ==
  ASSUME IndexInv, CloseWorkspace
  PROVE  IndexInv'
<1> DEFINE n == Len(sessions)
<1>1. /\ UNCHANGED <<sessions, opened, active, focus, dragged, sftpPane>> /\ ReconcileSftp
      /\ ws' = <<>> /\ tab' = Fallback
  BY DEF CloseWorkspace, Reconcile
<1>2. n \in Nat /\ active \in 0 .. n
  BY DEF IndexInv, ListInv
<1>3. ListInv' /\ Len(sessions') = n /\ n >= n
  BY <1>1, <1>2 DEF IndexInv, ListInv
<1>4. Tidy(ws, Len(sessions))'
  <2>1. Tidy(<<>>, n)
    BY DEF Tidy, Loose
  <2> QED
    BY <1>1, <1>3, <2>1
<1>5. /\ tab' \in [kind : Surfaces, index : 0 .. n]
      /\ tab'.index = IF tab'.kind = "Session" THEN active' ELSE 0
  <2>1. "Vaults" \in Surfaces \ {"Session"}
    BY DEF Surfaces
  <2>2. CASE active = 0
    BY <1>1, <1>2, <2>1, <2>2, SurfaceKinds DEF Fallback
  <2>3. CASE active # 0
    BY <1>1, <1>2, <2>3, SurfaceKinds DEF Fallback
  <2> QED
    BY <2>2, <2>3
<1>6. active' \in 0 .. n /\ focus' \in Nat \ {0} /\ sftpPane' \in BOOLEAN
  BY <1>1 DEF IndexInv
<1> QED
  BY <1>1, <1>3, <1>4, <1>5, <1>6, GrowsTo

(* A pane is told of a change of its session. *)
LEMMA NotifiedKeeps ==
  ASSUME IndexInv, NEW i, PaneNotified(i)
  PROVE  IndexInv'
<1>1. PICK s : /\ sessions' = [sessions EXCEPT ![i].state = s]
               /\ s \in {"Connecting", "Connected", "Ended"}
  <2>1. PICK s \in CASE sessions[i].state = "Connecting" ->
                          {"Connecting", "Connected", "Ended"}
                     [] sessions[i].state = "Connected" -> {"Connected", "Ended"}
                     [] OTHER -> {"Ended"} : sessions' = [sessions EXCEPT ![i].state = s]
    BY DEF PaneNotified
  <2>2. s \in {"Connecting", "Connected", "Ended"}
    BY <2>1
  <2> QED
    BY <2>1, <2>2
<1>2. /\ UNCHANGED <<opened, tab, active, ws, focus, dragged, sftpPane>> /\ ReconcileSftp
      /\ i \in DOMAIN sessions
  BY DEF PaneNotified, Reconcile
<1>3. sessions \in Seq(Session) /\ sessions[i] \in Session
  BY <1>2 DEF IndexInv, ListInv
<1> DEFINE new == [sessions[i] EXCEPT !.state = s]
<1>4. new \in Session
  BY <1>1, <1>3 DEF Session
<1>5. sessions' = [sessions EXCEPT ![i] = new]
  BY <1>1
<1> HIDE DEF new
<1>6. sessions' \in Seq(Session) /\ Len(sessions') = Len(sessions) /\ Len(sessions) \in Nat
  BY <1>2, <1>3, <1>4, <1>5
<1>7. ListInv' /\ Len(sessions') >= Len(sessions)
  BY <1>2, <1>6 DEF IndexInv, ListInv
<1>8. /\ Tidy(ws, Len(sessions))' /\ active' \in 0 .. Len(sessions') /\ focus' \in Nat \ {0}
      /\ tab' \in [kind : Surfaces, index : 0 .. Len(sessions')] /\ sftpPane' \in BOOLEAN
      /\ tab'.index = IF tab'.kind = "Session" THEN active' ELSE 0
  BY <1>2, <1>6 DEF IndexInv
<1> QED
  BY <1>2, <1>7, <1>8, GrowsTo

(* Every step keeps every index the window holds an index of the list. *)
LEMMA IndexStep == IndexInv /\ [Next]_vars => IndexInv'
<1> SUFFICES ASSUME IndexInv, [Next]_vars
             PROVE  IndexInv'
  OBVIOUS
<1>0. /\ active \in 0 .. Len(sessions) /\ focus \in Nat \ {0} /\ sftpPane \in BOOLEAN
      /\ tab \in [kind : Surfaces, index : 0 .. Len(sessions)]
      /\ tab.index = (IF tab.kind = "Session" THEN active ELSE 0) /\ Len(sessions) \in Nat
  BY DEF IndexInv, ListInv
<1>1. CASE OpenSession \/ DragTab \/ CloseWorkspace \/ Select
  BY <1>1, OpenKeeps, DragKeeps, CloseWorkspaceKeeps, SelectKeeps
<1>2. CASE CancelDrag \/ UNCHANGED vars \/ \E p \in Ids : ClosePane(p)
  <2>1. /\ UNCHANGED <<sessions, opened, tab, active, ws, focus, attached, sftpPane>>
        /\ dragged' = dragged \/ dragged' = NoDrag
    BY <1>2 DEF CancelDrag, ClosePane, LeavesPanes, panes, vars, layout
  <2> QED
    BY <1>0, <2>1, SameTiling
<1>3. CASE NewTab \/ \E b \in BOOLEAN : SelectNav(b)
  <2>1. /\ UNCHANGED <<sessions, opened, active, ws, focus, dragged, attached, sftpPane>>
        /\ tab' = Surface("NewTab") \/ tab' = Surface("Vaults")
    BY <1>3 DEF NewTab, SelectNav, LeavesPanes, panes
  <2>2. {"NewTab", "Vaults"} \subseteq Surfaces \ {"Session"}
    BY DEF Surfaces
  <2>3. /\ tab' \in [kind : Surfaces, index : 0 .. Len(sessions)]
        /\ tab'.kind # "Session" /\ tab'.index = 0
    BY <1>0, <2>1, <2>2, SurfaceKinds
  <2> QED
    BY <1>0, <2>1, <2>3, SameTiling
<1>4. CASE ToggleOverlay
  <2>1. UNCHANGED <<sessions, opened, tab, active, ws, focus, dragged, sftpPane>> /\ ReconcileSftp
    BY <1>4 DEF ToggleOverlay, layout
  <2> QED
    BY <1>0, <2>1, SameTiling
<1>5. CASE \E b \in BOOLEAN : DropOnSession(b)
  BY <1>5, DropOnSessionKeeps
<1>6. CASE \E i \in Ids : TileSideBySide(i) \/ CloseSession(i) \/ PaneNotified(i)
  BY <1>6, TileSideBySideKeeps, CloseAtKeepsIndexes, NotifiedKeeps DEF CloseSession
<1>7. CASE \E p \in Ids : \/ AddTab(p) \/ SplitPane(p) \/ DropInPane(p)
                          \/ \E b \in BOOLEAN : DropOnEdge(p, b)
                          \/ \E t \in Ids : FocusTab(p, t)
  BY <1>7, AddTabKeeps, SplitPaneKeeps, DropKeeps, FocusKeeps
<1>8. ASSUME NEW a \in attempts, NEW ok \in BOOLEAN, OpenAnswered(a, ok)
      PROVE  IndexInv'
  <2>1. /\ UNCHANGED <<sessions, opened, tab, active, ws, focus, dragged, sftpPane>>
        /\ attached' = 0 \/ attached' = attached
    BY <1>8 DEF OpenAnswered, layout
  <2>2. 0 \in 0 .. Len(sessions)
    BY <1>0
  <2> QED
    BY <1>0, <2>1, <2>2 DEF IndexInv, ListInv
<1>9. CASE CloseNext
  BY <1>9, CloseAtKeepsIndexes DEF CloseNext
<1> QED
  BY <1>1, <1>2, <1>3, <1>4, <1>5, <1>6, <1>7, <1>8, <1>9 DEF Next, UserStep, Report

(* The window begins so. *)
LEMMA IndexBegins == Init => IndexInv
<1> SUFFICES ASSUME Init PROVE IndexInv
  OBVIOUS
<1>1. sessions = <<>> /\ Len(sessions) = 0 /\ ws = <<>> /\ opened = 0
  BY DEF Init
<1>2. Tidy(ws, Len(sessions)) /\ ListInv
  BY <1>1 DEF Tidy, Loose, ListInv
<1>3. tab \in [kind : Surfaces, index : 0 .. 0] /\ tab.kind = "Vaults" /\ tab.index = 0
  BY DEF Init, Surface, Surfaces
<1>4. /\ active = 0 /\ focus = 1 /\ attached = 0 /\ sftpPane = FALSE /\ 0 \in 0 .. 0
      /\ dragged = [session |-> 0, pane |-> 0, tab |-> 0]
  BY DEF Init, NoDrag
<1>5. dragged \in [session : 0 .. 0, pane : Nat, tab : Nat] /\ focus \in Nat \ {0}
  BY <1>4
<1> QED
  BY <1>1, <1>2, <1>3, <1>4, <1>5 DEF IndexInv

(* Whatever the order of opening, dragging, splitting and closing, every index *)
(* the window keeps names an open session, each tile shows a tab it has, and no *)
(* session is tiled twice. *)
THEOREM IndexesAlwaysLive == Spec => []IndexesLive
<1>1. IndexInv => IndexesLive
  <2> SUFFICES ASSUME IndexInv PROVE IndexesLive
    OBVIOUS
  <2>1. Len(sessions) \in Nat /\ DOMAIN sessions = 1 .. Len(sessions)
    BY DEF IndexInv, ListInv
  <2>2. Loose(ws, Len(sessions)) /\ \A p \in DOMAIN ws : ws[p].shown \in DOMAIN ws[p].tabs
    BY DEF IndexInv, Tidy
  <2>3. Tiled \subseteq DOMAIN sessions
    BY <2>1, <2>2, LeavesOf DEF Tiled
  <2>4. Len(Leaves(ws)) = Cardinality(Tiled)
    BY <2>1, <2>2, LeavesCounted DEF Tiled
  <2>5. \A i \in {active, dragged.session, attached, tab.index} :
          i # 0 => i \in DOMAIN sessions
    BY <2>1 DEF IndexInv
  <2>6. tab.kind = "Session" => tab.index = active
    BY DEF IndexInv
  <2> QED
    BY <2>2, <2>3, <2>4, <2>5, <2>6 DEF IndexesLive
<1> QED
  BY <1>1, IndexBegins, IndexStep, PTL DEF Spec

------------------------------------------------------------------------------
(* Closing sessions takes no other session's tile *)

\* The identities of the sessions, at any length of the list.
IdentityInv ==
  /\ IndexInv
  /\ \A j \in DOMAIN sessions : sessions[j].id <= opened
  /\ \A j \in DOMAIN sessions : \A k \in DOMAIN sessions :
       sessions[j].id = sessions[k].id => j = k

\* The sessions stay who they are.
SameIds ==
  /\ opened' = opened /\ DOMAIN sessions' = DOMAIN sessions
  /\ \A j \in DOMAIN sessions : sessions'[j].id = sessions[j].id

(* What a step may do to the list. *)
LEMMA ListSteps ==
  ASSUME ListInv, [Next]_vars
  PROVE  \/ SameIds
         \/ \E remote \in BOOLEAN : Push(remote)
         \/ \E i \in DOMAIN sessions : CloseAt(i)
<1>1. UNCHANGED <<sessions, opened>> => SameIds
  BY DEF SameIds
<1>2. CASE OpenSession
  BY <1>2 DEF OpenSession
<1>3. CASE \/ DragTab \/ CancelDrag \/ CloseWorkspace \/ Select \/ NewTab \/ ToggleOverlay
           \/ UNCHANGED vars \/ \E b \in BOOLEAN : SelectNav(b)
           \/ \E p \in Ids : ClosePane(p)
  BY <1>1, <1>3 DEF DragTab, CancelDrag, CloseWorkspace, Select, NewTab, ToggleOverlay, SelectNav,
                    ClosePane, layout, vars
<1>4. CASE \E b \in BOOLEAN : DropOnSession(b)
  BY <1>1, <1>4 DEF DropOnSession
<1>5. CASE \E i \in Ids : TileSideBySide(i)
  BY <1>1, <1>5 DEF TileSideBySide
<1>6. CASE \E i \in Ids : CloseSession(i)
  BY <1>6 DEF CloseSession
<1>7. CASE \E p \in Ids : \/ DropInPane(p) \/ \E b \in BOOLEAN : DropOnEdge(p, b)
                          \/ \E t \in Ids : FocusTab(p, t)
  BY <1>1, <1>7 DEF DropInPane, DropOnEdge, FocusTab
<1>8. CASE \E p \in Ids : AddTab(p) \/ SplitPane(p)
  BY <1>8 DEF AddTab, SplitPane
<1>9. CASE \E i \in Ids : PaneNotified(i)
  <2>1. PICK i \in Ids : PaneNotified(i)
    BY <1>9
  <2>2. PICK s : sessions' = [sessions EXCEPT ![i].state = s]
    BY <2>1 DEF PaneNotified
  <2>3. opened' = opened /\ i \in DOMAIN sessions
    BY <2>1 DEF PaneNotified
  <2>4. ASSUME NEW j \in DOMAIN sessions PROVE sessions'[j].id = sessions[j].id
    <3>1. sessions[j] \in Session
      BY DEF ListInv
    <3>2. sessions'[j] = IF j = i THEN [sessions[j] EXCEPT !.state = s] ELSE sessions[j]
      BY <2>2
    <3> QED
      BY <3>1, <3>2 DEF Session
  <2> QED
    BY <2>2, <2>3, <2>4 DEF SameIds
<1>10. CASE \E a \in attempts : \E ok \in BOOLEAN : OpenAnswered(a, ok)
  BY <1>1, <1>10 DEF OpenAnswered, layout
<1>11. CASE CloseNext
  <2>1. CloseAt(Last(closing).index)
    BY <1>11 DEF CloseNext
  <2>2. CASE Last(closing).index \in DOMAIN sessions
    BY <2>1, <2>2
  <2>3. CASE Last(closing).index \notin DOMAIN sessions
    BY <1>1, <2>1, <2>3 DEF CloseAt
  <2> QED
    BY <2>2, <2>3
<1> QED
  BY <1>2, <1>3, <1>4, <1>5, <1>6, <1>7, <1>8, <1>9, <1>10, <1>11 DEF Next, UserStep, Report

(* Every step keeps the sessions' identities apart. *)
LEMMA IdentityStep == IdentityInv /\ [Next]_vars => IdentityInv'
<1> SUFFICES ASSUME IdentityInv, [Next]_vars
             PROVE  IdentityInv'
  OBVIOUS
<1>0. ListInv /\ IndexInv' /\ sessions \in Seq(Session) /\ opened \in Nat
  BY IndexStep DEF IdentityInv, IndexInv, ListInv
<1>1. CASE SameIds
  BY <1>0, <1>1 DEF SameIds, IdentityInv
<1>2. ASSUME NEW remote \in BOOLEAN, Push(remote) PROVE IdentityInv'
  <2> DEFINE new == [id |-> opened + 1, remote |-> remote,
                     state |-> IF remote THEN "Connecting" ELSE "Connected"]
  <2>1. new \in Session /\ new.id = opened + 1
    BY <1>0 DEF Session
  <2>2. sessions' = Append(sessions, new) /\ opened' = opened + 1
    BY <1>2 DEF Push
  <2> HIDE DEF new
  <2>3. /\ Len(sessions) \in Nat /\ DOMAIN sessions = 1 .. Len(sessions)
        /\ DOMAIN sessions' = 1 .. Len(sessions) + 1
        /\ sessions'[Len(sessions) + 1] = new
        /\ \A j \in 1 .. Len(sessions) : sessions'[j] = sessions[j]
    BY <1>0, <2>1, <2>2, AppendProperties
  <2>4. \A j \in DOMAIN sessions : sessions[j].id \in Nat
    <3>1. \A j \in DOMAIN sessions : sessions[j] \in Session
      BY <1>0
    <3> QED
      BY <3>1 DEF Session
  <2>5. \A j \in DOMAIN sessions' : \/ j = Len(sessions) + 1 /\ sessions'[j].id = opened + 1
                                    \/ /\ j \in DOMAIN sessions
                                       /\ sessions'[j].id = sessions[j].id
                                       /\ sessions'[j].id < opened + 1
    BY <1>0, <2>1, <2>3, <2>4 DEF IdentityInv
  <2>6. \A j \in DOMAIN sessions' : sessions'[j].id <= opened'
    BY <1>0, <2>2, <2>4, <2>5
  <2>7. \A j \in DOMAIN sessions' : \A k \in DOMAIN sessions' :
          sessions'[j].id = sessions'[k].id => j = k
    BY <1>0, <2>5, <2>4 DEF IdentityInv
  <2> QED
    BY <1>0, <2>6, <2>7 DEF IdentityInv
<1>3. ASSUME NEW i \in DOMAIN sessions, CloseAt(i) PROVE IdentityInv'
  <2>1. sessions' = RemoveAt(sessions, i) /\ opened' = opened
    BY <1>3 DEF CloseAt
  <2>2. \A p \in DOMAIN sessions' : /\ Up(p, i) \in DOMAIN sessions
                                    /\ sessions'[p] = sessions[Up(p, i)]
    BY <1>0, <2>1, RemovedAt
  <2>3. \A p \in DOMAIN sessions' : \A q \in DOMAIN sessions' : Up(p, i) = Up(q, i) => p = q
    BY <1>0, <2>1, RemovedAt DEF Up
  <2> QED
    BY <1>0, <2>1, <2>2, <2>3 DEF IdentityInv
<1> QED
  BY <1>0, <1>1, <1>2, <1>3, ListSteps

(* Closing the session i: what is left of the tiling is what was not i's, in *)
(* its order.                                                               *)
LEMMA CloseKeepsTiles ==
  ASSUME IdentityInv, IndexInv', NEW i \in DOMAIN sessions, CloseAt(i)
  PROVE  TiledIds' = Kept(TiledIds, OpenIds')
<1> DEFINE n == Len(sessions)
           L == Leaves(ws)
           M == Leaves(ws')
           s == TiledIds
           t == TiledIds'
           S == OpenIds'
           g == [k \in 1 .. Len(M) |-> CHOOSE m \in 1 .. Len(L) : L[m] = Up(M[k], i)]
<1>1. /\ sessions \in Seq(Session) /\ n \in Nat /\ DOMAIN sessions = 1 .. n /\ i \in 1 .. n
      /\ Loose(ws, n)
  BY DEF IdentityInv, IndexInv, ListInv, Tidy
<1>2. /\ sessions' = RemoveAt(sessions, i) /\ ws' = RemoveSession(ws, i)
  BY DEF CloseAt
<1>3. /\ sessions' \in Seq(Session) /\ Len(sessions') = n - 1 /\ DOMAIN sessions' = 1 .. n - 1
      /\ \A p \in 1 .. n - 1 : /\ Up(p, i) \in 1 .. n /\ Up(p, i) # i
                               /\ sessions'[p] = sessions[Up(p, i)]
  BY <1>1, <1>2, RemovedAt
<1>4. Loose(ws', n - 1) /\ n - 1 \in Nat
  BY <1>1, <1>3 DEF IndexInv, Tidy
<1>5. /\ Len(L) \in Nat /\ DOMAIN L = 1 .. Len(L) /\ IsInjective(L)
      /\ \A k \in 1 .. Len(L) : L[k] \in 1 .. n /\ L[k] \in All(ws)
      /\ \A x \in All(ws) : \E k \in 1 .. Len(L) : L[k] = x
      /\ \A j \in 1 .. Len(L) : \A k \in 1 .. Len(L) : j < k <=> Ahead(ws, L[j], L[k])
  BY <1>1, LeavesOf, LeavesAhead
<1>6. /\ Len(M) \in Nat /\ DOMAIN M = 1 .. Len(M)
      /\ \A k \in 1 .. Len(M) : M[k] \in 1 .. n - 1 /\ M[k] \in All(ws')
      /\ \A x \in All(ws') : \E k \in 1 .. Len(M) : M[k] = x
      /\ \A j \in 1 .. Len(M) : \A k \in 1 .. Len(M) : j < k => Ahead(ws', M[j], M[k])
  BY <1>4, LeavesOf, LeavesAhead
<1>7. /\ \A x \in All(ws') : Up(x, i) \in All(ws)
      /\ \A y \in All(ws) : y # i => \E x \in All(ws') : y = Up(x, i)
      /\ \A x : \A y : Ahead(ws', x, y) => Ahead(ws, Up(x, i), Up(y, i))
  BY <1>1, <1>2, RemoveAhead
<1>8. s = [k \in 1 .. Len(L) |-> sessions[L[k]].id]
  BY <1>5 DEF TiledIds
<1>9. t = [k \in 1 .. Len(M) |-> sessions'[M[k]].id]
  BY <1>6 DEF TiledIds
<1>10. S = {sessions'[p].id : p \in 1 .. n - 1}
  BY <1>3 DEF OpenIds
<1> HIDE DEF L, M, s, t, S, n
<1>11. ASSUME NEW k \in 1 .. Len(M) PROVE g[k] \in 1 .. Len(L) /\ L[g[k]] = Up(M[k], i)
  <2>1. Up(M[k], i) \in All(ws)
    BY <1>6, <1>7
  <2>2. \E m \in 1 .. Len(L) : L[m] = Up(M[k], i)
    BY <1>5, <2>1
  <2> QED
    BY <2>2
<1> HIDE DEF g
<1>12. ASSUME NEW k \in 1 .. Len(M) PROVE s[g[k]] \in S /\ t[k] = s[g[k]]
  <2>1. t[k] = sessions'[M[k]].id /\ M[k] \in 1 .. n - 1
    BY <1>6, <1>9
  <2>2. sessions'[M[k]] = sessions[L[g[k]]]
    BY <1>3, <1>11, <2>1
  <2>3. s[g[k]] = sessions[L[g[k]]].id
    BY <1>8, <1>11
  <2> QED
    BY <1>10, <2>1, <2>2, <2>3
<1>13. ASSUME NEW j \in 1 .. Len(M), NEW k \in 1 .. Len(M), j < k PROVE g[j] < g[k]
  <2>1. Ahead(ws, Up(M[j], i), Up(M[k], i))
    BY <1>6, <1>7, <1>13
  <2> QED
    BY <1>5, <1>11, <2>1
<1>14. ASSUME NEW m \in 1 .. Len(L), s[m] \in S PROVE \E k \in 1 .. Len(M) : g[k] = m
  <2>1. PICK p \in 1 .. n - 1 : s[m] = sessions'[p].id
    BY <1>10, <1>14
  <2>2. s[m] = sessions[Up(p, i)].id /\ s[m] = sessions[L[m]].id
    BY <1>3, <1>8, <2>1
  <2>3. L[m] = Up(p, i) /\ L[m] # i
    <3>1. L[m] \in DOMAIN sessions /\ Up(p, i) \in DOMAIN sessions /\ Up(p, i) # i
      BY <1>1, <1>3, <1>5
    <3>2. L[m] = Up(p, i)
      BY <2>2, <3>1, Zenon DEF IdentityInv
    <3> QED
      BY <3>1, <3>2
  <2>4. PICK x \in All(ws') : L[m] = Up(x, i)
    BY <1>5, <1>7, <2>3
  <2>5. PICK k \in 1 .. Len(M) : M[k] = x
    BY <1>6
  <2>6. g[k] \in 1 .. Len(L) /\ L[g[k]] = L[m]
    BY <1>11, <2>4, <2>5
  <2> QED
    BY <1>5, <2>6 DEF IsInjective
<1>15. Len(s) = Len(L) /\ Len(t) = Len(M)
  BY <1>5, <1>6, <1>8, <1>9
<1>16. t \in Seq({s[m] : m \in 1 .. Len(s)})
  <2>1. \A k \in 1 .. Len(M) : t[k] \in {s[m] : m \in 1 .. Len(s)}
    BY <1>11, <1>12, <1>15
  <2>2. t = [k \in 1 .. Len(M) |-> t[k]]
    BY <1>9
  <2> QED
    BY <1>6, <2>1, <2>2
<1>17. g \in [1 .. Len(M) -> 1 .. Len(L)]
  BY <1>11 DEF g
<1>18. Places(g, Len(s), s, S, t)
  BY <1>12, <1>13, <1>14, <1>15, <1>16, <1>17 DEF Places
<1>19. t = Kept(s, S)
  BY <1>5, <1>15, <1>18, KeptUnique
<1> QED
  BY <1>19 DEF s, t, S

(* Closing sessions takes their own tiles away and no other: each tile left *)
(* shows the session it showed, in the order it had, for any number of      *)
(* sessions and tiles.                                                      *)
THEOREM TilesAlwaysKeepTheirSessions == Spec => TilesKeepTheirSessions
<1> DEFINE Step == OpenIds' \subseteq OpenIds /\ OpenIds' # OpenIds
                     => TiledIds' = Kept(TiledIds, OpenIds')
<1>1. Init => IdentityInv
  <2>1. Init => DOMAIN sessions = {}
    BY DEF Init
  <2> QED
    BY <2>1, IndexBegins DEF IdentityInv
<1>2. IdentityInv /\ [Next]_vars => [Step]_vars
  <2> SUFFICES ASSUME IdentityInv, [Next]_vars, OpenIds' \subseteq OpenIds, OpenIds' # OpenIds
               PROVE  TiledIds' = Kept(TiledIds, OpenIds')
    OBVIOUS
  <2>0. ListInv /\ IndexInv' /\ sessions \in Seq(Session) /\ opened \in Nat
    BY IndexStep DEF IdentityInv, IndexInv, ListInv
  <2>1. CASE SameIds
    <3>1. OpenIds' = OpenIds
      BY <2>1 DEF SameIds, OpenIds
    <3> QED
      BY <3>1
  <2>2. ASSUME NEW remote \in BOOLEAN, Push(remote) PROVE FALSE
    <3> DEFINE new == [id |-> opened + 1, remote |-> remote,
                       state |-> IF remote THEN "Connecting" ELSE "Connected"]
    <3>1. new \in Session /\ new.id = opened + 1
      BY <2>0 DEF Session
    <3>2. sessions' = Append(sessions, new)
      BY <2>2 DEF Push
    <3> HIDE DEF new
    <3>3. /\ Len(sessions) + 1 \in DOMAIN sessions'
          /\ sessions'[Len(sessions) + 1] = new
      BY <2>0, <3>1, <3>2, AppendProperties
    <3>4. opened + 1 \in OpenIds
      BY <3>1, <3>3 DEF OpenIds
    <3> QED
      BY <2>0, <3>4 DEF OpenIds, IdentityInv
  <2> QED
    BY <2>0, <2>1, <2>2, ListSteps, CloseKeepsTiles
<1> HIDE DEF Step
<1>3. Spec => [][Step]_vars
  BY <1>1, <1>2, IdentityStep, PTL DEF Spec
<1> QED
  BY <1>3 DEF Step, TilesKeepTheirSessions
==============================================================================
