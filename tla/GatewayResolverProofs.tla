----------------------- MODULE GatewayResolverProofs ------------------------
(***************************************************************************)
(* What the two nested loops of the gateway resolver compute, for every    *)
(* dump and every way recv() cuts it into batches: the gateway of the last *)
(* fitting default route before the dump's end.                            *)
(***************************************************************************)
EXTENDS GatewayResolver, WellFoundedInduction, TLAPS

\* A set of naturals that is bounded has a largest element.
LEMMA LargestExists ==
    ASSUME NEW n \in Nat, NEW T, T \subseteq 0 .. n, T # {}
    PROVE  \E m \in T : \A k \in T : k <= m
<1> DEFINE U == {n - k : k \in T}
<1>1. U \subseteq Nat
  OBVIOUS
<1>2. U # {}
  OBVIOUS
<1> HIDE DEF U
<1>3. PICK u \in U : \A v \in U : <<v, u>> \notin OpToRel(<, Nat)
  BY <1>1, <1>2, WFMin, NatLessThanWellFounded, Zenon
<1>4. \A v \in U : ~(v < u)
  BY <1>1, <1>3, Zenon DEF OpToRel
<1>5. PICK m \in T : u = n - m
  BY DEF U
<1>6. ASSUME NEW k \in T
      PROVE  k <= m
  <2>1. n - k \in U
    BY DEF U
  <2>2. k \in Int /\ m \in Int /\ n \in Int
    OBVIOUS
  <2> QED  BY <1>4, <1>5, <2>1, <2>2
<1> QED  BY <1>6

\* LastFound is the last result that is not NoGateway, if there is one.
LEMMA LastFoundIsLast ==
    ASSUME NEW n \in Nat, NEW results, DOMAIN results \subseteq 1 .. n
    PROVE  \/ /\ LastFound(results) = NoGateway
              /\ \A k \in DOMAIN results : results[k] = NoGateway
           \/ \E k \in DOMAIN results :
                 /\ results[k] = LastFound(results)
                 /\ results[k] # NoGateway
                 /\ \A l \in DOMAIN results : l > k => results[l] = NoGateway
<1> DEFINE found == {k \in DOMAIN results : results[k] # NoGateway}
<1>1. CASE found = {}
  BY <1>1 DEF LastFound
<1>2. CASE found # {}
  <2> DEFINE k == CHOOSE m \in found : \A l \in found : l <= m
  <2>1. k \in found /\ \A l \in found : l <= k
    <3>1. found \subseteq 0 .. n
      OBVIOUS
    <3>2. \E m \in found : \A l \in found : l <= m
      <4> HIDE DEF found
      <4> QED  BY <1>2, <3>1, LargestExists
    <3> QED  BY <3>2
  <2>2. LastFound(results) = results[k]
    BY <1>2 DEF LastFound
  <2>3. ASSUME NEW l \in DOMAIN results, l > k
        PROVE  results[l] = NoGateway
    <3>1. l \in 1 .. n /\ k \in 1 .. n
      BY <2>1
    <3>2. ~(l <= k)
      BY <2>3, <3>1
    <3> QED  BY <2>1, <2>3, <3>2
  <2> HIDE DEF k
  <2> QED  BY <2>1, <2>2, <2>3
<1> QED  BY <1>1, <1>2

\* Message l of batch k is looked at: nothing up to it ends the dump.
Reads(batches, k, l) ==
    /\ k \in DOMAIN batches
    /\ l \in DOMAIN batches[k]
    /\ \A m \in 1 .. k - 1 : ~done(batches[m])
    /\ \A m \in 1 .. l : ~EndsDump(batches[k][m])

Later(k, l, m, j) == m > k \/ (m = k /\ j > l)

\* scanBatch, for a batch of any messages.
LEMMA ScanBatchIsLast ==
    ASSUME NEW M, NEW batch \in Seq(M), NEW family, NEW ifindex
    PROVE  LET result == scanBatch(family, ifindex, batch)
               Scans(l) == /\ l \in DOMAIN batch
                           /\ \A m \in 1 .. l : ~EndsDump(batch[m])
           IN  \/ /\ result = NoGateway
                  /\ \A l : Scans(l) =>
                        GatewayIn(family, ifindex, batch[l]) = NoGateway
               \/ \E l : /\ Scans(l)
                         /\ GatewayIn(family, ifindex, batch[l]) = result
                         /\ result # NoGateway
                         /\ \A j : Scans(j) /\ j > l =>
                               GatewayIn(family, ifindex, batch[j]) = NoGateway
<1> DEFINE scanned == {l \in DOMAIN batch :
                          \A m \in 1 .. l : ~EndsDump(batch[m])}
           results == [l \in scanned |-> GatewayIn(family, ifindex, batch[l])]
<1>1. scanBatch(family, ifindex, batch) = LastFound(results)
  BY DEF scanBatch
<1>2. DOMAIN results = scanned /\ scanned \subseteq 1 .. Len(batch)
  OBVIOUS
<1>3. Len(batch) \in Nat
  OBVIOUS
<1>4. \A l \in scanned : results[l] = GatewayIn(family, ifindex, batch[l])
  OBVIOUS
<1>5. \A l : l \in scanned <=>
               /\ l \in DOMAIN batch
               /\ \A m \in 1 .. l : ~EndsDump(batch[m])
  OBVIOUS
<1> HIDE DEF scanned, results
<1>6. \/ /\ LastFound(results) = NoGateway
         /\ \A k \in scanned : results[k] = NoGateway
      \/ \E k \in scanned :
            /\ results[k] = LastFound(results)
            /\ results[k] # NoGateway
            /\ \A l \in scanned : l > k => results[l] = NoGateway
  BY <1>2, <1>3, LastFoundIsLast
<1> QED  BY <1>1, <1>4, <1>5, <1>6, Zenon

\* The gateway resolveGateway() returns is that of the last default route over
\* the interface that the dump shows before its end, wherever the batches are
\* cut; no such route, no gateway (drain, scanBatch).
THEOREM DrainFindsLastDefaultRoute ==
    ASSUME NEW M, NEW batches \in Seq(Seq(M)), NEW family, NEW ifindex
    PROVE  LET result == drain(family, ifindex, batches)
               Found(k, l) == GatewayIn(family, ifindex, batches[k][l])
           IN  \/ /\ result = NoGateway
                  /\ \A k, l : Reads(batches, k, l) => Found(k, l) = NoGateway
               \/ \E k, l :
                     /\ Reads(batches, k, l)
                     /\ Found(k, l) = result
                     /\ result # NoGateway
                     /\ \A m, j : Reads(batches, m, j) /\ Later(k, l, m, j) =>
                           Found(m, j) = NoGateway
<1> DEFINE received == {k \in DOMAIN batches :
                           \A m \in 1 .. k - 1 : ~done(batches[m])}
           Scan(k) == scanBatch(family, ifindex, batches[k])
           results == [k \in received |-> Scan(k)]
           Found(k, l) == GatewayIn(family, ifindex, batches[k][l])
<1>1. drain(family, ifindex, batches) = LastFound(results)
  BY DEF drain
<1>2. /\ DOMAIN results = received
      /\ received \subseteq 1 .. Len(batches)
      /\ Len(batches) \in Nat
      /\ \A k \in received : results[k] = Scan(k)
      /\ \A k \in received : batches[k] \in Seq(M)
  OBVIOUS
<1>3. \A k, l : Reads(batches, k, l) <=>
                  /\ k \in received
                  /\ l \in DOMAIN batches[k]
                  /\ \A m \in 1 .. l : ~EndsDump(batches[k][m])
  BY DEF Reads
<1>4. ASSUME NEW k \in received
      PROVE  \/ /\ Scan(k) = NoGateway
                /\ \A l : Reads(batches, k, l) => Found(k, l) = NoGateway
             \/ \E l : /\ Reads(batches, k, l)
                       /\ Found(k, l) = Scan(k)
                       /\ Scan(k) # NoGateway
                       /\ \A j : Reads(batches, k, j) /\ j > l =>
                             Found(k, j) = NoGateway
  <2> DEFINE batch == batches[k]
             Scans(l) == /\ l \in DOMAIN batch
                         /\ \A m \in 1 .. l : ~EndsDump(batch[m])
  <2>1. \/ /\ Scan(k) = NoGateway
           /\ \A l : Scans(l) => Found(k, l) = NoGateway
        \/ \E l : /\ Scans(l)
                  /\ Found(k, l) = Scan(k)
                  /\ Scan(k) # NoGateway
                  /\ \A j : Scans(j) /\ j > l => Found(k, j) = NoGateway
    <3>1. batch \in Seq(M)
      BY <1>2
    <3> QED  BY <3>1, ScanBatchIsLast, Zenon
  <2>2. \A l : Scans(l) <=> Reads(batches, k, l)
    BY <1>3
  <2> HIDE DEF Scans, Scan, Found
  <2> QED  BY <2>1, <2>2, Zenon
<1> HIDE DEF received, Scan, results, Found
<1>5. CASE /\ LastFound(results) = NoGateway
           /\ \A k \in received : results[k] = NoGateway
  <2>1. \A k, l : Reads(batches, k, l) => Found(k, l) = NoGateway
    BY <1>2, <1>3, <1>4, <1>5
  <2> QED  BY <1>1, <1>5, <2>1 DEF Found
<1>6. CASE \E k \in received :
              /\ results[k] = LastFound(results)
              /\ results[k] # NoGateway
              /\ \A m \in received : m > k => results[m] = NoGateway
  <2>1. PICK k \in received :
            /\ results[k] = LastFound(results)
            /\ results[k] # NoGateway
            /\ \A m \in received : m > k => results[m] = NoGateway
    BY <1>6
  <2>2. PICK l : /\ Reads(batches, k, l)
                 /\ Found(k, l) = Scan(k)
                 /\ \A j : Reads(batches, k, j) /\ j > l =>
                       Found(k, j) = NoGateway
    BY <1>2, <1>4, <2>1
  <2>3. ASSUME NEW m, NEW j, Reads(batches, m, j), Later(k, l, m, j)
        PROVE  Found(m, j) = NoGateway
    <3>1. m \in received
      BY <1>3, <2>3
    <3>2. CASE m > k
      BY <1>2, <1>4, <2>1, <2>3, <3>1, <3>2
    <3>3. CASE m = k /\ j > l
      BY <2>2, <2>3, <3>3
    <3> QED  BY <2>3, <3>2, <3>3 DEF Later
  <2>4. Found(k, l) = drain(family, ifindex, batches) /\ Found(k, l) # NoGateway
    BY <1>1, <1>2, <2>1, <2>2
  <2> QED  BY <2>2, <2>3, <2>4 DEF Found
<1>7. \/ /\ LastFound(results) = NoGateway
         /\ \A k \in received : results[k] = NoGateway
      \/ \E k \in received :
            /\ results[k] = LastFound(results)
            /\ results[k] # NoGateway
            /\ \A m \in received : m > k => results[m] = NoGateway
  BY <1>2, LastFoundIsLast
<1> QED  BY <1>5, <1>6, <1>7
=============================================================================
