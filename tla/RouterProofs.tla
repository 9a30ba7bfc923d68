---------------------------- MODULE RouterProofs ----------------------------
(***************************************************************************)
(* Proofs about the two halves of the router protocol: how packets are     *)
(* framed (RouterDecode), and where their messages go (Routing).           *)
(*                                                                         *)
(* RouterDecode frames packets as the peer does, for any number of         *)
(* packets, lengths of headers, bodies and TLS records, and any sizes of   *)
(* reads.  The inductive invariant says that what nobody has read          *)
(* continues the stream where the decoder is: the bytes in the TLS layer   *)
(* and those in the kernel lead from there to the byte the peer sends      *)
(* next.                                                                   *)
(*                                                                         *)
(* Routing calls the right router, for every number of IDs, routers,       *)
(* middlewares, goroutines, groups and calls.  The inductive invariant     *)
(* relates the maps to the calls that filled them, and the place of a      *)
(* message in its pipeline to the middlewares of its ID.                   *)
(***************************************************************************)
EXTENDS RouterDecode, Routing, SequenceTheorems, WellFoundedInduction, TLAPS

-----------------------------------------------------------------------------
(* Packets: the invariant.                                                 *)

\* Where in the stream something is: before a byte of a packet.
Places == [pkt : 1..MaxPacket + 1, at : 1..HeadLen + MaxBody]

\* Bodies have the lengths b; if w holds, headers may be cut.
Bodies == [Packets -> 0..MaxBody]

\* A record may end here.
Whole(w, p) == w \/ p.at = 1 \/ p.at > HeadLen

\* q is n bytes beyond p, as far as the packet of p goes.
Beyond(b, p, n, q) ==
  LET left == HeadLen + b[p.pkt] - p.at IN
  /\ n <= left => q = Byte(p.pkt, p.at + n)
  /\ n = left + 1 => q = Byte(p.pkt + 1, 1)

\* No record ends between the bytes i and j.
NoTag(s, i, j) == \A k \in i..j : s[k] # Tag

\* The bytes of s are those of the stream: f[i] is where s[i] is.
Walk(b, w, s, f) ==
  /\ \A i \in 1..Len(s) : s[i] = Tag => f[i + 1] = f[i] /\ Whole(w, f[i])
  /\ \A i \in 1..Len(s) : s[i] # Tag => s[i] = f[i]
  /\ \A i \in 1..Len(s), j \in 2..Len(s) + 1 :
       i < j /\ NoTag(s, i, j - 1) => Beyond(b, f[i], j - i, f[j])

\* s leads from p to q.
Leads(b, w, s, p, q) ==
  \E f \in [1..Len(s) + 1 -> Places] : Walk(b, w, s, f) /\ f[1] = p /\ f[Len(s) + 1] = q

\* Where the decoder is.
At ==
  IF packDataLength > 0 THEN Byte(header, HeadLen + Len(readBuffer) + 1) ELSE Byte(handled + 1, 1)

\* What nobody has read leads from p to the peer; between records, the TLS
\* layer is not in a header.
Continues(p) ==
  \E q, r \in Places :
    /\ Leads(bodies, splits, input, p, q) /\ Leads(bodies, splits, rawInput, q, r)
    /\ Leads(bodies, splits, inbound, r, peer)
    /\ mode = "tls" => Whole(splits, q)

PeerInv ==
  /\ peer.pkt \in Packets => peer.at <= Size(peer.pkt)
  /\ peer.pkt = MaxPacket + 1 => peer.at = 1
  /\ Whole(splits, peer)
  /\ mode = "plain" => unsealed = 0 /\ inbound \in Seq(Bytes) /\ rawInput = <<>> /\ input = <<>>

DecoderInv ==
  /\ pc = "head" => packDataLength = 0
  /\ pc = "body" => packDataLength > 0
  /\ fd = "closed" => pc = "wait"
  /\ packDataLength > 0 => header \in Packets /\ header = handled + 1
  /\ \A i \in DOMAIN emitted : emitted[i].pkt <= handled

IInv == TypeOK /\ PeerInv /\ DecoderInv /\ Framed /\ (fd = "open" => Continues(At))

-----------------------------------------------------------------------------
(* Pieces of the stream.                                                   *)

\* Cutting a sequence in two.
LEMMA Cut ==
  ASSUME NEW S, NEW s \in Seq(S), NEW n \in 0..Len(s)
  PROVE  /\ Take(s, n) \in Seq(S) /\ Len(Take(s, n)) = n
         /\ \A i \in 1..n : Take(s, n)[i] = s[i]
         /\ Drop(s, n) \in Seq(S) /\ Len(Drop(s, n)) = Len(s) - n
         /\ \A i \in 1..Len(s) - n : Drop(s, n)[i] = s[i + n]
<1>1. Len(s) \in Nat /\ \A i \in 1..Len(s) : s[i] \in S
  OBVIOUS
<1>2. /\ Take(s, n) \in Seq(S)
      /\ Len(Take(s, n)) = IF 1 <= n THEN n - 1 + 1 ELSE 0
      /\ \A i \in 1..n - 1 + 1 : Take(s, n)[i] = s[1 + i - 1]
  BY <1>1, SubSeqProperties DEF Take
<1>3. /\ Drop(s, n) \in Seq(S)
      /\ Len(Drop(s, n)) = IF n + 1 <= Len(s) THEN Len(s) - (n + 1) + 1 ELSE 0
      /\ \A i \in 1..Len(s) - (n + 1) + 1 : Drop(s, n)[i] = s[n + 1 + i - 1]
  BY <1>1, SubSeqProperties DEF Drop
<1> QED
  BY <1>1, <1>2, <1>3

\* Sequences and functions on 1..n.
LEMMA FunctionIsSeq ==
  ASSUME NEW S, NEW n \in Nat, NEW f \in [1..n -> S]
  PROVE  f \in Seq(S) /\ Len(f) = n
<1>1. f \in Seq(S)
  BY SeqDef
<1> QED
  BY <1>1, LenProperties

LEMMA ElementsOfSeq ==
  ASSUME NEW S, NEW s \in Seq(S)
  PROVE  \A i \in DOMAIN s : s[i] \in S
OBVIOUS

\* Raw bytes have places, the end of a record has none.
LEMMA TagNoByte == Tag \notin Bytes
BY DEF Tag, Byte, Bytes

\* Two ways in a row make one.
LEMMA BeyondAdds ==
  ASSUME NEW b \in Bodies, NEW p \in Bytes, NEW q \in Bytes, NEW r,
         NEW m \in Nat \ {0}, NEW n \in Nat \ {0}, Beyond(b, p, m, q), Beyond(b, q, n, r),
         NEW l, l = m + n
  PROVE  Beyond(b, p, l, r)
<1> DEFINE left == HeadLen + b[p.pkt] - p.at
<1>1. left \in Int /\ p.at \in Nat /\ p.pkt \in Nat
  BY RouterDecodeAssumption DEF Bodies, Bytes, Packets
<1>2. ASSUME m <= left PROVE q.pkt = p.pkt /\ q.at = p.at + m
  BY <1>2 DEF Beyond, Byte
<1> HIDE DEF left
<1>3. ASSUME l <= left PROVE r = Byte(p.pkt, p.at + l)
  <2>1. m <= left /\ n <= HeadLen + b[q.pkt] - q.at
    BY <1>1, <1>2, <1>3, RouterDecodeAssumption DEF left, Bodies, Bytes
  <2>2. r = Byte(q.pkt, q.at + n)
    BY <2>1 DEF Beyond
  <2>3. q.at + n = p.at + l
    BY <1>1, <1>2, <2>1
  <2> QED
    BY <1>2, <2>1, <2>2, <2>3
<1>4. ASSUME l = left + 1 PROVE r = Byte(p.pkt + 1, 1)
  <2>1. m <= left /\ n = HeadLen + b[q.pkt] - q.at + 1
    BY <1>1, <1>2, <1>4, RouterDecodeAssumption DEF left, Bodies, Bytes
  <2> QED
    BY <2>1, <1>2 DEF Beyond
<1> QED
  BY <1>3, <1>4 DEF Beyond, left

\* Nothing leads nowhere ...
LEMMA LeadsEmpty ==
  ASSUME NEW b, NEW w, NEW p \in Places
  PROVE  Leads(b, w, <<>>, p, p)
<1> DEFINE f == [i \in 1..1 |-> p]
<1>1. f \in [1..1 -> Places] /\ f[1] = p /\ Len(<<>>) = 0
  OBVIOUS
<1>2. Walk(b, w, <<>>, f)
  BY DEF Walk
<1> HIDE DEF f
<1> QED
  BY <1>1, <1>2 DEF Leads

\* ... and nowhere else.
LEMMA LeadsNothing ==
  ASSUME NEW b, NEW w, NEW p, NEW q, Leads(b, w, <<>>, p, q)
  PROVE  q = p
<1>1. Len(<<>>) = 0
  OBVIOUS
<1> QED
  BY <1>1 DEF Leads

\* Two pieces in a row make one.
LEMMA LeadsConcat ==
  ASSUME NEW b \in Bodies, NEW w, NEW s \in Seq(Raw), NEW t \in Seq(Raw), NEW p, NEW q, NEW r,
         Leads(b, w, s, p, q), Leads(b, w, t, q, r)
  PROVE  Leads(b, w, s \o t, p, r)
<1> DEFINE m == Len(s)  n == Len(t)  u == s \o t
<1>1. PICK f \in [1..m + 1 -> Places] : Walk(b, w, s, f) /\ f[1] = p /\ f[m + 1] = q
  BY DEF Leads
<1>2. PICK g \in [1..n + 1 -> Places] : Walk(b, w, t, g) /\ g[1] = q /\ g[n + 1] = r
  BY DEF Leads
<1>3. m \in Nat /\ n \in Nat /\ Len(u) = m + n
  BY ConcatProperties
<1>4. /\ \A i \in 1..m : u[i] = s[i]
      /\ \A i \in 1..n : u[m + i] = t[i]
  BY <1>3, ConcatProperties
<1>5. /\ \A i \in 1..m : s[i] \in Raw
      /\ \A i \in 1..n : t[i] \in Raw
  OBVIOUS
<1> DEFINE h == [i \in 1..m + n + 1 |-> IF i <= m THEN f[i] ELSE g[i - m]]
<1>6. h \in [1..m + n + 1 -> Places] /\ h[1] = p /\ h[m + n + 1] = r
  BY <1>1, <1>2, <1>3
<1>7. /\ \A i \in 1..m + 1 : h[i] = f[i]
      /\ \A i \in 1..n + 1 : h[m + i] = g[i]
  BY <1>1, <1>2, <1>3
<1>8. /\ \A i \in 1..m : s[i] = Tag => f[i + 1] = f[i] /\ Whole(w, f[i])
      /\ \A i \in 1..m : s[i] # Tag => s[i] = f[i]
      /\ \A i \in 1..m, j \in 2..m + 1 :
           i < j /\ NoTag(s, i, j - 1) => Beyond(b, f[i], j - i, f[j])
  BY <1>1 DEF Walk
<1>9. /\ \A i \in 1..n : t[i] = Tag => g[i + 1] = g[i] /\ Whole(w, g[i])
      /\ \A i \in 1..n : t[i] # Tag => t[i] = g[i]
      /\ \A i \in 1..n, j \in 2..n + 1 :
           i < j /\ NoTag(t, i, j - 1) => Beyond(b, g[i], j - i, g[j])
  BY <1>2 DEF Walk
<1> HIDE DEF m, n, u, h
<1>10. ASSUME NEW i \in 1..m + n
       PROVE  /\ u[i] = Tag => h[i + 1] = h[i] /\ Whole(w, h[i])
              /\ u[i] # Tag => u[i] = h[i]
  <2>1. CASE i <= m
    <3>1. i \in 1..m /\ i \in 1..m + 1 /\ i + 1 \in 1..m + 1
      BY <2>1, <1>3
    <3>2. h[i] = f[i] /\ h[i + 1] = f[i + 1] /\ u[i] = s[i]
      BY <3>1, <1>4, <1>7
    <3> QED
      BY <3>1, <3>2, <1>8
  <2>2. CASE i > m
    <3>1. PICK k \in 1..n : i = m + k
      BY <2>2, <1>3
    <3>2. k \in 1..n + 1 /\ k + 1 \in 1..n + 1 /\ i + 1 = m + (k + 1)
      BY <3>1, <1>3
    <3>3. h[i] = g[k] /\ h[i + 1] = g[k + 1] /\ u[i] = t[k]
      BY <3>1, <3>2, <1>4, <1>7
    <3> QED
      BY <3>1, <3>3, <1>9
  <2> QED
    BY <2>1, <2>2, <1>3
<1>11. ASSUME NEW i \in 1..m + n, NEW j \in 2..m + n + 1, i < j, NoTag(u, i, j - 1)
       PROVE  Beyond(b, h[i], j - i, h[j])
  <2>1. CASE j <= m + 1
    <3>1. i \in 1..m /\ i \in 1..m + 1 /\ j \in 2..m + 1 /\ j \in 1..m + 1 /\ i..j - 1 \subseteq 1..m
      BY <2>1, <1>3, <1>11
    <3>2. NoTag(s, i, j - 1)
      <4>1. \A k \in i..j - 1 : u[k] = s[k]
        BY <3>1, <1>4
      <4> QED
        BY <4>1, <1>11 DEF NoTag
    <3>3. h[i] = f[i] /\ h[j] = f[j]
      BY <3>1, <1>7
    <3> QED
      BY <3>1, <3>2, <3>3, <1>8, <1>11
  <2>2. CASE i > m
    <3>1. PICK k \in 1..n : i = m + k
      BY <2>2, <1>3
    <3>2. PICK l \in 2..n + 1 : j = m + l
      BY <2>2, <1>3, <1>11
    <3>3. k < l /\ j - i = l - k /\ k \in 1..n + 1 /\ l \in 1..n + 1
      BY <3>1, <3>2, <1>3, <1>11
    <3>4. h[i] = g[k] /\ h[j] = g[l]
      BY <3>1, <3>2, <3>3, <1>7
    <3>5. NoTag(t, k, l - 1)
      <4>1. \A x \in k..l - 1 : x \in 1..n
        BY <3>1, <3>2, <1>3
      <4>2. \A x \in k..l - 1 : u[m + x] = t[x]
        BY <4>1, <1>4
      <4>3. \A x \in k..l - 1 : m + x \in i..j - 1
        BY <3>1, <3>2, <1>3
      <4> QED
        BY <4>2, <4>3, <1>11 DEF NoTag
    <3> QED
      BY <3>1, <3>2, <3>3, <3>4, <3>5, <1>9
  <2>3. CASE i <= m /\ j > m + 1
    <3>1. i \in 1..m /\ m + 1 \in 2..m + 1 /\ i < m + 1 /\ m + 1 - 1 = m /\ i..m \subseteq 1..m
      BY <2>3, <1>3
    <3>2. PICK l \in 2..n + 1 : j = m + l
      BY <2>3, <1>3
    <3>3. 1 \in 1..n /\ 1 < l /\ l \in 1..n + 1
      BY <3>2, <1>3
    <3>4. NoTag(s, i, m)
      <4>1. \A x \in i..m : x \in i..j - 1 /\ u[x] = s[x]
        BY <3>1, <3>2, <1>3, <1>4
      <4> QED
        BY <4>1, <1>11 DEF NoTag
    <3>5. NoTag(t, 1, l - 1)
      <4>1. \A x \in 1..l - 1 : x \in 1..n /\ m + x \in i..j - 1
        BY <2>3, <3>1, <3>2, <1>3
      <4>2. \A x \in 1..l - 1 : u[m + x] = t[x]
        BY <4>1, <1>4
      <4> QED
        BY <4>1, <4>2, <1>11 DEF NoTag
    <3>6. Beyond(b, f[i], (m + 1) - i, q)
      <4> DEFINE e == m + 1
      <4>1. e \in 2..m + 1 /\ i < e /\ f[e] = q
        BY <3>1, <1>1
      <4>2. NoTag(s, i, e - 1)
        BY <3>4, <1>3
      <4> HIDE DEF e
      <4>3. Beyond(b, f[i], e - i, q)
        BY <3>1, <4>1, <4>2, <1>8
      <4> QED
        BY <4>3 DEF e
    <3>7. Beyond(b, q, l - 1, g[l])
      BY <3>3, <3>5, <1>2, <1>9
    <3>8. f[i] \in Bytes /\ q \in Bytes
      <4>1. s[i] # Tag /\ i \in i..m
        BY <3>1, <3>4 DEF NoTag
      <4>2. t[1] # Tag
        BY <3>2, <3>5 DEF NoTag
      <4>3. s[i] \in Bytes /\ t[1] \in Bytes
        BY <3>1, <3>3, <4>1, <4>2, <1>5 DEF Raw
      <4> QED
        BY <3>1, <3>3, <4>1, <4>2, <4>3, <1>2, <1>8, <1>9
    <3> DEFINE x == (m + 1) - i  y == l - 1  z == j - i
    <3>9. x \in Nat \ {0} /\ y \in Nat \ {0} /\ z = x + y
      BY <3>1, <3>2, <1>3
    <3>10. Beyond(b, f[i], x, q) /\ Beyond(b, q, y, g[l])
      BY <3>6, <3>7
    <3> HIDE DEF x, y, z
    <3>11. Beyond(b, f[i], z, g[l])
      BY <3>8, <3>9, <3>10, BeyondAdds
    <3>12. h[i] = f[i] /\ h[j] = g[l]
      BY <3>1, <3>2, <3>3, <1>3, <1>7
    <3> QED
      BY <3>11, <3>12 DEF z
  <2> QED
    BY <2>1, <2>2, <2>3, <1>3
<1>12. Walk(b, w, u, h)
  BY <1>3, <1>10, <1>11 DEF Walk
<1> QED
  BY <1>3, <1>6, <1>12 DEF Leads, u

\* What leads from p to q may be read in two pieces.
LEMMA WalkCut ==
  ASSUME NEW b \in Bodies, NEW w, NEW s \in Seq(Raw), NEW n \in 0..Len(s),
         NEW f \in [1..Len(s) + 1 -> Places], Walk(b, w, s, f)
  PROVE  /\ Leads(b, w, Take(s, n), f[1], f[n + 1])
         /\ Leads(b, w, Drop(s, n), f[n + 1], f[Len(s) + 1])
<1> DEFINE l == Len(s)  u == Take(s, n)  v == Drop(s, n)
<1>2. l \in Nat /\ n \in 0..l /\ Len(u) = n /\ Len(v) = l - n
  BY Cut
<1>3. /\ \A i \in 1..n : u[i] = s[i]
      /\ \A i \in 1..l - n : v[i] = s[i + n]
  BY Cut
<1>4. /\ \A i \in 1..l : s[i] = Tag => f[i + 1] = f[i] /\ Whole(w, f[i])
      /\ \A i \in 1..l : s[i] # Tag => s[i] = f[i]
      /\ \A i \in 1..l, j \in 2..l + 1 :
           i < j /\ NoTag(s, i, j - 1) => Beyond(b, f[i], j - i, f[j])
  BY DEF Walk
<1> DEFINE g == [i \in 1..n + 1 |-> f[i]]  h == [i \in 1..l - n + 1 |-> f[i + n]]
<1>5. g \in [1..n + 1 -> Places] /\ g[1] = f[1] /\ \A i \in 1..n + 1 : g[i] = f[i]
  BY <1>2
<1>6. h \in [1..l - n + 1 -> Places] /\ h[l - n + 1] = f[l + 1] /\ \A i \in 1..l - n + 1 : h[i] = f[i + n]
  BY <1>2
<1>7. g[n + 1] = f[n + 1] /\ h[1] = f[n + 1]
  BY <1>2, <1>5, <1>6
<1> HIDE DEF l, u, v, g, h
<1>8. Walk(b, w, u, g)
  <2>1. ASSUME NEW i \in 1..n
        PROVE  /\ u[i] = Tag => g[i + 1] = g[i] /\ Whole(w, g[i])
               /\ u[i] # Tag => u[i] = g[i]
    <3>1. i \in 1..l /\ i \in 1..n + 1 /\ i + 1 \in 1..n + 1
      BY <1>2
    <3> QED
      BY <3>1, <1>3, <1>4, <1>5
  <2>2. ASSUME NEW i \in 1..n, NEW j \in 2..n + 1, i < j, NoTag(u, i, j - 1)
        PROVE  Beyond(b, g[i], j - i, g[j])
    <3>1. i \in 1..l /\ j \in 2..l + 1 /\ i \in 1..n + 1 /\ j \in 1..n + 1
      BY <1>2
    <3>2. NoTag(s, i, j - 1)
      <4>1. \A x \in i..j - 1 : u[x] = s[x]
        BY <3>1, <1>2, <1>3
      <4> QED
        BY <4>1, <2>2 DEF NoTag
    <3> QED
      BY <3>1, <3>2, <2>2, <1>4, <1>5
  <2> QED
    BY <1>2, <2>1, <2>2 DEF Walk
<1>9. Walk(b, w, v, h)
  <2>1. ASSUME NEW i \in 1..l - n
        PROVE  /\ v[i] = Tag => h[i + 1] = h[i] /\ Whole(w, h[i])
               /\ v[i] # Tag => v[i] = h[i]
    <3>1. /\ i + n \in 1..l /\ i \in 1..l - n + 1 /\ i + 1 \in 1..l - n + 1
          /\ i + 1 + n = i + n + 1
      BY <1>2
    <3> QED
      BY <3>1, <1>3, <1>4, <1>6
  <2>2. ASSUME NEW i \in 1..l - n, NEW j \in 2..l - n + 1, i < j, NoTag(v, i, j - 1)
        PROVE  Beyond(b, h[i], j - i, h[j])
    <3>1. /\ i + n \in 1..l /\ j + n \in 2..l + 1 /\ i + n < j + n
          /\ i \in 1..l - n + 1 /\ j \in 1..l - n + 1 /\ (j + n) - (i + n) = j - i
      BY <1>2, <2>2
    <3>2. NoTag(s, i + n, j + n - 1)
      <4> SUFFICES ASSUME NEW x \in i + n..j + n - 1 PROVE s[x] # Tag
        BY DEF NoTag
      <4>1. x - n \in i..j - 1 /\ x - n \in 1..l - n /\ x - n + n = x
        BY <1>2
      <4> QED
        BY <4>1, <1>3, <2>2 DEF NoTag
    <3> QED
      BY <3>1, <3>2, <1>4, <1>6
  <2> QED
    BY <1>2, <2>1, <2>2 DEF Walk
<1>10. Leads(b, w, u, f[1], f[n + 1]) /\ Leads(b, w, v, f[n + 1], f[l + 1])
  BY <1>2, <1>5, <1>6, <1>7, <1>8, <1>9 DEF Leads
<1> QED
  BY <1>10 DEF l, u, v

LEMMA LeadsCut ==
  ASSUME NEW b \in Bodies, NEW w, NEW s \in Seq(Raw), NEW p, NEW q, NEW n \in 0..Len(s),
         Leads(b, w, s, p, q)
  PROVE  \E r \in Places : Leads(b, w, Take(s, n), p, r) /\ Leads(b, w, Drop(s, n), r, q)
<1>1. PICK f \in [1..Len(s) + 1 -> Places] :
        Walk(b, w, s, f) /\ f[1] = p /\ f[Len(s) + 1] = q
  BY DEF Leads
<1>2. f[n + 1] \in Places
  BY <1>1
<1> QED
  BY <1>1, <1>2, WalkCut

\* The first bytes of what leads from p to q, up to the end of a packet.
LEMMA LeadsStraight ==
  ASSUME NEW b \in Bodies, NEW w, NEW s \in Seq(Raw), NEW p \in Bytes, NEW q,
         NEW n \in 1..Len(s), Leads(b, w, s, p, q), NoTag(s, 1, n),
         n - 1 <= HeadLen + b[p.pkt] - p.at
  PROVE  /\ \A i \in 1..n : s[i] = Byte(p.pkt, p.at + (i - 1))
         /\ \E r \in Places : Leads(b, w, Drop(s, n), r, q) /\ Beyond(b, p, n, r)
<1>1. PICK f \in [1..Len(s) + 1 -> Places] :
        Walk(b, w, s, f) /\ f[1] = p /\ f[Len(s) + 1] = q
  BY DEF Leads
<1>2. Len(s) \in Nat /\ n \in Nat
  OBVIOUS
<1>3. ASSUME NEW i \in 1..n PROVE s[i] = Byte(p.pkt, p.at + (i - 1))
  <2>1. s[i] = f[i] /\ i \in 1..Len(s) /\ 1 \in 1..Len(s)
    BY <1>1, <1>2 DEF Walk, NoTag
  <2>2. CASE i = 1
    BY <2>1, <2>2, <1>1 DEF Byte, Bytes
  <2>3. CASE i > 1
    <3>1. i \in 2..Len(s) + 1 /\ 1 < i /\ NoTag(s, 1, i - 1)
      BY <2>1, <2>3, <1>2 DEF NoTag
    <3>2. Beyond(b, p, i - 1, f[i])
      BY <3>1, <2>1, <1>1 DEF Walk
    <3>3. i - 1 <= HeadLen + b[p.pkt] - p.at
      BY <1>2, RouterDecodeAssumption DEF Bodies, Bytes
    <3> QED
      BY <3>2, <3>3, <2>1 DEF Beyond
  <2> QED
    BY <2>2, <2>3
<1>4. PICK r \in Places : Leads(b, w, Take(s, n), p, r) /\ Leads(b, w, Drop(s, n), r, q)
  BY <1>2, LeadsCut
<1>5. Len(Take(s, n)) = n /\ \A i \in 1..n : Take(s, n)[i] = s[i]
  BY <1>2, Cut
<1>6. PICK g \in [1..n + 1 -> Places] : Walk(b, w, Take(s, n), g) /\ g[1] = p /\ g[n + 1] = r
  BY <1>4, <1>5 DEF Leads
<1>7. NoTag(Take(s, n), 1, n)
  BY <1>5 DEF NoTag
<1> DEFINE e == n + 1
<1>8. 1 \in 1..n /\ e \in 2..n + 1 /\ 1 < e /\ e - 1 = n
  BY <1>2
<1> HIDE DEF e
<1>9. Beyond(b, g[1], e - 1, g[e])
  BY <1>5, <1>6, <1>7, <1>8 DEF Walk
<1>10. Beyond(b, p, n, r)
  BY <1>6, <1>8, <1>9 DEF e
<1> QED
  BY <1>3, <1>4, <1>10

\* The end of a record where one may be leads from p to p.
LEMMA LeadsTag ==
  ASSUME NEW b, NEW w, NEW p \in Places, Whole(w, p)
  PROVE  Leads(b, w, <<Tag>>, p, p)
<1> DEFINE f == [i \in 1..2 |-> p]  s == <<Tag>>
<1>1. Len(s) = 1 /\ s[1] = Tag
  OBVIOUS
<1>2. f \in [1..Len(s) + 1 -> Places] /\ f[1] = p /\ f[2] = p
  BY <1>1
<1> HIDE DEF f, s
<1>3. Walk(b, w, s, f)
  <2>1. \A i \in 1..Len(s), j \in 2..Len(s) + 1 : ~(i < j /\ NoTag(s, i, j - 1))
    BY <1>1 DEF NoTag
  <2> QED
    BY <1>1, <1>2, <2>1 DEF Walk
<1> QED
  BY <1>1, <1>2, <1>3 DEF Leads, s

\* Some bytes of a packet, from p on, lead beyond them.
LEMMA LeadsBytes ==
  ASSUME NEW b \in Bodies, NEW w, NEW p \in Bytes, NEW q \in Places, NEW n \in Nat \ {0},
         n - 1 <= HeadLen + b[p.pkt] - p.at, Beyond(b, p, n, q)
  PROVE  /\ [i \in 1..n |-> Byte(p.pkt, p.at + i - 1)] \in Seq(Bytes)
         /\ Leads(b, w, [i \in 1..n |-> Byte(p.pkt, p.at + i - 1)], p, q)
<1> DEFINE s == [i \in 1..n |-> Byte(p.pkt, p.at + i - 1)]
           f == [i \in 1..n + 1 |-> IF i = n + 1 THEN q ELSE Byte(p.pkt, p.at + i - 1)]
<1>1. /\ n \in Nat /\ p.at \in Nat /\ p.at >= 1 /\ p.pkt \in Packets /\ b[p.pkt] \in 0..MaxBody
      /\ HeadLen \in Nat /\ MaxBody \in Nat /\ MaxPacket \in Nat
  BY RouterDecodeAssumption DEF Bytes, Bodies
<1>2. ASSUME NEW i \in 1..n
      PROVE  /\ Byte(p.pkt, p.at + i - 1) \in Bytes
             /\ Byte(p.pkt, p.at + i - 1) \in Places
  BY <1>1 DEF Byte, Bytes, Places, Packets
<1>3. s \in Seq(Bytes) /\ Len(s) = n /\ \A i \in 1..n : s[i] = Byte(p.pkt, p.at + i - 1)
  <2>1. s \in [1..n -> Bytes]
    BY <1>1, <1>2
  <2> QED
    BY <1>1, <2>1, FunctionIsSeq
<1>4. /\ f \in [1..n + 1 -> Places] /\ f[n + 1] = q
      /\ \A i \in 1..n : f[i] = Byte(p.pkt, p.at + i - 1)
  BY <1>1, <1>2
<1>5. f[1] = p
  BY <1>1, <1>4 DEF Byte, Bytes
<1>6. \A i \in 1..n : s[i] # Tag
  BY <1>2, <1>3, TagNoByte
<1> HIDE DEF s, f
<1>7. ASSUME NEW i \in 1..n, NEW j \in 2..n + 1, i < j
      PROVE  Beyond(b, f[i], j - i, f[j])
  <2>1. f[i] = Byte(p.pkt, p.at + i - 1)
    BY <1>4
  <2>2. CASE j <= n
    <3>1. f[j] = Byte(p.pkt, p.at + j - 1)
      BY <1>4, <2>2
    <3>2. /\ f[i].pkt = p.pkt /\ f[i].at = p.at + i - 1
          /\ p.at + j - 1 = (p.at + i - 1) + (j - i)
          /\ j - i <= HeadLen + b[p.pkt] - (p.at + i - 1)
      BY <1>1, <1>7, <2>1, <2>2 DEF Byte
    <3> QED
      BY <1>1, <1>7, <3>1, <3>2 DEF Beyond
  <2>3. CASE j = n + 1
    <3>1. /\ f[i].pkt = p.pkt /\ f[i].at = p.at + i - 1
          /\ f[i].at + (j - i) = p.at + n
          /\ j - i <= HeadLen + b[p.pkt] - f[i].at => n <= HeadLen + b[p.pkt] - p.at
          /\ j - i = (HeadLen + b[p.pkt] - f[i].at) + 1 => n = (HeadLen + b[p.pkt] - p.at) + 1
      BY <1>1, <1>7, <2>1, <2>3 DEF Byte
    <3>2. f[j] = q
      BY <1>4, <2>3
    <3> QED
      BY <3>1, <3>2 DEF Beyond
  <2> QED
    BY <1>1, <2>2, <2>3
<1>8. Walk(b, w, s, f)
  BY <1>3, <1>4, <1>6, <1>7 DEF Walk
<1> QED
  BY <1>3, <1>4, <1>5, <1>8 DEF Leads, s

\* A record in what leads from p to q leads to a place where records end.
LEMMA LeadsRecord ==
  ASSUME NEW b \in Bodies, NEW w, NEW s \in Seq(Raw), NEW p, NEW q, NEW n \in 1..Len(s),
         Leads(b, w, s, p, q), s[n] = Tag
  PROVE  \E r \in Places :
           /\ Leads(b, w, Take(s, n - 1), p, r) /\ Leads(b, w, Drop(s, n), r, q)
           /\ Whole(w, r)
<1> DEFINE k == n - 1
<1>1. k \in 0..Len(s) /\ n \in 0..Len(s) /\ k + 1 = n
  OBVIOUS
<1>2. PICK f \in [1..Len(s) + 1 -> Places] :
        Walk(b, w, s, f) /\ f[1] = p /\ f[Len(s) + 1] = q
  BY DEF Leads
<1> HIDE DEF k
<1>3. Leads(b, w, Take(s, k), p, f[k + 1])
  BY <1>1, <1>2, WalkCut
<1>4. Leads(b, w, Drop(s, n), f[n + 1], q)
  BY <1>1, <1>2, WalkCut
<1>5. f[n + 1] = f[n] /\ Whole(w, f[n]) /\ f[n] \in Places
  BY <1>2 DEF Walk
<1> QED
  BY <1>1, <1>3, <1>4, <1>5 DEF k

\* A byte that is there is the one where the sequence starts.
LEMMA LeadsFirst ==
  ASSUME NEW b, NEW w, NEW s \in Seq(Bytes), s # <<>>, NEW p, NEW q, Leads(b, w, s, p, q)
  PROVE  p \in Bytes /\ s[1] = p
<1>1. 1 \in 1..Len(s) /\ s[1] \in Bytes
  OBVIOUS
<1> QED
  BY <1>1, TagNoByte DEF Leads, Walk

-----------------------------------------------------------------------------
(* The first state.                                                        *)

LEMMA FramingInit == Init => IInv
<1> SUFFICES ASSUME Init PROVE IInv
  OBVIOUS
<1> USE RouterDecodeAssumption
<1>1. TypeOK
  <2>1. Byte(1, 1) \in [pkt : 1..MaxPacket + 1, at : 1..HeadLen + MaxBody]
    BY DEF Byte
  <2>2. /\ <<>> \in Seq(Raw) /\ <<>> \in Seq(Bytes) /\ Len(<<>>) = 0
        /\ <<>> \in Seq([pkt : Packets, data : Seq(Bytes)])
    OBVIOUS
  <2>3. mode \in Modes /\ splits \in BOOLEAN /\ ended \in BOOLEAN
    BY Zenon DEF Init
  <2>4. /\ bodies \in [Packets -> 0..MaxBody] /\ peer = Byte(1, 1) /\ unsealed = 0
        /\ inbound = <<>> /\ rawInput = <<>> /\ input = <<>> /\ tlsRawSize = 0
        /\ packDataLength = 0 /\ header = 0 /\ readBuffer = <<>>
        /\ pc = "wait" /\ handled = 0 /\ emitted = <<>> /\ fd = "open"
    BY Zenon DEF Init
  <2> QED
    BY <2>1, <2>2, <2>3, <2>4 DEF TypeOK
<1>2. PeerInv
  BY DEF Init, PeerInv, Byte, Size, Whole, Packets
<1>3. DecoderInv /\ Framed
  BY DEF Init, DecoderInv, Framed, MessagesExact, BufferIsPrefix
<1>4. At = Byte(1, 1) /\ Byte(1, 1) \in Places
  BY DEF Init, At, Places, Byte
<1>5. Continues(At)
  <2>1. /\ input = <<>> /\ rawInput = <<>> /\ inbound = <<>> /\ peer = At
        /\ At \in Places /\ Whole(splits, At)
    BY <1>4 DEF Init, Whole, Byte
  <2>2. Leads(bodies, splits, <<>>, At, At)
    BY <2>1, LeadsEmpty
  <2> QED
    BY <2>1, <2>2 DEF Continues
<1> QED
  BY <1>1, <1>2, <1>3, <1>5 DEF IInv

-----------------------------------------------------------------------------
(* The peer.                                                               *)

\* What the peer does is nothing to the decoder.
LEMMA StillFramed ==
  ASSUME DecoderInv, Framed, UNCHANGED <<bodies, decoder, pc, fd>>
  PROVE  DecoderInv' /\ Framed' /\ At' = At
<1>1. /\ bodies' = bodies /\ packDataLength' = packDataLength /\ header' = header
      /\ readBuffer' = readBuffer /\ handled' = handled /\ emitted' = emitted
      /\ pc' = pc /\ fd' = fd
  BY DEF decoder
<1>2. DecoderInv'
  BY <1>1 DEF DecoderInv
<1>3. MessagesExact' /\ BufferIsPrefix'
  BY <1>1 DEF Framed, MessagesExact, BufferIsPrefix, Body
<1>4. At' = At
  BY <1>1 DEF At
<1> QED
  BY <1>2, <1>3, <1>4 DEF Framed

LEMMA PeerSendsStep == IInv /\ PeerSends => IInv'
<1> SUFFICES ASSUME IInv, PeerSends PROVE IInv'
  OBVIOUS
<1> USE RouterDecodeAssumption
<1> DEFINE k == peer.pkt
           n == IF splits \/ peer.at > 1 THEN 1 ELSE HeadLen
           s == [i \in 1..n |-> Byte(peer.pkt, peer.at + i - 1)]
<1>1. /\ peer \in Places /\ k \in Packets /\ k \in Nat /\ peer.at \in Nat /\ peer.at >= 1
      /\ peer = Byte(k, peer.at) /\ bodies \in Bodies /\ bodies[k] \in 0..MaxBody
      /\ peer.at <= HeadLen + bodies[k] /\ peer.at <= HeadLen + MaxBody /\ n \in Nat \ {0}
  <2>1. /\ peer \in [pkt : 1..MaxPacket + 1, at : 1..HeadLen + MaxBody]
        /\ bodies \in [Packets -> 0..MaxBody] /\ k <= MaxPacket
        /\ peer.pkt \in Packets => peer.at <= Size(peer.pkt)
    BY DEF IInv, TypeOK, PeerInv, PeerSends
  <2>2. k \in 1..MaxPacket /\ peer.at \in 1..HeadLen + MaxBody /\ peer = Byte(k, peer.at)
    BY <2>1 DEF Byte
  <2> HIDE DEF k
  <2>3. k \in Packets /\ bodies[k] \in 0..MaxBody
    BY <2>1, <2>2 DEF Packets
  <2> QED
    BY <2>1, <2>2, <2>3 DEF Places, Bodies, Size, k
<1>2. peer \in Bytes
  BY <1>1 DEF Bytes, Byte
<1>3. n - 1 <= HeadLen + bodies[k] - peer.at
  BY <1>1 DEF IInv, PeerInv, Whole
<1>4. /\ inbound' = inbound \o s
      /\ peer' = IF peer.at + (n - 1) = HeadLen + bodies[k] THEN Byte(k + 1, 1)
                                                          ELSE Byte(k, peer.at + n)
      /\ UNCHANGED <<mode, splits, bodies, ended, tlsVars, decoder, pc, fd>>
  <2>1. /\ inbound' = inbound \o s
        /\ PeerMoves(k, peer.at + n - 1)
        /\ UNCHANGED <<mode, splits, bodies, ended, tlsVars, decoder, pc, fd>>
    BY DEF PeerSends
  <2> HIDE DEF n
  <2> QED
    BY <2>1, <1>1 DEF PeerMoves, Size
<1>5. /\ unsealed' \in 0..MaxRecord /\ (mode = "plain" => unsealed' = 0)
  BY <1>1 DEF PeerSends, IInv, TypeOK, PeerInv
<1>6. Whole(splits, peer')
  BY <1>1, <1>4 DEF IInv, PeerInv, Whole, Byte
<1> HIDE DEF n, k
<1> DEFINE l == bodies[k]  a == peer.at
<1>7. /\ k \in 1..MaxPacket /\ l \in 0..MaxBody /\ a \in Nat /\ a >= 1 /\ n \in Nat \ {0}
      /\ n - 1 <= HeadLen + l - a /\ k = peer.pkt
      /\ peer' = IF a + (n - 1) = HeadLen + l THEN Byte(k + 1, 1) ELSE Byte(k, a + n)
  BY <1>1, <1>3, <1>4 DEF Packets, k
<1>8. /\ Beyond(bodies, peer, n, peer')
      /\ peer' \in Places /\ peer' \in [pkt : 1..MaxPacket + 1, at : 1..HeadLen + MaxBody]
      /\ peer'.pkt \in Packets => peer'.at <= HeadLen + bodies'[peer'.pkt]
      /\ peer'.pkt = MaxPacket + 1 => peer'.at = 1
  <2> HIDE DEF a
  <2>1. CASE a + (n - 1) = HeadLen + l
    <3>1. peer' = Byte(k + 1, 1) /\ n = (HeadLen + l - a) + 1
      BY <1>7, <2>1
    <3>2. peer'.pkt = k + 1 /\ peer'.at = 1 /\ bodies' \in [Packets -> 0..MaxBody]
      BY <3>1, <1>1, <1>4 DEF Byte, Bodies
    <3>3. peer'.pkt \in Packets => bodies'[peer'.pkt] \in 0..MaxBody
      BY <3>2
    <3>4. Beyond(bodies, peer, n, peer')
      BY <3>1, <1>7 DEF Beyond, a
    <3> QED
      BY <3>1, <3>2, <3>3, <3>4, <1>7 DEF Places, Byte
  <2>2. CASE a + (n - 1) # HeadLen + l
    <3>1. peer' = Byte(k, a + n) /\ a + n <= HeadLen + l /\ bodies' = bodies
      <4>1. bodies' = bodies
        BY <1>4
      <4>2. peer' = Byte(k, a + n)
        BY <1>7, <2>2
      <4>3. a + n <= HeadLen + l
        BY <1>7, <2>2
      <4> QED
        BY <4>1, <4>2, <4>3
    <3>2. peer'.pkt = k /\ peer'.at = a + n /\ bodies'[k] = l
      BY <3>1 DEF Byte
    <3>3. Beyond(bodies, peer, n, peer')
      BY <3>1, <1>7 DEF Beyond, a
    <3> QED
      BY <3>1, <3>2, <3>3, <1>7 DEF Places, Byte, Packets
  <2> QED
    BY <2>1, <2>2
<1>9. n - 1 <= HeadLen + bodies[peer.pkt] - peer.at
  BY <1>3 DEF k
<1>10. s \in Seq(Bytes) /\ Leads(bodies, splits, s, peer, peer')
  BY <1>1, <1>2, <1>8, <1>9, LeadsBytes
<1> HIDE DEF s
<1>11. inbound \in Seq(Raw) /\ s \in Seq(Raw) /\ inbound' \in Seq(Raw)
       /\ (mode = "plain" => inbound' \in Seq(Bytes))
  BY <1>4, <1>10, SeqMonotonic, ConcatProperties DEF IInv, TypeOK, PeerInv, Raw
<1>12. TypeOK'
  BY <1>4, <1>5, <1>8, <1>11 DEF IInv, TypeOK, tlsVars, decoder, Raw, Bytes
<1>13. PeerInv'
  BY <1>4, <1>5, <1>6, <1>8, <1>11 DEF IInv, PeerInv, tlsVars, Size, Bytes
<1>14. DecoderInv' /\ Framed' /\ At' = At
  BY <1>4, StillFramed DEF IInv
<1>15. ASSUME fd' = "open" PROVE Continues(At)'
  <2>1. fd = "open"
    BY <1>4, <1>15
  <2>2. PICK q \in Places, r \in Places :
          /\ Leads(bodies, splits, input, At, q) /\ Leads(bodies, splits, rawInput, q, r)
          /\ Leads(bodies, splits, inbound, r, peer)
          /\ mode = "tls" => Whole(splits, q)
    BY <2>1 DEF IInv, Continues
  <2>3. Leads(bodies, splits, inbound', r, peer')
    BY <1>1, <1>4, <1>10, <1>11, <2>2, LeadsConcat
  <2> QED
    BY <1>4, <1>14, <2>2, <2>3 DEF Continues, tlsVars
<1> QED
  BY <1>12, <1>13, <1>14, <1>15 DEF IInv

LEMMA PeerSealsStep == IInv /\ PeerSeals => IInv'
<1> SUFFICES ASSUME IInv, PeerSeals PROVE IInv'
  OBVIOUS
<1> USE RouterDecodeAssumption
<1>1. /\ inbound' = Append(inbound, Tag) /\ unsealed > 0 /\ unsealed' = 0
      /\ UNCHANGED <<mode, splits, bodies, peer, ended, tlsVars, decoder, pc, fd>>
  BY DEF PeerSeals
<1>2. mode # "plain" /\ unsealed' \in 0..MaxRecord
  BY <1>1 DEF IInv, PeerInv
<1>3. inbound \in Seq(Raw) /\ Tag \in Raw /\ <<Tag>> \in Seq(Raw)
  BY DEF IInv, TypeOK, Raw
<1>4. inbound' = inbound \o <<Tag>> /\ inbound' \in Seq(Raw)
  BY <1>1, <1>3, AppendIsConcat, AppendProperties
<1>5. TypeOK'
  BY <1>1, <1>2, <1>4 DEF IInv, TypeOK, tlsVars, decoder, Raw, Bytes
<1>6. PeerInv'
  BY <1>1, <1>2 DEF IInv, PeerInv, Size
<1>7. DecoderInv' /\ Framed' /\ At' = At
  BY <1>1, StillFramed DEF IInv
<1>8. ASSUME fd' = "open" PROVE Continues(At)'
  <2>1. fd = "open" /\ bodies \in Bodies /\ peer \in Places /\ Whole(splits, peer)
    BY <1>1, <1>8 DEF IInv, TypeOK, PeerInv, Bodies, Places
  <2>2. PICK q \in Places, r \in Places :
          /\ Leads(bodies, splits, input, At, q) /\ Leads(bodies, splits, rawInput, q, r)
          /\ Leads(bodies, splits, inbound, r, peer)
          /\ mode = "tls" => Whole(splits, q)
    BY <2>1 DEF IInv, Continues
  <2>3. Leads(bodies, splits, <<Tag>>, peer, peer)
    BY <2>1, LeadsTag
  <2>4. Leads(bodies, splits, inbound', r, peer)
    BY <1>3, <1>4, <2>1, <2>2, <2>3, LeadsConcat
  <2> QED
    BY <1>1, <1>7, <2>2, <2>4 DEF Continues, tlsVars
<1> QED
  BY <1>5, <1>6, <1>7, <1>8 DEF IInv

LEMMA PeerEndsStep == IInv /\ PeerEnds => IInv'
<1> SUFFICES ASSUME IInv, PeerEnds PROVE IInv'
  OBVIOUS
<1>1. /\ ended' = TRUE
      /\ UNCHANGED <<mode, splits, bodies, peer, unsealed, inbound, tlsVars, decoder, pc, fd>>
  BY DEF PeerEnds
<1>2. TypeOK'
  <2>1. ended' \in BOOLEAN
    BY <1>1
  <2> QED
    BY <1>1, <2>1 DEF IInv, TypeOK, tlsVars, decoder, Raw, Bytes
<1>3. PeerInv'
  BY <1>1 DEF IInv, PeerInv, Size, tlsVars
<1>4. DecoderInv' /\ Framed' /\ At' = At
  BY <1>1, StillFramed DEF IInv
<1>5. fd' = "open" => Continues(At)'
  BY <1>1, <1>4 DEF IInv, Continues, tlsVars
<1> QED
  BY <1>2, <1>3, <1>4, <1>5 DEF IInv

-----------------------------------------------------------------------------
(* Steps of the poller that take nothing out of the stream.                *)

\* Events, and reads that find nothing.
LEMMA IdleStep == IInv /\ (Event \/ Again \/ EndOfStream) => IInv'
<1> SUFFICES ASSUME IInv, Event \/ Again \/ EndOfStream PROVE IInv'
  OBVIOUS
<1>1. UNCHANGED <<peerVars, inbound, tlsVars, decoder>>
  BY DEF Event, Again, EndOfStream
<1>2. /\ pc' \in {"wait", "head", "body"} /\ fd' \in {"open", "closed"}
      /\ pc' = "head" => packDataLength = 0
      /\ pc' = "body" => packDataLength # 0
      /\ fd' = "closed" => pc' = "wait"
      /\ fd' = "open" => fd = "open"
  BY DEF IInv, TypeOK, DecoderInv, Event, Again, EndOfStream, NothingToRead, Reading
<1>3. TypeOK'
  BY <1>1, <1>2 DEF IInv, TypeOK, peerVars, tlsVars, decoder, Raw, Bytes
<1>4. PeerInv'
  BY <1>1 DEF IInv, PeerInv, peerVars, tlsVars, Size
<1>5. Framed' /\ At' = At
  BY <1>1 DEF IInv, Framed, MessagesExact, BufferIsPrefix, Body, At, peerVars, decoder
<1>6. DecoderInv'
  BY <1>1, <1>2, RouterDecodeAssumption DEF IInv, TypeOK, DecoderInv, decoder
<1>7. fd' = "open" => Continues(At)'
  BY <1>1, <1>2, <1>5 DEF IInv, Continues, peerVars, tlsVars
<1> QED
  BY <1>3, <1>4, <1>5, <1>6, <1>7 DEF IInv

LEMMA FillStep == IInv /\ Fill => IInv'
<1> SUFFICES ASSUME IInv, Fill PROVE IInv'
  OBVIOUS
<1> USE RouterDecodeAssumption
<1> DEFINE n == Lesser(Len(inbound), RawRead)
<1>1. /\ mode = "tls" /\ input = <<>> /\ inbound # <<>> /\ inbound \in Seq(Raw) /\ rawInput \in Seq(Raw)
      /\ tlsRawSize \in Int /\ pc # "wait"
  BY DEF IInv, TypeOK, Fill, Reading
<1>2. n \in 0..Len(inbound) /\ n \in Nat
  BY <1>1 DEF Lesser
<1>3. /\ rawInput' = rawInput \o Take(inbound, n) /\ inbound' = Drop(inbound, n)
      /\ tlsRawSize' = tlsRawSize + n
      /\ UNCHANGED <<peerVars, input, decoder, pc, fd>>
  BY DEF Fill
<1> HIDE DEF n
<1>4. /\ Take(inbound, n) \in Seq(Raw) /\ inbound' \in Seq(Raw) /\ rawInput' \in Seq(Raw)
      /\ tlsRawSize' \in Int
  BY <1>1, <1>2, <1>3, Cut, ConcatProperties
<1>5. TypeOK'
  BY <1>3, <1>4 DEF IInv, TypeOK, peerVars, decoder, Raw, Bytes
<1>6. PeerInv'
  BY <1>1, <1>3 DEF IInv, PeerInv, peerVars, Size
<1>7. DecoderInv' /\ Framed' /\ At' = At
  BY <1>3, StillFramed DEF IInv, peerVars
<1>8. Continues(At)'
  <2>1. fd = "open" /\ bodies \in Bodies
    BY <1>1 DEF IInv, TypeOK, DecoderInv, Bodies
  <2>2. PICK q \in Places, r \in Places :
          /\ Leads(bodies, splits, input, At, q) /\ Leads(bodies, splits, rawInput, q, r)
          /\ Leads(bodies, splits, inbound, r, peer)
          /\ mode = "tls" => Whole(splits, q)
    BY <2>1 DEF IInv, Continues
  <2>3. PICK u \in Places : /\ Leads(bodies, splits, Take(inbound, n), r, u)
                            /\ Leads(bodies, splits, inbound', u, peer)
    BY <1>1, <1>2, <1>3, <2>1, <2>2, LeadsCut
  <2>4. Leads(bodies, splits, rawInput', q, u)
    BY <1>1, <1>3, <1>4, <2>1, <2>2, <2>3, LeadsConcat
  <2> QED
    BY <1>3, <1>7, <2>2, <2>3, <2>4 DEF Continues, peerVars
<1> QED
  BY <1>5, <1>6, <1>7, <1>8 DEF IInv

LEMMA DecryptStep == IInv /\ Decrypt => IInv'
<1> SUFFICES ASSUME IInv, Decrypt PROVE IInv'
  OBVIOUS
<1> USE RouterDecodeAssumption
<1>1. PICK i \in DOMAIN rawInput :
        /\ ClosesRecord(i) /\ input' = Take(rawInput, i - 1) /\ rawInput' = Drop(rawInput, i)
  BY DEF Decrypt
<1>2. /\ input = <<>> /\ rawInput \in Seq(Raw) /\ pc # "wait"
      /\ UNCHANGED <<peerVars, inbound, tlsRawSize, decoder, pc, fd>>
  BY DEF IInv, TypeOK, Decrypt, Reading
<1>3. /\ i \in 1..Len(rawInput) /\ rawInput[i] = Tag
      /\ \A j \in 1..i - 1 : rawInput[j] # Tag /\ rawInput[j] \in Raw
      /\ \A j \in 1..i - 1 : rawInput[j] \in Bytes
  BY <1>1, <1>2 DEF ClosesRecord, Raw
<1>4. mode = "tls"
  BY <1>3 DEF IInv, TypeOK, PeerInv
<1>5. input' \in Seq(Bytes)
  BY <1>1, <1>3, SubSeqProperties DEF Take
<1>6. rawInput' \in Seq(Raw)
  BY <1>1, <1>2, <1>3, Cut
<1>7. TypeOK'
  BY <1>2, <1>5, <1>6 DEF IInv, TypeOK, peerVars, decoder, Raw, Bytes
<1>8. PeerInv'
  BY <1>2, <1>4 DEF IInv, PeerInv, peerVars, Size
<1>9. DecoderInv' /\ Framed' /\ At' = At
  BY <1>2, StillFramed DEF IInv, peerVars
<1>10. Continues(At)'
  <2>1. fd = "open" /\ bodies \in Bodies
    BY <1>2 DEF IInv, TypeOK, DecoderInv, Bodies
  <2>2. PICK q \in Places, r \in Places :
          /\ Leads(bodies, splits, input, At, q) /\ Leads(bodies, splits, rawInput, q, r)
          /\ Leads(bodies, splits, inbound, r, peer)
          /\ mode = "tls" => Whole(splits, q)
    BY <2>1 DEF IInv, Continues
  <2>3. q = At
    <3>1. Leads(bodies, splits, <<>>, At, q)
      BY <1>2, <2>2
    <3> QED
      BY <3>1, LeadsNothing
  <2>4. PICK u \in Places :
          /\ Leads(bodies, splits, input', At, u) /\ Leads(bodies, splits, rawInput', u, r)
          /\ Whole(splits, u)
    BY <1>1, <1>2, <1>3, <2>1, <2>2, <2>3, LeadsRecord
  <2> QED
    BY <1>2, <1>9, <2>2, <2>4 DEF Continues, peerVars
<1> QED
  BY <1>7, <1>8, <1>9, <1>10 DEF IInv

-----------------------------------------------------------------------------
(* Reading.                                                                *)

\* What a read finds are bytes of the stream from where the decoder is up to a
\* place where a record, or a segment, may end.
LEMMA ReadableLeads ==
  ASSUME IInv, pc # "wait"
  PROVE  /\ fd = "open" /\ bodies \in Bodies /\ Readable \in Seq(Bytes) /\ Readable \in Seq(Raw)
         /\ \E q \in Places : Leads(bodies, splits, Readable, At, q) /\ Whole(splits, q)
         /\ Readable # <<>> => At \in Bytes
<1>1. /\ fd = "open" /\ bodies \in Bodies /\ peer \in Places /\ Whole(splits, peer)
      /\ mode \in {"plain", "tls"}
  BY RouterDecodeAssumption DEF IInv, TypeOK, PeerInv, DecoderInv, Bodies, Places
<1>2. Readable \in Seq(Bytes) /\ Readable \in Seq(Raw)
  BY <1>1, SeqMonotonic DEF IInv, TypeOK, PeerInv, Readable, Raw
<1>3. PICK q \in Places, r \in Places :
        /\ Leads(bodies, splits, input, At, q) /\ Leads(bodies, splits, rawInput, q, r)
        /\ Leads(bodies, splits, inbound, r, peer)
        /\ mode = "tls" => Whole(splits, q)
  BY <1>1 DEF IInv, Continues
<1>4. CASE mode = "tls"
  BY <1>1, <1>2, <1>3, <1>4, LeadsFirst DEF Readable
<1>5. CASE mode = "plain"
  <2>1. Leads(bodies, splits, <<>>, At, q) /\ Leads(bodies, splits, <<>>, q, r)
    BY <1>3, <1>5 DEF IInv, PeerInv
  <2>2. r = At
    BY <2>1, LeadsNothing
  <2> QED
    BY <1>1, <1>2, <1>3, <1>5, <2>2, LeadsFirst DEF Readable
<1> QED
  BY <1>1, <1>4, <1>5

\* Reading n of them, up to the end of the packet, moves on by n bytes.
LEMMA Reads ==
  ASSUME IInv, pc # "wait", NEW n \in 1..Len(Readable),
         n - 1 <= HeadLen + bodies[At.pkt] - At.at, ReadableTaken(n), UNCHANGED peerVars
  PROVE  /\ \A i \in 1..n : Readable[i] = Byte(At.pkt, At.at + (i - 1))
         /\ inbound' \in Seq(Raw) /\ rawInput' \in Seq(Raw) /\ input' \in Seq(Bytes) /\ PeerInv'
         /\ \E p \in Places : Beyond(bodies, At, n, p) /\ Continues(p)'
<1> USE RouterDecodeAssumption
<1>1. /\ fd = "open" /\ bodies \in Bodies /\ mode \in {"plain", "tls"}
      /\ Readable \in Seq(Bytes) /\ Readable \in Seq(Raw) /\ Readable # <<>> /\ At \in Bytes
      /\ n \in 0..Len(Readable)
      /\ inbound \in Seq(Raw) /\ rawInput \in Seq(Raw) /\ input \in Seq(Bytes)
  BY ReadableLeads DEF IInv, TypeOK
<1>2. NoTag(Readable, 1, n)
  BY <1>1, TagNoByte DEF NoTag
<1>3. /\ bodies' = bodies /\ splits' = splits /\ mode' = mode /\ peer' = peer
      /\ unsealed' = unsealed
  BY DEF peerVars
<1>4. Drop(Readable, n) \in Seq(Bytes) /\ Drop(Readable, n) \in Seq(Raw)
  BY <1>1, Cut
<1>5. PICK q \in Places, r \in Places :
        /\ Leads(bodies, splits, input, At, q) /\ Leads(bodies, splits, rawInput, q, r)
        /\ Leads(bodies, splits, inbound, r, peer)
        /\ mode = "tls" => Whole(splits, q)
  BY <1>1 DEF IInv, Continues
<1>6. CASE mode = "tls"
  <2>1. Readable = input /\ input' = Drop(Readable, n) /\ inbound' = inbound /\ rawInput' = rawInput
    BY <1>6 DEF Readable, ReadableTaken
  <2>2. Leads(bodies, splits, Readable, At, q)
    BY <1>5, <2>1
  <2>3. /\ \A i \in 1..n : Readable[i] = Byte(At.pkt, At.at + (i - 1))
        /\ \E p \in Places : Leads(bodies, splits, Drop(Readable, n), p, q) /\ Beyond(bodies, At, n, p)
    BY <1>1, <1>2, <2>2, LeadsStraight
  <2>4. PICK p \in Places : Leads(bodies, splits, input', p, q) /\ Beyond(bodies, At, n, p)
    BY <2>1, <2>3
  <2>5. Continues(p)'
    BY <1>3, <1>5, <2>1, <2>4 DEF Continues
  <2>6. PeerInv'
    BY <1>3, <1>6, <2>1 DEF IInv, PeerInv, Size
  <2> QED
    BY <1>1, <1>4, <2>1, <2>3, <2>4, <2>5, <2>6
<1>7. CASE mode = "plain"
  <2>1. /\ Readable = inbound /\ inbound' = Drop(Readable, n) /\ input' = input /\ rawInput' = rawInput
        /\ input = <<>> /\ rawInput = <<>>
    BY <1>7 DEF Readable, ReadableTaken, IInv, PeerInv
  <2>2. Leads(bodies, splits, <<>>, At, q) /\ Leads(bodies, splits, <<>>, q, r)
    BY <1>5, <2>1
  <2>3. r = At
    BY <2>2, LeadsNothing
  <2>4. Leads(bodies, splits, Readable, At, peer)
    BY <1>5, <2>1, <2>3
  <2>5. /\ \A i \in 1..n : Readable[i] = Byte(At.pkt, At.at + (i - 1))
        /\ \E p \in Places : Leads(bodies, splits, Drop(Readable, n), p, peer) /\ Beyond(bodies, At, n, p)
    BY <1>1, <1>2, <2>4, LeadsStraight
  <2>6. PICK p \in Places : Leads(bodies, splits, inbound', p, peer) /\ Beyond(bodies, At, n, p)
    BY <2>1, <2>5
  <2>7. Leads(bodies, splits, <<>>, p, p)
    BY LeadsEmpty
  <2>8. Continues(p)'
    BY <1>3, <1>7, <2>1, <2>6, <2>7 DEF Continues
  <2>9. PeerInv'
    BY <1>3, <1>4, <1>7, <2>1 DEF IInv, PeerInv, Size
  <2> QED
    BY <1>1, <1>4, <2>1, <2>5, <2>6, <2>8, <2>9
<1> QED
  BY <1>1, <1>6, <1>7

\* A whole header is that of the next packet, and UnPack returns its length.
LEMMA HeaderRead ==
  ASSUME IInv, HeadRead
  PROVE  /\ At = Byte(handled + 1, 1) /\ handled + 1 \in Packets
         /\ Lengths(Take(Readable, HeadLen)) = {bodies[handled + 1]}
         /\ Readable[1] = Byte(handled + 1, 1)
         /\ inbound' \in Seq(Raw) /\ rawInput' \in Seq(Raw) /\ input' \in Seq(Bytes) /\ PeerInv'
         /\ \E p \in Places : Beyond(bodies, At, HeadLen, p) /\ Continues(p)'
<1> USE RouterDecodeAssumption
<1> DEFINE k == handled + 1
<1>1. /\ pc = "head" /\ Len(Readable) >= HeadLen /\ ReadableTaken(HeadLen) /\ UNCHANGED peerVars
  BY DEF HeadRead
<1>2. /\ bodies \in Bodies /\ Readable \in Seq(Bytes) /\ Readable \in Seq(Raw)
      /\ Readable # <<>> => At \in Bytes
  BY <1>1, ReadableLeads
<1>3. HeadLen \in 1..Len(Readable) /\ HeadLen \in 0..Len(Readable) /\ Readable # <<>>
  BY <1>1, <1>2
<1>4. At = Byte(k, 1) /\ At.pkt = k /\ At.at = 1
  BY <1>1 DEF IInv, DecoderInv, At, Byte
<1>5. k \in Packets /\ bodies[k] \in 0..MaxBody
  BY <1>2, <1>3, <1>4 DEF Bytes, Bodies
<1>6. HeadLen - 1 <= HeadLen + bodies[At.pkt] - At.at
  BY <1>4, <1>5
<1>7. /\ \A i \in 1..HeadLen : Readable[i] = Byte(At.pkt, At.at + (i - 1))
      /\ inbound' \in Seq(Raw) /\ rawInput' \in Seq(Raw) /\ input' \in Seq(Bytes) /\ PeerInv'
      /\ \E p \in Places : Beyond(bodies, At, HeadLen, p) /\ Continues(p)'
  BY <1>1, <1>3, <1>6, Reads
<1> HIDE DEF k
<1>8. \A i \in 1..HeadLen : Readable[i] = Byte(k, i)
  BY <1>4, <1>7
<1>9. Take(Readable, HeadLen) = Header(k)
  <2>1. /\ Take(Readable, HeadLen) \in Seq(Bytes) /\ Len(Take(Readable, HeadLen)) = HeadLen
        /\ \A i \in 1..HeadLen : Take(Readable, HeadLen)[i] = Readable[i]
    BY <1>2, <1>3, Cut
  <2>2. Take(Readable, HeadLen) = [i \in 1..HeadLen |-> Take(Readable, HeadLen)[i]]
    BY <2>1
  <2> QED
    BY <1>8, <2>1, <2>2 DEF Header
<1>10. Readable[1] = Byte(k, 1) /\ Take(Readable, HeadLen)[1] = Byte(k, 1)
  BY <1>8, <1>9 DEF Header
<1>11. Lengths(Take(Readable, HeadLen)) = {bodies[k]}
  BY <1>5, <1>9, <1>10 DEF Lengths, Byte
<1> QED
  BY <1>4, <1>5, <1>7, <1>10, <1>11 DEF k

LEMMA HeadReadStep == IInv /\ HeadRead => IInv'
<1> SUFFICES ASSUME IInv, HeadRead PROVE IInv'
  OBVIOUS
<1> USE RouterDecodeAssumption
<1> DEFINE k == handled + 1  len == bodies[k]
<1>1. /\ At = Byte(k, 1) /\ k \in Packets /\ Readable[1] = Byte(k, 1)
      /\ Lengths(Take(Readable, HeadLen)) = {len}
      /\ inbound' \in Seq(Raw) /\ rawInput' \in Seq(Raw) /\ input' \in Seq(Bytes) /\ PeerInv'
  BY HeaderRead
<1>2. PICK p \in Places : Beyond(bodies, At, HeadLen, p) /\ Continues(p)'
  BY HeaderRead
<1>3. /\ len \in 0..MaxBody /\ pc = "head" /\ packDataLength = 0 /\ fd = "open" /\ handled \in 0..MaxPacket
      /\ readBuffer = <<>> /\ k \in 1..MaxPacket
  BY <1>1 DEF IInv, TypeOK, DecoderInv, HeadRead, Framed, BufferIsPrefix, Packets
<1>4. UNCHANGED <<peerVars, tlsRawSize>> /\ UNCHANGED <<readBuffer, emitted>>
  BY DEF HeadRead, decoder
<1>5. \/ /\ TooLong(len) /\ pc' = "wait" /\ fd' = "closed" /\ UNCHANGED decoder
      \/ /\ len = 0 /\ pc' = "wait" /\ handled' = k
         /\ UNCHANGED <<packDataLength, header, readBuffer, emitted, fd>>
      \/ /\ len > 0 /\ pc' = "body" /\ packDataLength' = len /\ header' = Readable[1].pkt
         /\ UNCHANGED <<readBuffer, handled, emitted, fd>>
  BY <1>1 DEF HeadRead
<1> HIDE DEF len, k
<1>6. CASE TooLong(len) /\ pc' = "wait" /\ fd' = "closed" /\ UNCHANGED decoder
  <2>1. TypeOK'
    BY <1>1, <1>4, <1>6 DEF IInv, TypeOK, peerVars, decoder, Raw, Bytes
  <2>2. DecoderInv' /\ Framed'
    BY <1>4, <1>6 DEF IInv, DecoderInv, Framed, MessagesExact, BufferIsPrefix, Body, peerVars, decoder
  <2> QED
    BY <1>1, <1>6, <2>1, <2>2 DEF IInv
<1>7. CASE /\ len = 0 /\ pc' = "wait" /\ handled' = k
           /\ UNCHANGED <<packDataLength, header, readBuffer, emitted, fd>>
  <2>1. TypeOK'
    BY <1>1, <1>3, <1>4, <1>7 DEF IInv, TypeOK, peerVars, Raw, Bytes
  <2>2. DecoderInv'
    <3>1. \A i \in DOMAIN emitted : emitted[i].pkt \in Packets /\ emitted[i].pkt <= handled
      <4>1. emitted \in Seq([pkt : Packets, data : Seq(Bytes)])
        BY DEF IInv, TypeOK
      <4>2. \A i \in DOMAIN emitted : emitted[i] \in [pkt : Packets, data : Seq(Bytes)]
        BY <4>1, ElementsOfSeq
      <4>3. \A i \in DOMAIN emitted : emitted[i].pkt <= handled
        BY DEF IInv, DecoderInv
      <4> QED
        BY <4>2, <4>3
    <3> QED
      BY <1>3, <1>7, <3>1 DEF DecoderInv, Packets, k
  <2>3. MessagesExact'
    <3>1. \A j \in 1..handled' : j \in 1..handled \/ j = k
      BY <1>3, <1>7 DEF k
    <3>2. bodies'[k] = 0
      BY <1>4, <1>7 DEF len, peerVars
    <3> QED
      BY <1>4, <1>7, <3>1, <3>2 DEF IInv, Framed, MessagesExact, Body, peerVars
  <2>4. BufferIsPrefix'
    BY <1>3, <1>7 DEF BufferIsPrefix
  <2>5. p = Byte(k + 1, 1)
    BY <1>1, <1>2, <1>3, <1>7 DEF Beyond, Byte, len
  <2>6. At' = p
    BY <1>3, <1>7, <2>5 DEF At
  <2> QED
    BY <1>1, <1>2, <2>1, <2>2, <2>3, <2>4, <2>6 DEF IInv, Framed
<1>8. CASE /\ len > 0 /\ pc' = "body" /\ packDataLength' = len /\ header' = Readable[1].pkt
           /\ UNCHANGED <<readBuffer, handled, emitted, fd>>
  <2>1. header' = k
    BY <1>1, <1>8 DEF Byte
  <2>2. TypeOK'
    BY <1>1, <1>3, <1>4, <1>8, <2>1, SMTT(60) DEF IInv, TypeOK, peerVars, Raw, Bytes
  <2>3. DecoderInv'
    BY <1>1, <1>3, <1>8, <2>1 DEF IInv, DecoderInv, k
  <2>4. MessagesExact'
    BY <1>4, <1>8 DEF IInv, Framed, MessagesExact, Body, peerVars
  <2>5. BufferIsPrefix'
    <3>1. bodies'[header'] = len /\ readBuffer' = <<>> /\ Len(<<>>) = 0 /\ packDataLength' = len
      BY <1>3, <1>4, <1>8, <2>1 DEF len, peerVars
    <3>2. Take(Body(header)', 0) = <<>>
      BY SubSeqEmpty DEF Take
    <3> QED
      BY <1>3, <1>8, <3>1, <3>2 DEF BufferIsPrefix
  <2>6. p = Byte(k, HeadLen + 1)
    BY <1>1, <1>2, <1>3, <1>8 DEF Beyond, Byte, len
  <2>7. At' = p
    BY <1>3, <1>8, <2>1, <2>6 DEF At
  <2> QED
    BY <1>1, <1>2, <2>2, <2>3, <2>4, <2>5, <2>7 DEF IInv, Framed
<1> QED
  BY <1>5, <1>6, <1>7, <1>8

\* A header that is cut short closes the connection.
LEMMA HeadFailsStep == IInv /\ HeadFails => IInv'
<1> SUFFICES ASSUME IInv, HeadFails PROVE IInv'
  OBVIOUS
<1> USE RouterDecodeAssumption
<1> DEFINE n == Len(Readable)
<1>1. /\ pc = "head" /\ n \in 1..HeadLen - 1 /\ ReadableTaken(n) /\ pc' = "wait" /\ fd' = "closed"
      /\ UNCHANGED <<peerVars, tlsRawSize, decoder>>
  BY DEF HeadFails
<1>2. /\ bodies \in Bodies /\ Readable \in Seq(Bytes)
      /\ Readable # <<>> => At \in Bytes
  BY <1>1, ReadableLeads
<1>3. n \in 1..Len(Readable) /\ At \in Bytes
  BY <1>1, <1>2
<1>4. At.at = 1 /\ bodies[At.pkt] \in 0..MaxBody
  BY <1>1, <1>2, <1>3 DEF IInv, DecoderInv, At, Byte, Bytes, Bodies
<1>5. n - 1 <= HeadLen + bodies[At.pkt] - At.at
  BY <1>1, <1>4
<1> HIDE DEF n
<1>6. inbound' \in Seq(Raw) /\ rawInput' \in Seq(Raw) /\ input' \in Seq(Bytes) /\ PeerInv'
  BY <1>1, <1>3, <1>5, Reads
<1>7. TypeOK'
  BY <1>1, <1>6 DEF IInv, TypeOK, peerVars, decoder, Raw, Bytes
<1>8. DecoderInv' /\ Framed'
  BY <1>1 DEF IInv, DecoderInv, Framed, MessagesExact, BufferIsPrefix, Body, peerVars, decoder
<1> QED
  BY <1>1, <1>6, <1>7, <1>8 DEF IInv

\* A body is a sequence of bytes.
LEMMA BodyIsSeq ==
  ASSUME bodies \in Bodies, NEW k \in Packets
  PROVE  Body(k) \in Seq(Bytes) /\ Len(Body(k)) = bodies[k]
<1>1. bodies[k] \in 0..MaxBody /\ bodies[k] \in Nat
  BY RouterDecodeAssumption DEF Bodies
<1>2. \A i \in 1..bodies[k] : Byte(k, HeadLen + i) \in Bytes
  BY <1>1, RouterDecodeAssumption DEF Byte, Bytes, Packets
<1>3. Body(k) \in [1..bodies[k] -> Bytes]
  BY <1>2 DEF Body
<1> QED
  BY <1>1, <1>3, FunctionIsSeq

\* What a read adds to the buffer are the next bytes of the body.
LEMMA BodyRead ==
  ASSUME IInv, pc = "body", Readable # <<>>, UNCHANGED peerVars,
         NEW n, n = Lesser(Wanted, Len(Readable)), ReadableTaken(n)
  PROVE  /\ n \in 1..packDataLength - Len(readBuffer)
         /\ readBuffer \o Take(Readable, n) \in Seq(Bytes)
         /\ Len(readBuffer \o Take(Readable, n)) = Len(readBuffer) + n
         /\ readBuffer \o Take(Readable, n) = Take(Body(header), Len(readBuffer) + n)
         /\ header \in Packets /\ header = handled + 1 /\ packDataLength = bodies[header]
         /\ packDataLength \in 1..MaxBody /\ Len(readBuffer) \in 0..packDataLength - 1
         /\ inbound' \in Seq(Raw) /\ rawInput' \in Seq(Raw) /\ input' \in Seq(Bytes) /\ PeerInv'
         /\ \E p \in Places : /\ Beyond(bodies, Byte(header, HeadLen + Len(readBuffer) + 1), n, p)
                             /\ Continues(p)'
<1> USE RouterDecodeAssumption
<1> DEFINE l == Len(readBuffer)  t == Take(Readable, n)  d == readBuffer \o t  b == Body(header)
<1>1. /\ packDataLength > 0 /\ packDataLength \in 1..MaxBody /\ header \in Packets
      /\ header = handled + 1 /\ packDataLength = bodies[header] /\ l < packDataLength
      /\ readBuffer = Take(b, l) /\ readBuffer \in Seq(Bytes) /\ l \in Nat
  BY SMTT(60) DEF IInv, TypeOK, DecoderInv, Framed, BufferIsPrefix
<1>2. /\ bodies \in Bodies /\ Readable \in Seq(Bytes) /\ At \in Bytes
  BY ReadableLeads
<1>3. At = Byte(header, HeadLen + l + 1) /\ At.pkt = header /\ At.at = HeadLen + l + 1
  BY <1>1 DEF At, Byte
<1> HIDE DEF l
<1>4. n \in 1..packDataLength - l /\ n \in 1..Len(Readable) /\ n \in 0..Len(Readable)
  BY <1>1, <1>2 DEF Wanted, Lesser, l
<1>5. n - 1 <= HeadLen + bodies[At.pkt] - At.at
  BY <1>1, <1>3, <1>4, SMTT(60)
<1>6. /\ \A i \in 1..n : Readable[i] = Byte(At.pkt, At.at + (i - 1))
      /\ inbound' \in Seq(Raw) /\ rawInput' \in Seq(Raw) /\ input' \in Seq(Bytes) /\ PeerInv'
      /\ \E p \in Places : Beyond(bodies, At, n, p) /\ Continues(p)'
  BY <1>4, <1>5, Reads
<1>7. t \in Seq(Bytes) /\ Len(t) = n /\ \A i \in 1..n : t[i] = Readable[i]
  BY <1>2, <1>4, Cut
<1> HIDE DEF t
<1>8. /\ d \in Seq(Bytes) /\ Len(d) = l + n
      /\ \A i \in 1..l : d[i] = readBuffer[i]
      /\ \A i \in 1..n : d[l + i] = t[i]
  <2>1. /\ d \in Seq(Bytes) /\ Len(d) = Len(readBuffer) + Len(t)
        /\ \A i \in 1..Len(readBuffer) + Len(t) :
             d[i] = IF i <= Len(readBuffer) THEN readBuffer[i] ELSE t[i - Len(readBuffer)]
    <3>1. readBuffer \in Seq(Bytes) /\ t \in Seq(Bytes)
      BY <1>1, <1>7
    <3> QED
      BY <3>1, ConcatProperties
  <2>2. l = Len(readBuffer) /\ Len(t) = n /\ l \in Nat /\ n \in Nat
    BY <1>1, <1>4, <1>7 DEF l
  <2> HIDE DEF d
  <2> QED
    BY <2>1, <2>2
<1>9. /\ b = [i \in 1..packDataLength |-> Byte(header, HeadLen + i)]
      /\ b \in [1..packDataLength -> Bytes]
  BY <1>1 DEF Body, Byte, Bytes, Packets
<1> HIDE DEF b
<1>10. b \in Seq(Bytes) /\ Len(b) = packDataLength
  <2>1. packDataLength \in Nat
    BY <1>1
  <2> QED
    BY <1>9, <2>1, FunctionIsSeq
<1> DEFINE m == l + n  c == Take(b, m)
<1>11. m \in 0..Len(b) /\ l \in 0..Len(b)
  BY <1>1, <1>4, <1>10
<1> HIDE DEF m
<1>12. c \in Seq(Bytes) /\ Len(c) = m /\ \A i \in 1..m : c[i] = b[i]
  BY <1>10, <1>11, Cut
<1>13. \A i \in 1..l : readBuffer[i] = b[i]
  <2>1. readBuffer = Take(b, l)
    BY <1>1
  <2> HIDE DEF l
  <2>2. \A i \in 1..l : Take(b, l)[i] = b[i]
    BY <1>10, <1>11, Cut
  <2> QED
    BY <2>1, <2>2
<1>14. m = l + n /\ packDataLength \in Nat /\ l \in Nat /\ n \in Nat /\ n >= 1 /\ l + n <= packDataLength /\ HeadLen \in Nat
  BY <1>1, <1>4 DEF m
<1>15. \A i \in 1..l : d[i] = readBuffer[i]
  BY <1>8
<1>16. \A i \in 1..n : d[l + i] = Byte(header, HeadLen + (l + i))
  <2> SUFFICES ASSUME NEW i \in 1..n PROVE d[l + i] = Byte(header, HeadLen + (l + i))
    OBVIOUS
  <2>1. d[l + i] = Byte(At.pkt, At.at + (i - 1))
    BY <1>6, <1>7, <1>8
  <2>2. At.at + (i - 1) = HeadLen + (l + i)
    BY <1>3, <1>14
  <2> QED
    BY <1>3, <2>1, <2>2
<1> HIDE DEF c, d
<1>17. ASSUME NEW i \in 1..m PROVE d[i] = c[i]
  <2>1. i \in 1..packDataLength
    BY <1>14
  <2>2. b[i] = Byte(header, HeadLen + i)
    BY <1>9, <2>1
  <2>3. c[i] = b[i]
    BY <1>12
  <2>4. CASE i <= l
    <3>1. i \in 1..l
      BY <1>14, <2>4
    <3> QED
      BY <3>1, <1>13, <1>15, <2>2, <2>3
  <2>5. CASE i > l
    <3>1. PICK j \in 1..n : i = l + j
      BY <1>14, <2>5
    <3> QED
      BY <3>1, <1>16, <2>2, <2>3
  <2> QED
    BY <1>14, <2>4, <2>5
<1>18. d = c
  BY <1>8, <1>12, <1>14, <1>17, SeqEqual
<1> QED
  BY <1>1, <1>3, <1>4, <1>6, <1>8, <1>18, SMTT(60) DEF l, t, m, c, d, b

LEMMA BodyPartStep == IInv /\ BodyPart => IInv'
<1> SUFFICES ASSUME IInv, BodyPart PROVE IInv'
  OBVIOUS
<1> USE RouterDecodeAssumption
<1> DEFINE n == Lesser(Wanted, Len(Readable))  d == readBuffer \o Take(Readable, n)
           l == Len(readBuffer)
<1>1. /\ pc = "body" /\ Readable # <<>> /\ ReadableTaken(n) /\ Len(d) # packDataLength
      /\ readBuffer' = d /\ tlsRawSize' = Spent(n) /\ pc' \in {"body", "wait"}
      /\ UNCHANGED <<peerVars, packDataLength, header, handled, emitted, fd>>
  BY DEF BodyPart
<1>2. UNCHANGED peerVars
  BY <1>1
<1> HIDE DEF n
<1>3. /\ n \in 1..packDataLength - l /\ d \in Seq(Bytes) /\ Len(d) = l + n
      /\ d = Take(Body(header), l + n)
      /\ header \in Packets /\ header = handled + 1 /\ packDataLength = bodies[header]
      /\ packDataLength \in 1..MaxBody /\ l \in 0..packDataLength - 1
      /\ inbound' \in Seq(Raw) /\ rawInput' \in Seq(Raw) /\ input' \in Seq(Bytes) /\ PeerInv'
      /\ \E p \in Places : Beyond(bodies, Byte(header, HeadLen + l + 1), n, p) /\ Continues(p)'
  BY <1>1, <1>2, BodyRead DEF n
<1>4. PICK p \in Places : Beyond(bodies, Byte(header, HeadLen + l + 1), n, p) /\ Continues(p)'
  BY <1>3
<1> HIDE DEF l, d
<1>5. l + n < packDataLength /\ l + n \in Nat
  BY <1>1, <1>3, SMTT(60)
<1>6. TypeOK'
  <2>1. tlsRawSize' \in Int
    BY <1>1, <1>3 DEF IInv, TypeOK, Spent
  <2>2. readBuffer' \in Seq(Bytes) /\ Len(readBuffer') <= MaxBody
    BY <1>1, <1>3, <1>5
  <2> QED
    BY <1>1, <1>3, <2>1, <2>2 DEF IInv, TypeOK, peerVars, Raw, Bytes
<1>7. DecoderInv'
  BY <1>1, <1>3 DEF IInv, DecoderInv
<1>8. MessagesExact'
  BY <1>1 DEF IInv, Framed, MessagesExact, Body, peerVars
<1>9. BufferIsPrefix'
  <2>1. bodies' = bodies /\ Body(header)' = Body(header)
    BY <1>1 DEF peerVars, Body
  <2> QED
    BY <1>1, <1>3, <1>5, <2>1 DEF BufferIsPrefix
<1>10. At' = p
  <2>1. p = Byte(header, HeadLen + l + 1 + n)
    BY <1>3, <1>4, <1>5 DEF Beyond, Byte
  <2>2. HeadLen + l + 1 + n = HeadLen + Len(readBuffer') + 1 /\ packDataLength' > 0
    BY <1>1, <1>3, <1>5
  <2> QED
    BY <1>1, <2>1, <2>2 DEF At
<1> QED
  BY <1>3, <1>4, <1>6, <1>7, <1>8, <1>9, <1>10 DEF IInv, Framed

LEMMA BodyDoneStep == IInv /\ BodyDone => IInv'
<1> SUFFICES ASSUME IInv, BodyDone PROVE IInv'
  OBVIOUS
<1> USE RouterDecodeAssumption
<1> DEFINE n == Lesser(Wanted, Len(Readable))  d == readBuffer \o Take(Readable, n)
           l == Len(readBuffer)  e == [pkt |-> header, data |-> d]
<1>1. /\ pc = "body" /\ Readable # <<>> /\ ReadableTaken(n) /\ Len(d) = packDataLength
      /\ emitted' = Append(emitted, e) /\ handled' = handled + 1
      /\ readBuffer' = <<>> /\ packDataLength' = 0 /\ tlsRawSize' = 0 /\ pc' = "wait"
      /\ UNCHANGED <<peerVars, header, fd>>
  BY DEF BodyDone
<1>2. UNCHANGED peerVars
  BY <1>1
<1> HIDE DEF n
<1>3. /\ n \in 1..packDataLength - l /\ d \in Seq(Bytes) /\ Len(d) = l + n
      /\ d = Take(Body(header), l + n)
      /\ header \in Packets /\ header = handled + 1 /\ packDataLength = bodies[header]
      /\ packDataLength \in 1..MaxBody /\ l \in 0..packDataLength - 1
      /\ inbound' \in Seq(Raw) /\ rawInput' \in Seq(Raw) /\ input' \in Seq(Bytes) /\ PeerInv'
      /\ \E p \in Places : Beyond(bodies, Byte(header, HeadLen + l + 1), n, p) /\ Continues(p)'
  BY <1>1, <1>2, BodyRead DEF n
<1>4. PICK p \in Places : Beyond(bodies, Byte(header, HeadLen + l + 1), n, p) /\ Continues(p)'
  BY <1>3
<1> HIDE DEF l, d
<1>5. l + n = packDataLength
  BY <1>1, <1>3
<1>6. e.pkt = header /\ e.data = d /\ e \in [pkt : Packets, data : Seq(Bytes)]
  BY <1>3
<1> HIDE DEF e
<1>7. d = Body(header) /\ d # <<>>
  <2>1. bodies \in Bodies
    BY DEF IInv, TypeOK, Bodies
  <2>2. Body(header) \in Seq(Bytes) /\ Len(Body(header)) = packDataLength
    BY <1>3, <2>1, BodyIsSeq
  <2>3. d = Body(header)
    BY <1>3, <1>5, <2>2, SubSeqFull DEF Take
  <2> QED
    BY <1>1, <1>3, <2>3
<1> DEFINE R == [pkt : Packets, data : Seq(Bytes)]
<1>8. emitted \in Seq(R) /\ e \in R /\ \A x \in R : x.pkt \in Packets
  BY <1>6 DEF IInv, TypeOK
<1> HIDE DEF R
<1>9. /\ emitted' \in Seq(R) /\ Len(emitted) \in Nat /\ Len(emitted') = Len(emitted) + 1
      /\ DOMAIN emitted = 1..Len(emitted) /\ DOMAIN emitted' = 1..Len(emitted) + 1
      /\ \A i \in 1..Len(emitted) : emitted'[i] = emitted[i]
      /\ \A i \in 1..Len(emitted) : emitted[i] \in R
      /\ emitted'[Len(emitted) + 1] = e
  BY <1>1, <1>8, AppendProperties
<1>10. TypeOK'
  <2>1. /\ <<>> \in Seq(Bytes) /\ Len(<<>>) = 0 /\ handled' \in 0..MaxPacket
    BY <1>1, <1>3 DEF Packets
  <2> QED
    BY <1>1, <1>3, <1>9, <2>1 DEF IInv, TypeOK, peerVars, Raw, Bytes, R
<1>11. /\ handled \in Nat
       /\ \A i \in 1..Len(emitted) : emitted[i].pkt \in 1..MaxPacket /\ emitted[i].pkt <= handled
  <2>1. \A i \in 1..Len(emitted) : emitted[i].pkt \in 1..MaxPacket
    BY <1>8, <1>9 DEF Packets
  <2> QED
    BY <1>9, <2>1, SMTT(60) DEF IInv, TypeOK, DecoderInv
<1>12. DecoderInv'
  <2>1. ASSUME NEW i \in 1..Len(emitted) + 1 PROVE emitted'[i].pkt <= handled + 1
    <3>1. CASE i \in 1..Len(emitted)
      BY <1>9, <1>11, <3>1
    <3>2. CASE i = Len(emitted) + 1
      BY <1>3, <1>6, <1>9, <1>11, <3>2
    <3> QED
      BY <1>9, <3>1, <3>2
  <2> QED
    BY <1>1, <1>9, <2>1 DEF DecoderInv
<1>13. MessagesExact'
  <2>1. bodies' = bodies /\ \A k : Body(k)' = Body(k)
    BY <1>1 DEF peerVars, Body
  <2>2. ASSUME NEW i \in 1..Len(emitted) + 1
        PROVE  /\ emitted'[i].data = Body(emitted'[i].pkt) /\ emitted'[i].data # <<>>
               /\ \A j \in 1..i - 1 : emitted'[j].pkt < emitted'[i].pkt
    <3>1. CASE i \in 1..Len(emitted)
      <4>1. \A j \in 1..i - 1 : j \in 1..Len(emitted)
        BY <1>9, <3>1
      <4> QED
        BY <1>9, <3>1, <4>1 DEF IInv, Framed, MessagesExact
    <3>2. CASE i = Len(emitted) + 1
      <4>1. \A j \in 1..i - 1 : j \in 1..Len(emitted)
        BY <1>9, <3>2
      <4>2. \A j \in 1..i - 1 : emitted'[j].pkt \in 1..MaxPacket /\ emitted'[j].pkt <= handled
        BY <1>9, <1>11, <4>1
      <4>3. \A j \in 1..i - 1 : emitted'[j].pkt < header
        <5>1. header = handled + 1 /\ handled \in Nat
          BY <1>3, <1>11
        <5> QED
          BY <4>2, <5>1
      <4> QED
        BY <1>6, <1>7, <1>9, <3>2, <4>3
    <3> QED
      BY <1>9, <3>1, <3>2
  <2>3. ASSUME NEW k \in 1..handled', bodies[k] > 0
        PROVE  \E i \in 1..Len(emitted) + 1 : emitted'[i].pkt = k
    <3>1. CASE k = header
      BY <1>6, <1>9, <3>1
    <3>2. CASE k # header
      <4>1. k \in 1..handled
        BY <1>1, <1>3, <1>11, <3>2
      <4>2. PICK i \in 1..Len(emitted) : emitted[i].pkt = k
        BY <1>9, <2>3, <4>1 DEF IInv, Framed, MessagesExact
      <4> QED
        BY <1>9, <4>2
    <3> QED
      BY <3>1, <3>2
  <2> QED
    BY <1>9, <2>1, <2>2, <2>3 DEF MessagesExact
<1>14. BufferIsPrefix'
  BY <1>1 DEF BufferIsPrefix
<1>15. At' = p
  <2>1. p = Byte(header + 1, 1)
    BY <1>3, <1>4, <1>5 DEF Beyond, Byte
  <2> QED
    BY <1>1, <1>3, <2>1 DEF At
<1> QED
  BY <1>3, <1>4, <1>10, <1>12, <1>13, <1>14, <1>15 DEF IInv, Framed

-----------------------------------------------------------------------------
(* The theorems.                                                           *)

LEMMA FramingStep == IInv /\ [Next]_vars => IInv'
<1> SUFFICES ASSUME IInv, [Next]_vars PROVE IInv'
  OBVIOUS
<1>1. CASE PollerStep
  BY <1>1, IdleStep, FillStep, DecryptStep, HeadFailsStep, HeadReadStep, BodyDoneStep, BodyPartStep
     DEF PollerStep
<1>2. CASE PeerSends \/ PeerSeals \/ PeerEnds
  BY <1>2, PeerSendsStep, PeerSealsStep, PeerEndsStep
<1>3. CASE UNCHANGED vars
  <2>1. UNCHANGED <<peerVars, inbound, tlsVars, decoder, pc, fd>>
    BY <1>3 DEF vars
  <2>2. TypeOK'
    BY <2>1 DEF IInv, TypeOK, peerVars, tlsVars, decoder, Raw, Bytes
  <2>3. PeerInv'
    BY <2>1 DEF IInv, PeerInv, peerVars, tlsVars, Size
  <2>4. DecoderInv' /\ Framed' /\ At' = At
    BY <2>1, StillFramed DEF IInv, peerVars
  <2>5. fd' = "open" => Continues(At)'
    BY <2>1, <2>4 DEF IInv, Continues, peerVars, tlsVars
  <2> QED
    BY <2>2, <2>3, <2>4, <2>5 DEF IInv
<1> QED
  BY <1>1, <1>2, <1>3 DEF Next

LEMMA StreamContinues == Spec => []IInv
<1> QED
  BY FramingInit, FramingStep, PTL DEF Spec

\* The decoder's state has its types: in particular it counts no packet the
\* peer has not sent, and its buffer never exceeds a body.
THEOREM RouterTypeCorrect == Spec => []TypeOK
<1>1. IInv => TypeOK
  BY DEF IInv
<1> QED
  BY <1>1, StreamContinues, PTL

\* DecodePacket frames the packets of the router protocol as the peer has,
\* however segments, TLS records and reads cut the stream.
THEOREM AlwaysFramed == Spec => []Framed
<1>1. IInv => Framed
  BY DEF IInv
<1> QED
  BY <1>1, StreamContinues, PTL

\* A step of DecodePacket that closes the connection has a cause.
LEMMA ClosingStep == IInv /\ [Next]_vars => (fd' # fd => PeerAtFault \/ splits)
<1> SUFFICES ASSUME IInv, [Next]_vars, fd' # fd PROVE PeerAtFault \/ splits
  OBVIOUS
<1> USE RouterDecodeAssumption
<1>1. CASE EndOfStream
  BY <1>1 DEF EndOfStream, PeerAtFault
<1>2. CASE HeadFails
  <2> DEFINE n == Len(Readable)
  <2>1. pc = "head" /\ n \in 1..HeadLen - 1
    BY <1>2 DEF HeadFails
  <2>2. /\ bodies \in Bodies /\ Readable \in Seq(Bytes) /\ Readable \in Seq(Raw)
        /\ Readable # <<>> => At \in Bytes
    BY <2>1, ReadableLeads
  <2>3. PICK q \in Places : Leads(bodies, splits, Readable, At, q) /\ Whole(splits, q)
    BY <2>1, ReadableLeads
  <2>4. n \in 1..Len(Readable) /\ n \in 0..Len(Readable) /\ At \in Bytes
    BY <2>1, <2>2
  <2>5. At.at = 1 /\ bodies[At.pkt] \in 0..MaxBody
    BY <2>1, <2>2, <2>4 DEF IInv, DecoderInv, At, Byte, Bytes, Bodies
  <2>6. n - 1 <= HeadLen + bodies[At.pkt] - At.at
    BY <2>1, <2>5
  <2>7. NoTag(Readable, 1, n)
    BY <2>2, TagNoByte DEF NoTag
  <2>8. Drop(Readable, n) = <<>>
    BY <2>2, SubSeqEmpty DEF Drop
  <2> HIDE DEF n
  <2>9. PICK r \in Places : Leads(bodies, splits, Drop(Readable, n), r, q) /\ Beyond(bodies, At, n, r)
    BY <2>2, <2>3, <2>4, <2>6, <2>7, LeadsStraight
  <2>10. q = r
    BY <2>8, <2>9, LeadsNothing
  <2>11. r.at = n + 1
    BY <2>1, <2>5, <2>9 DEF Beyond, Byte
  <2> QED
    BY <2>1, <2>3, <2>10, <2>11 DEF Whole
<1>3. CASE HeadRead
  <2>1. /\ handled + 1 \in Packets
        /\ Lengths(Take(Readable, HeadLen)) = {bodies[handled + 1]}
    BY <1>3, HeaderRead
  <2>2. TooLong(bodies[handled + 1])
    BY <1>3, <2>1 DEF HeadRead
  <2> QED
    BY <2>1, <2>2 DEF TooLong, PeerAtFault
<1>4. CASE BodyDone \/ BodyPart
  BY <1>4 DEF BodyDone, BodyPart
<1>5. CASE Event \/ Fill \/ Decrypt \/ Again \/ PeerSends \/ PeerSeals \/ PeerEnds
  BY <1>5 DEF Event, Fill, Decrypt, Again, PeerSends, PeerSeals, PeerEnds
<1>6. CASE UNCHANGED vars
  BY <1>6 DEF vars
<1> QED
  BY <1>1, <1>2, <1>3, <1>4, <1>5, <1>6 DEF Next, PollerStep

\* DecodePacket closes a connection only at the end of the stream or for a body
\* beyond the limit, as long as headers arrive in one piece.
THEOREM AlwaysClosedForCause == Spec => ClosedForCause
<1> QED
  BY ClosingStep, StreamContinues, PTL DEF Spec, ClosedForCause

-----------------------------------------------------------------------------
(* Numbers and sets of them.                                               *)

\* Every set of natural numbers that is not empty has a least element: what
\* the proofs below use for induction.
LEMMA LeastNumber ==
  ASSUME NEW T \in SUBSET Nat, T # {}
  PROVE  \E x \in T : \A y \in T : x <= y
<1>1. PICK R : R = {ss \in Nat \X Nat : ss[1] < ss[2]}
  OBVIOUS
<1>2. IsWellFoundedOn(R, Nat)
  BY <1>1, NatLessThanWellFounded, Zenon DEF OpToRel
<1>3. PICK x \in T : \A y \in T : ~(<<y, x>> \in R)
  BY <1>2, WFMin
<1>4. ASSUME NEW y \in T PROVE x <= y
  <2>1. x \in Nat /\ y \in Nat /\ (x <= y \/ y < x)
    OBVIOUS
  <2>2. y < x => <<y, x>> \in R
    <3>1. y < x => <<y, x>>[1] < <<y, x>>[2] /\ <<y, x>> \in Nat \X Nat
      BY <2>1
    <3> QED
      BY <1>1, <3>1
  <2> QED
    BY <1>3, <2>1, <2>2
<1> QED
  BY <1>4

\* A bounded set has a largest element, and only one.
LEMMA MaxIs ==
  ASSUME NEW n \in Nat, NEW S \in SUBSET (0..n), S # {}
  PROVE  /\ Max(S) \in S /\ \A y \in S : y <= Max(S)
         /\ \A x \in S : (\A y \in S : y <= x) => Max(S) = x
<1>1. PICK T \in SUBSET Nat : T = {k \in 0..n : n - k \in S}
  <2>1. {k \in 0..n : n - k \in S} \in SUBSET Nat
    OBVIOUS
  <2> QED
    BY <2>1
<1>2. PICK s \in S : s \in 0..n
  OBVIOUS
<1>3. n - s \in T
  BY <1>1, <1>2
<1>4. PICK t \in T : \A y \in T : t <= y
  BY <1>3, LeastNumber
<1>5. PICK x \in S : x = n - t
  BY <1>1
<1>6. ASSUME NEW y \in S PROVE y <= x
  <2>1. n - y \in T
    BY <1>1
  <2>2. t <= n - y
    BY <1>4, <2>1
  <2>3. t \in 0..n
    BY <1>1
  <2> QED
    BY <1>5, <2>2, <2>3
<1>7. Max(S) \in S /\ \A y \in S : Max(S) >= y
  BY <1>6 DEF Max
<1>8. ASSUME NEW z \in S, \A y \in S : y <= z PROVE Max(S) = z
  <2>1. Max(S) \in 0..n /\ z \in 0..n /\ Max(S) <= z /\ z <= Max(S)
    BY <1>7, <1>8
  <2> QED
    BY <2>1
<1> QED
  BY <1>7, <1>8

-----------------------------------------------------------------------------
(* The pipeline that Then builds.                                          *)

\* What k steps of ArrayReduce build of the reversed stages.
Built(pipes, k) ==
  [i \in 1..k + 1 |-> IF i <= k THEN pipes[(Len(pipes) - k) + i] ELSE Destination]

\* One step puts its stage in front.
LEMMA BuiltStep ==
  ASSUME NEW pipes \in Seq(Middlewares), NEW k \in 1..Len(pipes)
  PROVE  Built(pipes, k) = Carry(Built(pipes, k - 1), Reverse(pipes)[k])
<1> DEFINE S == Middlewares \cup {Destination}
<1>1. PICK n \in Nat : n = Len(pipes)
  OBVIOUS
<1>2. k \in 1..n /\ k - 1 \in 0..n /\ (n - k) + 1 \in 1..n
  BY <1>1
<1>3. PICK x \in S : x = Reverse(pipes)[k] /\ x = pipes[(n - k) + 1]
  <2>1. Reverse(pipes)[k] = pipes[(n - k) + 1]
    BY <1>1, <1>2 DEF Reverse
  <2> QED
    BY <1>1, <1>2, <2>1
<1>4. PICK f : f = Built(pipes, k - 1)
  OBVIOUS
<1>5. /\ DOMAIN f = 1..k /\ f[k] = Destination
      /\ \A i \in 1..k - 1 : f[i] = pipes[(n - k) + (i + 1)]
  <2>1. f = [i \in 1..k |-> IF i <= k - 1 THEN pipes[(n - (k - 1)) + i] ELSE Destination]
    <3>1. (k - 1) + 1 = k
      BY <1>2
    <3> QED
      BY <1>1, <1>4, <3>1 DEF Built
  <2>2. k \in 1..k /\ ~(k <= k - 1)
    BY <1>2
  <2>3. ASSUME NEW i \in 1..k - 1 PROVE f[i] = pipes[(n - k) + (i + 1)]
    <3>1. i \in 1..k /\ i <= k - 1 /\ (n - (k - 1)) + i = (n - k) + (i + 1)
      BY <1>2
    <3> QED
      BY <2>1, <3>1
  <2> QED
    BY <2>1, <2>2, <2>3
<1>6. f \in Seq(S) /\ Len(f) = k
  <2>1. \A i \in 1..k : f[i] \in S
    <3>1. \A i \in 1..k - 1 : (n - k) + (i + 1) \in 1..n
      BY <1>2
    <3>2. \A i \in 1..k : i \in 1..k - 1 \/ i = k
      BY <1>2
    <3> QED
      BY <1>1, <1>5, <3>1, <3>2
  <2>2. f = [i \in 1..k |-> f[i]]
    <3>1. f = [i \in DOMAIN f |-> f[i]]
      BY <1>4 DEF Built
    <3> QED
      BY <1>5, <3>1
  <2> HIDE DEF S
  <2>3. f \in [1..k -> S]
    BY <2>1, <2>2
  <2> QED
    BY <1>2, <2>3
<1>7. PICK g : g = Built(pipes, k)
  OBVIOUS
<1>8. /\ g = [i \in 1..k + 1 |-> g[i]]
      /\ \A i \in 1..k : g[i] = pipes[(n - k) + i]
      /\ g[k + 1] = Destination
  <2>1. g = [i \in 1..k + 1 |-> IF i <= k THEN pipes[(n - k) + i] ELSE Destination]
    BY <1>1, <1>7 DEF Built
  <2>2. k + 1 \in 1..k + 1 /\ ~(k + 1 <= k) /\ \A i \in 1..k : i \in 1..k + 1 /\ i <= k
    BY <1>2
  <2> QED
    BY <2>1, <2>2
<1>9. g \in Seq(S) /\ Len(g) = k + 1
  <2>1. \A i \in 1..k + 1 : g[i] \in S
    <3>1. \A i \in 1..k : (n - k) + i \in 1..n
      BY <1>2
    <3>2. \A i \in 1..k + 1 : i \in 1..k \/ i = k + 1
      BY <1>2
    <3>3. Destination \in S /\ \A j \in 1..n : pipes[j] \in S
      BY <1>1
    <3>4. \A i \in 1..k : g[i] \in S
      BY <1>8, <3>1, <3>3
    <3> QED
      BY <1>8, <3>2, <3>3, <3>4
  <2> HIDE DEF S
  <2>2. g \in [1..k + 1 -> S]
    BY <1>8, <2>1
  <2> QED
    BY <1>2, <2>2
<1> HIDE DEF S
<1>10. /\ <<x>> \o f \in Seq(S) /\ Len(<<x>> \o f) = k + 1
       /\ \A i \in 1..k + 1 : (<<x>> \o f)[i] = IF i <= 1 THEN x ELSE f[i - 1]
  <2>1. <<x>> \in Seq(S) /\ Len(<<x>>) = 1 /\ <<x>>[1] = x
    OBVIOUS
  <2>2. /\ <<x>> \o f \in Seq(S) /\ Len(<<x>> \o f) = 1 + k
        /\ \A i \in 1..1 + k : (<<x>> \o f)[i] = IF i <= 1 THEN <<x>>[i] ELSE f[i - 1]
    BY <1>6, <2>1, ConcatProperties
  <2>3. 1 + k = k + 1 /\ \A i \in 1..k + 1 : i <= 1 => i = 1
    BY <1>2
  <2> QED
    BY <2>1, <2>2, <2>3
<1>11. ASSUME NEW i \in 1..k + 1 PROVE g[i] = (<<x>> \o f)[i]
  <2>1. CASE i = 1
    <3>1. 1 \in 1..k /\ 1 \in 1..k + 1 /\ 1 <= 1
      BY <1>2
    <3>2. g[1] = x
      BY <1>3, <1>8, <3>1
    <3>3. (<<x>> \o f)[1] = x
      BY <1>10, <3>1
    <3> QED
      BY <2>1, <3>2, <3>3
  <2>2. CASE i \in 2..k
    <3>1. i - 1 \in 1..k - 1 /\ i \in 1..k /\ (i - 1) + 1 = i /\ ~(i <= 1)
      BY <1>2, <2>2
    <3>2. f[i - 1] = pipes[(n - k) + i]
      BY <1>5, <3>1
    <3> QED
      BY <1>8, <1>10, <3>1, <3>2
  <2>3. CASE i = k + 1
    <3>1. ~(i <= 1) /\ i - 1 = k
      BY <1>2, <2>3
    <3> QED
      BY <1>5, <1>8, <1>10, <2>3, <3>1
  <2>4. i = 1 \/ i \in 2..k \/ i = k + 1
    BY <1>2
  <2> QED
    BY <2>1, <2>2, <2>3, <2>4
<1>12. g = <<x>> \o f
  BY <1>9, <1>10, <1>11, SeqEqual
<1> QED
  BY <1>3, <1>4, <1>7, <1>12 DEF Carry

\* ArrayReduce nests the stages as Built says: Built satisfies its recursion, and a
\* least step at which another function that does differs from it is impossible.
LEMMA ArrayReduceIs ==
  ASSUME NEW pipes \in Seq(Middlewares)
  PROVE  ArrayReduce(Reverse(pipes)) = Built(pipes, Len(pipes))
<1>1. PICK n \in Nat : n = Len(pipes)
  OBVIOUS
<1>2. Len(Reverse(pipes)) = n
  BY <1>1 DEF Reverse
<1>3. PICK rev : rev = Reverse(pipes)
  OBVIOUS
<1> DEFINE Satisfies(f) ==
             f = [k \in 0..n |-> IF k = 0 THEN <<Destination>> ELSE Carry(f[k - 1], rev[k])]
           built == CHOOSE f : Satisfies(f)
<1>4. ArrayReduce(rev) = built[n]
  BY <1>2, <1>3 DEF ArrayReduce
<1>5. PICK w : w = [k \in 0..n |-> Built(pipes, k)]
  OBVIOUS
<1>6. Built(pipes, 0) = <<Destination>>
  BY DEF Built
<1>7. Satisfies(w)
  <2>1. ASSUME NEW k \in 0..n
        PROVE  w[k] = IF k = 0 THEN <<Destination>> ELSE Carry(w[k - 1], rev[k])
    <3>1. CASE k = 0
      BY <1>5, <1>6, <3>1
    <3>2. CASE k # 0
      <4>1. k \in 1..Len(pipes) /\ k - 1 \in 0..n
        BY <1>1, <3>2
      <4> QED
        BY <1>3, <1>5, <3>2, <4>1, BuiltStep
    <3> QED
      BY <3>1, <3>2
  <2>2. w = [k \in 0..n |-> w[k]]
    BY <1>5
  <2> QED
    BY <2>1, <2>2
<1>8. PICK f : f = built /\ Satisfies(f)
  BY <1>7
<1>9. ASSUME NEW k \in 0..n PROVE f[k] = IF k = 0 THEN <<Destination>> ELSE Carry(f[k - 1], rev[k])
  BY <1>8
<1>10. ASSUME NEW k \in 0..n PROVE w[k] = IF k = 0 THEN <<Destination>> ELSE Carry(w[k - 1], rev[k])
  BY <1>7
<1> HIDE DEF Satisfies, built
<1>11. \A k \in 0..n : f[k] = w[k]
  <2> SUFFICES ASSUME \E k \in 0..n : f[k] # w[k] PROVE FALSE
    OBVIOUS
  <2>1. PICK T \in SUBSET Nat : T = {k \in 0..n : f[k] # w[k]}
    <3>1. {k \in 0..n : f[k] # w[k]} \in SUBSET Nat
      OBVIOUS
    <3> QED
      BY <3>1
  <2>2. PICK t \in T : \A y \in T : t <= y
    BY <2>1, LeastNumber
  <2>3. t \in 0..n /\ f[t] # w[t]
    BY <2>1
  <2>4. t # 0
    BY <1>9, <1>10, <2>3
  <2>5. t - 1 \in 0..n /\ ~(t <= t - 1)
    BY <2>3, <2>4
  <2>6. f[t - 1] = w[t - 1]
    BY <2>1, <2>2, <2>5
  <2> QED
    BY <1>9, <1>10, <2>3, <2>4, <2>6
<1> QED
  BY <1>1, <1>3, <1>4, <1>5, <1>8, <1>11

\* Then nests the stages in their order around the destination.
LEMMA ThenIs ==
  ASSUME NEW pipes \in Seq(Middlewares)
  PROVE  Then(pipes) = Append(pipes, Destination)
<1> DEFINE S == Middlewares \cup {Destination}
<1>1. PICK n \in Nat : n = Len(pipes)
  OBVIOUS
<1>2. PICK g : g = Then(pipes)
  OBVIOUS
<1>3. g = [i \in 1..n + 1 |-> IF i <= n THEN pipes[(n - n) + i] ELSE Destination]
  BY <1>1, <1>2, ArrayReduceIs DEF Then, Built
<1>4. /\ g = [i \in 1..n + 1 |-> g[i]] /\ g[n + 1] = Destination
      /\ \A i \in 1..n : g[i] = pipes[i]
  <2>1. n + 1 \in 1..n + 1 /\ ~(n + 1 <= n)
        /\ \A i \in 1..n : i \in 1..n + 1 /\ i <= n /\ (n - n) + i = i
    OBVIOUS
  <2> QED
    BY <1>3, <2>1
<1>5. pipes \in Seq(S) /\ Destination \in S
  OBVIOUS
<1>6. \A i \in 1..n + 1 : i \in 1..n \/ i = n + 1
  OBVIOUS
<1>7. \A i \in 1..n + 1 : g[i] \in S
  <2>1. \A i \in 1..n : pipes[i] \in S
    BY <1>1, <1>5
  <2> QED
    BY <1>4, <1>5, <1>6, <2>1
<1> HIDE DEF S
<1>8. g \in Seq(S) /\ Len(g) = n + 1
  <2>1. g \in [1..n + 1 -> S]
    BY <1>4, <1>7
  <2> QED
    BY <2>1
<1>9. /\ Append(pipes, Destination) \in Seq(S) /\ Len(Append(pipes, Destination)) = n + 1
      /\ \A i \in 1..n : Append(pipes, Destination)[i] = pipes[i]
      /\ Append(pipes, Destination)[n + 1] = Destination
  BY <1>1, <1>5, AppendProperties
<1>10. \A i \in 1..n + 1 : g[i] = Append(pipes, Destination)[i]
  BY <1>4, <1>6, <1>9
<1> QED
  BY <1>2, <1>8, <1>9, <1>10, SeqEqual

-----------------------------------------------------------------------------
(* The inductive invariant.                                                *)

CallOf == [group : 0..MaxGroup, id : Ids, router : Routers, late : BOOLEAN]
GroupOfMiddlewares == [middlewares : Seq(Middlewares), routers : [Ids -> Routers \cup {None}]]

\* RoutingTypeOK without what it says of pipelines.
Types ==
  /\ application \in {"router", "websocket"} /\ status \in {"stopped", "started"}
  /\ inner \in [Ids -> Routers \cup {None}]
  /\ routeMiddleware \in [Ids -> Seq(Middlewares)]
  /\ globalMiddlewares \in Seq(Middlewares)
  /\ middlewareGroup \in Seq(GroupOfMiddlewares)
  /\ calls \in Seq(CallOf)
  /\ message \in [Dispatchers -> Ids \cup {None}]
  /\ pipeline \in [Dispatchers -> Seq(Middlewares \cup {Destination})]
  /\ entered \in [Dispatchers -> Seq(Middlewares)]
  /\ goes \in [Dispatchers -> {"in", "out"}]
  /\ ran \in [Dispatchers -> Seq(Routers \cup {MessageHandler})]

\* A call names a group there is; a late one a group, of a server that runs.
Known ==
  /\ Len(middlewareGroup) <= MaxGroup
  /\ \A i \in DOMAIN calls :
       /\ calls[i].group <= Len(middlewareGroup)
       /\ calls[i].late => status = "started" /\ calls[i].group > 0

\* router is the one that the last call of s for id and group g named, None if
\* there was no such call.
Calls(s, g, id) == { i \in DOMAIN s : s[i].group = g /\ s[i].id = id }
Newest(s, g, id, router) ==
  \/ router = None /\ Calls(s, g, id) = {}
  \/ \E i \in Calls(s, g, id) :
       s[i].router = router /\ \A j \in Calls(s, g, id) : j <= i

\* Until Start the maps hold the newest router of every call, and no route has
\* middlewares.
Registered ==
  status = "stopped" => \A id \in Ids :
    /\ routeMiddleware[id] = <<>>
    /\ Newest(calls, 0, id, inner[id])
    /\ \A g \in DOMAIN middlewareGroup : Newest(calls, g, id, middlewareGroup[g].routers[id])

GroupMiddlewares(id) ==
  IF GroupOf(id) = 0 THEN <<>> ELSE middlewareGroup[GroupOf(id)].middlewares

\* From then on they hold what the calls amount to.
Resolved ==
  status = "started" => \A id \in Ids :
    inner[id] = RouterOf(id) /\ routeMiddleware[id] = GroupMiddlewares(id)

\* A goroutine with a message has built the pipeline of its ID, and is inside
\* of its first stages.
Within(d) ==
  /\ status = "started"
  /\ pipeline[d] = Append(MiddlewaresOf(message[d]), Destination)
  /\ Len(entered[d]) <= Len(MiddlewaresOf(message[d]))
  /\ \A i \in 1..Len(entered[d]) : entered[d][i] = MiddlewaresOf(message[d])[i]
Idle(d) == entered[d] = <<>> /\ goes[d] = "in"
Running == \A d \in Dispatchers : IF message[d] = None THEN Idle(d) ELSE Within(d)

RoutingInv == Types /\ Known /\ Registered /\ Resolved /\ Running

-----------------------------------------------------------------------------
(* What the calls amount to.                                               *)

\* What the groups and the calls are numbered with.
LEMMA GroupPlaces ==
  ASSUME Types
  PROVE  /\ Len(middlewareGroup) \in Nat /\ DOMAIN middlewareGroup = 1..Len(middlewareGroup)
         /\ Len(calls) \in Nat /\ DOMAIN calls = 1..Len(calls)
<1>1. middlewareGroup \in Seq(GroupOfMiddlewares) /\ calls \in Seq(CallOf)
  BY DEF Types
<1> QED
  BY <1>1

\* What is in a call.
LEMMA CallIs ==
  ASSUME Types, NEW i \in DOMAIN calls
  PROVE  /\ calls[i] \in CallOf
         /\ calls[i].group \in 0..MaxGroup /\ calls[i].id \in Ids /\ calls[i].router \in Routers
<1>1. calls \in Seq(CallOf)
  BY DEF Types
<1>2. calls[i] \in CallOf
  BY <1>1
<1> QED
  BY <1>2 DEF CallOf

\* The newest router after one more call.
LEMMA NewestAppend ==
  ASSUME NEW s \in Seq(CallOf), NEW c \in CallOf, NEW g, NEW id, NEW router,
         Newest(s, g, id, router)
  PROVE  Newest(Append(s, c), g, id,
                IF c.group = g /\ c.id = id THEN c.router ELSE router)
<1>1. PICK n \in Nat : n = Len(s)
  OBVIOUS
<1>2. PICK t : t = Append(s, c)
  OBVIOUS
<1>3. /\ DOMAIN s = 1..n /\ DOMAIN t = 1..n + 1 /\ t[n + 1] = c
      /\ \A i \in 1..n : t[i] = s[i]
  <2>1. t \in Seq(CallOf) /\ Len(t) = n + 1
    BY <1>1, <1>2, AppendProperties
  <2>2. t[n + 1] = c /\ \A i \in 1..n : t[i] = s[i]
    BY <1>1, <1>2, AppendProperties
  <2> QED
    BY <1>1, <2>1, <2>2
<1>4. \A i \in 1..n + 1 : i \in 1..n \/ i = n + 1
  OBVIOUS
<1>5. n + 1 \in 1..n + 1 /\ ~(n + 1 \in 1..n) /\ \A i \in 1..n : i \in 1..n + 1 /\ i <= n + 1
  OBVIOUS
<1>6. CASE c.group = g /\ c.id = id
  <2>1. n + 1 \in Calls(t, g, id) /\ t[n + 1].router = c.router
    BY <1>3, <1>5, <1>6 DEF Calls
  <2>2. \A j \in Calls(t, g, id) : j <= n + 1
    BY <1>3 DEF Calls
  <2> QED
    BY <1>2, <1>6, <2>1, <2>2 DEF Newest
<1>7. CASE ~(c.group = g /\ c.id = id)
  <2>1. Calls(t, g, id) = Calls(s, g, id)
    BY <1>3, <1>4, <1>5, <1>7 DEF Calls
  <2>2. \A i \in Calls(s, g, id) : t[i].router = s[i].router
    BY <1>3 DEF Calls
  <2> QED
    BY <1>2, <1>7, <2>1, <2>2 DEF Newest
<1> QED
  BY <1>6, <1>7

\* The group that decides is the last one that has a router for the ID.
LEMMA GroupIs ==
  ASSUME Types, Known, RoutingAssumption, NEW id \in Ids
  PROVE  /\ GroupOf(id) \in 0..Len(middlewareGroup)
         /\ \A i \in Grouped(id) : calls[i].group <= GroupOf(id)
         /\ Grouped(id) = {} => GroupOf(id) = 0
         /\ Grouped(id) # {} => GroupOf(id) > 0 /\ ByGroupOf(id) # {}
<1>1. PICK n \in Nat : n = Len(middlewareGroup)
  BY GroupPlaces
<1>2. PICK S : S = {0} \cup {calls[i].group : i \in Grouped(id)}
  OBVIOUS
<1>3. \A i \in Grouped(id) : calls[i].group \in 0..n /\ calls[i].group > 0
  <2>1. ASSUME NEW i \in Grouped(id) PROVE calls[i].group \in 0..n /\ calls[i].group > 0
    <3>1. i \in DOMAIN calls /\ calls[i].group > 0
      BY DEF Grouped
    <3>3. calls[i].group \in 0..MaxGroup
      BY <3>1, CallIs
    <3>4. calls[i].group <= n
      BY <1>1, <3>1 DEF Known
    <3> QED
      BY <3>1, <3>3, <3>4
  <2> QED
    BY <2>1
<1>4. S \in SUBSET (0..n) /\ S # {}
  BY <1>2, <1>3
<1>5. PICK m \in S : m = GroupOf(id) /\ \A y \in S : y <= m
  <2>1. Max(S) \in S /\ \A y \in S : y <= Max(S)
    BY <1>4, MaxIs
  <2> QED
    BY <1>2, <2>1 DEF GroupOf
<1>6. Grouped(id) = {} => m = 0
  BY <1>2
<1>7. Grouped(id) # {} => m > 0
  <2>1. ASSUME NEW i \in Grouped(id) PROVE m > 0
    <3>1. calls[i].group \in S
      BY <1>2
    <3> QED
      BY <1>3, <1>4, <1>5, <3>1
  <2> QED
    BY <2>1
<1>8. Grouped(id) # {} => \E i \in Grouped(id) : calls[i].group = m
  BY <1>2, <1>7
<1>9. \A i \in Grouped(id) : calls[i].group <= m
  BY <1>2, <1>5
<1> QED
  BY <1>1, <1>4, <1>5, <1>6, <1>7, <1>8, <1>9 DEF ByGroupOf

\* A group whose newest router for the ID is one has been called with it, and
\* the other way round.
LEMMA GroupRouter ==
  ASSUME Types, Known, Registered, RoutingAssumption, status = "stopped",
         NEW id \in Ids, NEW g \in DOMAIN middlewareGroup
  PROVE  /\ middlewareGroup[g].routers[id] # None <=> Calls(calls, g, id) # {}
         /\ Calls(calls, g, id) = {i \in Grouped(id) : calls[i].group = g}
<1>1. Newest(calls, g, id, middlewareGroup[g].routers[id])
  BY DEF Registered
<1>2. \A i \in DOMAIN calls : calls[i].router \in Routers
  BY CallIs
<1>3. middlewareGroup[g].routers[id] # None <=> Calls(calls, g, id) # {}
  BY <1>1, <1>2 DEF Newest, Calls, RoutingAssumption
<1>4. g \in Nat /\ g > 0
  BY DEF Types
<1>5. \A i \in DOMAIN calls : ~calls[i].late
  BY DEF Known
<1>6. Calls(calls, g, id) = {i \in Grouped(id) : calls[i].group = g}
  BY <1>4, <1>5 DEF Calls, Grouped
<1> QED
  BY <1>3, <1>6

\* What Resolve leaves is what the calls amount to.
LEMMA ResolveIs ==
  ASSUME Types, Known, Registered, RoutingAssumption, status = "stopped", NEW id \in Ids
  PROVE  /\ Resolve(id).router = RouterOf(id)
         /\ Resolve(id).middlewares = GroupMiddlewares(id)
<1> DEFINE having == {g \in DOMAIN middlewareGroup : middlewareGroup[g].routers[id] # None}
<1>1. PICK n \in Nat : n = Len(middlewareGroup)
  BY GroupPlaces
<1>2. DOMAIN middlewareGroup = 1..n
  BY <1>1, GroupPlaces
<1>3. PICK m \in 0..n :
        /\ m = GroupOf(id)
        /\ \A i \in Grouped(id) : calls[i].group <= m
        /\ Grouped(id) = {} => m = 0
        /\ Grouped(id) # {} => m > 0 /\ ByGroupOf(id) # {}
  BY <1>1, GroupIs
<1>4. \A g \in 1..n : g \in having <=> Calls(calls, g, id) # {}
  BY <1>2, GroupRouter
<1>5. \A g \in 1..n : Calls(calls, g, id) = {i \in Grouped(id) : calls[i].group = g}
  BY <1>2, GroupRouter
<1>6. PICK k \in Nat : k = Len(calls)
  BY GroupPlaces
<1>7. DOMAIN calls = 1..k
  BY <1>6, GroupPlaces
<1>8. \A i \in DOMAIN calls : calls[i].group \in 0..n
  <2>1. ASSUME NEW i \in DOMAIN calls PROVE calls[i].group \in 0..n
    <3>1. calls[i].group \in 0..MaxGroup
      BY CallIs
    <3> QED
      BY <1>1, <3>1 DEF Known
  <2> QED
    BY <2>1
<1>9. CASE Grouped(id) = {}
  <2>1. having = {}
    BY <1>2, <1>4, <1>5, <1>9
  <2>2. Resolve(id) = [router |-> inner[id], middlewares |-> routeMiddleware[id]]
    BY <2>1 DEF Resolve
  <2>3. routeMiddleware[id] = GroupMiddlewares(id)
    BY <1>3, <1>9 DEF Registered, GroupMiddlewares
  <2>4. Newest(calls, 0, id, inner[id]) /\ Calls(calls, 0, id) = Direct(id)
    BY DEF Registered, Calls, Direct
  <2>5. CASE Direct(id) = {}
    BY <1>9, <2>2, <2>3, <2>4, <2>5 DEF Newest, RouterOf
  <2>6. CASE Direct(id) # {}
    <3>1. PICK i \in Direct(id) : calls[i].router = inner[id] /\ \A j \in Direct(id) : j <= i
      BY <2>4, <2>6 DEF Newest
    <3>2. Direct(id) \in SUBSET (0..k)
      BY <1>7 DEF Direct
    <3>3. Max(Direct(id)) = i
      BY <2>6, <3>1, <3>2, MaxIs
    <3> QED
      BY <1>9, <2>2, <2>3, <2>6, <3>1, <3>3 DEF RouterOf
  <2> QED
    BY <2>5, <2>6
<1>10. CASE Grouped(id) # {}
  <2>1. m \in 1..n /\ ByGroupOf(id) = Calls(calls, m, id) /\ Calls(calls, m, id) # {}
    BY <1>3, <1>5, <1>10 DEF ByGroupOf
  <2>2. m \in having
    BY <1>4, <2>1
  <2>3. \A g \in having : g <= m
    <3>1. ASSUME NEW g \in having PROVE g <= m
      <4>1. g \in 1..n
        BY <1>2
      <4>2. PICK i \in Grouped(id) : calls[i].group = g
        BY <1>4, <1>5, <4>1
      <4> QED
        BY <1>3, <4>2
    <3> QED
      BY <3>1
  <2>4. having \in SUBSET (0..n)
    BY <1>2
  <2>5. having # {} /\ Max(having) = m
    <3> HIDE DEF having
    <3> QED
      BY <2>2, <2>3, <2>4, MaxIs
  <2>6. /\ Resolve(id).router = middlewareGroup[m].routers[id]
        /\ Resolve(id).middlewares = middlewareGroup[m].middlewares
    BY <2>5 DEF Resolve
  <2>7. Newest(calls, m, id, middlewareGroup[m].routers[id])
    BY <1>2, <2>1 DEF Registered
  <2>8. PICK i \in ByGroupOf(id) :
          /\ calls[i].router = middlewareGroup[m].routers[id]
          /\ \A j \in ByGroupOf(id) : j <= i
    BY <2>1, <2>7 DEF Newest
  <2>9. ByGroupOf(id) \in SUBSET (0..k)
    BY <1>7 DEF ByGroupOf, Grouped
  <2>10. Max(ByGroupOf(id)) = i
    BY <2>8, <2>9, MaxIs
  <2>11. GroupMiddlewares(id) = middlewareGroup[m].middlewares
    BY <1>3, <2>1 DEF GroupMiddlewares
  <2> QED
    BY <1>10, <2>6, <2>8, <2>10, <2>11 DEF RouterOf
<1> QED
  BY <1>9, <1>10

\* What the calls amount to depends on the calls before Start and on the
\* middlewares of the groups only.
Unchanging ==
  /\ \/ calls' = calls
     \/ \E c \in CallOf : c.late /\ c.group > 0 /\ calls' = Append(calls, c)
  /\ globalMiddlewares' = globalMiddlewares
  /\ \A g \in DOMAIN middlewareGroup :
       middlewareGroup'[g].middlewares = middlewareGroup[g].middlewares

LEMMA StillRouted ==
  ASSUME Types, Known, RoutingAssumption, Unchanging, NEW id \in Ids
  PROVE  /\ RouterOf(id)' = RouterOf(id)
         /\ GroupMiddlewares(id)' = GroupMiddlewares(id)
         /\ MiddlewaresOf(id)' = MiddlewaresOf(id)
<1>1. /\ DOMAIN calls \subseteq DOMAIN calls'
      /\ \A i \in DOMAIN calls : calls'[i] = calls[i]
      /\ \A i \in DOMAIN calls' : i \in DOMAIN calls \/ (calls'[i].late /\ calls'[i].group > 0)
  <2>1. CASE calls' = calls
    BY <2>1
  <2>2. ASSUME NEW c \in CallOf, c.late, c.group > 0, calls' = Append(calls, c)
        PROVE  <1>1!1 /\ <1>1!2 /\ <1>1!3
    <3>1. PICK n \in Nat : n = Len(calls) /\ DOMAIN calls = 1..n
      BY GroupPlaces
    <3>2. calls' \in Seq(CallOf) /\ Len(calls') = n + 1
      BY <2>2, <3>1, AppendProperties DEF Types
    <3>3. calls'[n + 1] = c /\ \A i \in 1..n : calls'[i] = calls[i]
      BY <2>2, <3>1, AppendProperties DEF Types
    <3>4. DOMAIN calls' = 1..n + 1 /\ \A i \in 1..n + 1 : i \in 1..n \/ i = n + 1
      BY <3>2
    <3> QED
      BY <2>2, <3>1, <3>3, <3>4
  <2> QED
    BY <2>1, <2>2 DEF Unchanging
<1>2. Direct(id)' = Direct(id)
  <2>1. \A i \in DOMAIN calls' : calls'[i].group = 0 => i \in DOMAIN calls
    BY <1>1
  <2> QED
    BY <1>1, <2>1 DEF Direct
<1>3. Grouped(id)' = Grouped(id)
  BY <1>1 DEF Grouped
<1>4. {calls'[i].group : i \in Grouped(id)} = {calls[i].group : i \in Grouped(id)}
  BY <1>1 DEF Grouped
<1>5. GroupOf(id)' = GroupOf(id)
  BY <1>3, <1>4 DEF GroupOf
<1>6. ByGroupOf(id)' = ByGroupOf(id)
  BY <1>1, <1>3, <1>5 DEF ByGroupOf, Grouped
<1>7. RouterOf(id)' = RouterOf(id)
  <2>1. PICK k \in Nat : DOMAIN calls = 1..k
    BY GroupPlaces
  <2>2. Direct(id) # {} => Max(Direct(id)) \in DOMAIN calls
    <3>1. Direct(id) \in SUBSET (0..k) /\ Direct(id) \subseteq DOMAIN calls
      BY <2>1 DEF Direct
    <3> QED
      BY <3>1, MaxIs
  <2>3. Grouped(id) # {} => Max(ByGroupOf(id)) \in DOMAIN calls
    <3>1. ByGroupOf(id) \in SUBSET (0..k) /\ ByGroupOf(id) \subseteq DOMAIN calls
      BY <2>1 DEF ByGroupOf, Grouped
    <3> QED
      BY <3>1, GroupIs, MaxIs
  <2> QED
    BY <1>1, <1>2, <1>3, <1>6, <2>2, <2>3 DEF RouterOf
<1>8. GroupMiddlewares(id)' = GroupMiddlewares(id)
  <2>1. PICK n \in Nat : n = Len(middlewareGroup) /\ DOMAIN middlewareGroup = 1..n
    BY GroupPlaces
  <2>2. GroupOf(id) # 0 => GroupOf(id) \in DOMAIN middlewareGroup
    BY <2>1, GroupIs
  <2> QED
    BY <1>5, <2>2 DEF Unchanging, GroupMiddlewares
<1>9. MiddlewaresOf(id) = globalMiddlewares \o GroupMiddlewares(id)
  BY DEF MiddlewaresOf, GroupMiddlewares
<1>10. MiddlewaresOf(id)' = globalMiddlewares' \o GroupMiddlewares(id)'
  BY DEF MiddlewaresOf, GroupMiddlewares
<1> QED
  BY <1>7, <1>8, <1>9, <1>10 DEF Unchanging

-----------------------------------------------------------------------------
(* The steps of the program that configures the server.                    *)

\* What AddRouter records, of the server or of a group.
LEMMA RecordIs ==
  ASSUME Types, Known, RoutingAssumption,
         NEW g \in 0..Len(middlewareGroup), NEW id \in Ids, NEW router \in Routers,
         Record(g, id, router)
  PROVE  \E c \in CallOf :
           /\ c.group = g /\ c.id = id /\ c.router = router /\ c.late = (status = "started")
           /\ calls' = Append(calls, c) /\ calls' \in Seq(CallOf)
           /\ DOMAIN calls' = 1..Len(calls) + 1 /\ calls'[Len(calls) + 1] = c
           /\ \A i \in DOMAIN calls : calls'[i] = calls[i]
<1>1. PICK c : c = [group |-> g, id |-> id, router |-> router, late |-> status = "started"]
  OBVIOUS
<1>2. g \in 0..MaxGroup
  BY GroupPlaces DEF Known, RoutingAssumption
<1>3. c \in CallOf
  BY <1>1, <1>2 DEF CallOf
<1>4. c.group = g /\ c.id = id /\ c.router = router /\ c.late = (status = "started")
  BY <1>1
<1>5. calls' = Append(calls, c)
  BY <1>1 DEF Record
<1>6. PICK n \in Nat : n = Len(calls) /\ DOMAIN calls = 1..n
  BY GroupPlaces
<1>7. calls \in Seq(CallOf)
  BY DEF Types
<1>8. /\ calls' \in Seq(CallOf) /\ Len(calls') = n + 1 /\ calls'[n + 1] = c
      /\ \A i \in 1..n : calls'[i] = calls[i]
  BY <1>3, <1>5, <1>6, <1>7, AppendProperties
<1>9. DOMAIN calls' = 1..n + 1
  BY <1>8
<1> QED
  BY <1>3, <1>4, <1>5, <1>6, <1>8, <1>9

\* The calls, with another one, are known.
LEMMA RecordKnown ==
  ASSUME Types, Known, RoutingAssumption,
         NEW g \in 0..Len(middlewareGroup), NEW id \in Ids, NEW router \in Routers,
         Record(g, id, router), g = 0 => status = "stopped",
         status' = status, Len(middlewareGroup') = Len(middlewareGroup)
  PROVE  Known'
<1>1. PICK c \in CallOf :
        /\ c.group = g /\ c.late = (status = "started")
        /\ DOMAIN calls' = 1..Len(calls) + 1 /\ calls'[Len(calls) + 1] = c
        /\ \A i \in DOMAIN calls : calls'[i] = calls[i]
  BY RecordIs
<1>2. PICK n \in Nat : n = Len(calls) /\ DOMAIN calls = 1..n
  BY GroupPlaces
<1>3. PICK k \in Nat : k = Len(middlewareGroup)
  BY GroupPlaces
<1>4. ASSUME NEW i \in DOMAIN calls'
      PROVE  /\ calls'[i].group <= k
             /\ calls'[i].late => status = "started" /\ calls'[i].group > 0
  <2>1. CASE i \in 1..n
    BY <1>1, <1>2, <1>3, <2>1 DEF Known
  <2>2. CASE i = n + 1
    <3>1. calls'[i].group = g /\ calls'[i].late = (status = "started")
      BY <1>1, <1>2, <2>2
    <3>2. g <= k /\ (g = 0 \/ g > 0)
      BY <1>3
    <3> QED
      BY <3>1, <3>2
  <2>3. i \in 1..n \/ i = n + 1
    BY <1>1, <1>2
  <2> QED
    BY <2>1, <2>2, <2>3
<1> QED
  BY <1>3, <1>4 DEF Known

\* Before Start no message is dispatched.
LEMMA Quiet ==
  ASSUME Running, status = "stopped", UNCHANGED dispatch
  PROVE  Running'
<1>1. \A d \in Dispatchers : message[d] = None /\ Idle(d)
  BY DEF Running, Within
<1>2. \A d \in Dispatchers : message'[d] = None /\ Idle(d)'
  BY <1>1 DEF dispatch, Idle
<1> QED
  BY <1>2 DEF Running

\* Nor does what follows disturb a message.
LEMMA Undisturbed ==
  ASSUME Types, Known, RoutingAssumption, Running, Unchanging, status' = status,
         UNCHANGED dispatch
  PROVE  Running'
<1>1. ASSUME NEW d \in Dispatchers
      PROVE  IF message'[d] = None THEN Idle(d)' ELSE Within(d)'
  <2>1. message' = message /\ pipeline' = pipeline /\ entered' = entered /\ goes' = goes
    BY DEF dispatch
  <2>2. CASE message[d] = None
    BY <2>1, <2>2 DEF Running, Idle
  <2>3. CASE message[d] # None
    <3>1. PICK id \in Ids : id = message[d] /\ id = message'[d]
      BY <2>1, <2>3 DEF Types
    <3>2. MiddlewaresOf(id)' = MiddlewaresOf(id)
      BY StillRouted
    <3>3. MiddlewaresOf(message[d])' = MiddlewaresOf(message[d])
      BY <3>1, <3>2 DEF MiddlewaresOf, GroupOf, Grouped
    <3>4. Within(d)
      BY <2>3 DEF Running
    <3>5. Within(d)'
      BY <2>1, <3>3, <3>4 DEF Within
    <3> QED
      BY <2>1, <2>3, <3>5
  <2> QED
    BY <2>2, <2>3
<1> QED
  BY <1>1 DEF Running

\* Nor what the maps have resolved.
LEMMA StillResolved ==
  ASSUME Types, Known, RoutingAssumption, Resolved, Unchanging, status' = status,
         UNCHANGED <<inner, routeMiddleware>>
  PROVE  Resolved'
<1>1. \A id \in Ids : RouterOf(id)' = RouterOf(id) /\ GroupMiddlewares(id)' = GroupMiddlewares(id)
  BY StillRouted
<1> QED
  BY <1>1 DEF Resolved

LEMMA StepAddRouter ==
  ASSUME RoutingInv, RoutingAssumption, NEW id \in Ids, NEW router \in Routers, AddRouter(id, router)
  PROVE  RoutingInv'
<1> USE DEF RoutingInv
<1>1. /\ status = "stopped" /\ Record(0, id, router)
      /\ inner' = [inner EXCEPT ![id] = router]
      /\ UNCHANGED <<application, status, routeMiddleware, globalMiddlewares, middlewareGroup, dispatch>>
  BY DEF AddRouter
<1>2. 0 \in 0..Len(middlewareGroup)
  BY GroupPlaces
<1>3. PICK c \in CallOf :
        /\ c.group = 0 /\ c.id = id /\ c.router = router
        /\ calls' = Append(calls, c) /\ calls' \in Seq(CallOf)
  BY <1>1, <1>2, RecordIs
<1>4. Types'
  BY <1>1, <1>3 DEF Types, dispatch
<1>5. Known'
  BY <1>1, <1>2, RecordKnown
<1>6. Registered'
  <2>1. calls \in Seq(CallOf) /\ inner \in [Ids -> Routers \cup {None}]
    BY DEF Types
  <2>2. ASSUME NEW id2 \in Ids
        PROVE  /\ routeMiddleware'[id2] = <<>>
               /\ Newest(calls', 0, id2, inner'[id2])
               /\ \A g \in DOMAIN middlewareGroup' : Newest(calls', g, id2, middlewareGroup'[g].routers[id2])
    <3>1. routeMiddleware'[id2] = <<>>
      BY <1>1 DEF Registered
    <3>2. Newest(calls', 0, id2, IF c.group = 0 /\ c.id = id2 THEN c.router ELSE inner[id2])
      BY <1>1, <1>3, <2>1, NewestAppend DEF Registered
    <3>3. inner'[id2] = IF c.group = 0 /\ c.id = id2 THEN c.router ELSE inner[id2]
      BY <1>1, <1>3, <2>1
    <3>4. ASSUME NEW g \in DOMAIN middlewareGroup
          PROVE  Newest(calls', g, id2, middlewareGroup[g].routers[id2])
      <4>1. c.group # g
        BY <1>3, GroupPlaces
      <4>2. Newest(calls, g, id2, middlewareGroup[g].routers[id2])
        BY <1>1 DEF Registered
      <4>3. Newest(calls', g, id2, IF c.group = g /\ c.id = id2 THEN c.router
                                   ELSE middlewareGroup[g].routers[id2])
        BY <1>3, <2>1, <4>2, NewestAppend
      <4> QED
        BY <4>1, <4>3
    <3>5. Newest(calls', 0, id2, inner'[id2])
      BY <3>2, <3>3
    <3> QED
      BY <1>1, <3>1, <3>4, <3>5
  <2> QED
    BY <2>2 DEF Registered
<1>7. Resolved'
  BY <1>1 DEF Resolved
<1>8. Running'
  BY <1>1, Quiet
<1> QED
  BY <1>4, <1>5, <1>6, <1>7, <1>8

LEMMA StepUse ==
  ASSUME RoutingInv, RoutingAssumption, NEW m \in Middlewares, Use(m)
  PROVE  RoutingInv'
<1> USE DEF RoutingInv
<1>1. /\ status = "stopped" /\ globalMiddlewares' = Append(globalMiddlewares, m)
      /\ UNCHANGED <<application, status, inner, routeMiddleware, middlewareGroup, calls, dispatch>>
  BY DEF Use
<1>2. Types'
  BY <1>1 DEF Types, dispatch
<1>3. Known' /\ Registered' /\ Resolved'
  BY <1>1 DEF Known, Registered, Resolved, Newest, Calls
<1>4. Running'
  BY <1>1, Quiet
<1> QED
  BY <1>2, <1>3, <1>4

LEMMA StepNewGroup ==
  ASSUME RoutingInv, RoutingAssumption, NEW m \in Middlewares, NEW k \in 0..MaxMore,
         NEW more \in [1..k -> Middlewares], NewGroup(m, more)
  PROVE  RoutingInv'
<1> USE DEF RoutingInv
<1>1. PICK group : group = [middlewares |-> <<m>> \o more, routers |-> Nobody]
  OBVIOUS
<1>2. /\ Len(middlewareGroup) < MaxGroup /\ middlewareGroup' = Append(middlewareGroup, group)
      /\ UNCHANGED <<application, status, inner, routeMiddleware, globalMiddlewares, calls, dispatch>>
  BY <1>1 DEF NewGroup
<1>3. group \in GroupOfMiddlewares
  <2>1. k \in Nat /\ <<m>> \in Seq(Middlewares)
    BY DEF RoutingAssumption
  <2>2. more \in Seq(Middlewares)
    BY <2>1
  <2>3. <<m>> \o more \in Seq(Middlewares)
    BY <2>1, <2>2, ConcatProperties
  <2> QED
    BY <1>1, <2>3 DEF GroupOfMiddlewares, Nobody
<1>4. PICK n \in Nat : n = Len(middlewareGroup) /\ DOMAIN middlewareGroup = 1..n
  BY GroupPlaces
<1>5. /\ middlewareGroup' \in Seq(GroupOfMiddlewares) /\ Len(middlewareGroup') = n + 1
      /\ middlewareGroup'[n + 1] = group
      /\ \A g \in 1..n : middlewareGroup'[g] = middlewareGroup[g]
  <2>1. middlewareGroup \in Seq(GroupOfMiddlewares)
    BY DEF Types
  <2> QED
    BY <1>2, <1>3, <1>4, <2>1, AppendProperties
<1>6. DOMAIN middlewareGroup' = 1..n + 1 /\ \A g \in 1..n + 1 : g \in 1..n \/ g = n + 1
  BY <1>5
<1>7. Types'
  BY <1>2, <1>5 DEF Types, dispatch
<1>8. \A i \in DOMAIN calls : calls[i].group \in Nat /\ calls[i].group <= n
  <2>1. ASSUME NEW i \in DOMAIN calls PROVE calls[i].group \in Nat /\ calls[i].group <= n
    BY <1>4, CallIs DEF Known, RoutingAssumption
  <2> QED
    BY <2>1
<1>9. Known'
  <2>1. n + 1 <= MaxGroup
    BY <1>2, <1>4 DEF RoutingAssumption
  <2>2. \A i \in DOMAIN calls : calls[i].group <= n + 1
    BY <1>8
  <2>3. \A i \in DOMAIN calls : calls[i].late => status = "started" /\ calls[i].group > 0
    BY DEF Known
  <2> QED
    BY <1>2, <1>5, <2>1, <2>2, <2>3 DEF Known
<1>10. Registered'
  <2>1. ASSUME status = "stopped", NEW id \in Ids
        PROVE  /\ routeMiddleware[id] = <<>>
               /\ Newest(calls, 0, id, inner[id])
               /\ \A g \in DOMAIN middlewareGroup' : Newest(calls, g, id, middlewareGroup'[g].routers[id])
    <3>1. ASSUME NEW g \in 1..n PROVE Newest(calls, g, id, middlewareGroup'[g].routers[id])
      BY <1>4, <1>5, <2>1 DEF Registered
    <3>2. Newest(calls, n + 1, id, middlewareGroup'[n + 1].routers[id])
      <4>1. middlewareGroup'[n + 1].routers[id] = None
        BY <1>1, <1>5 DEF Nobody
      <4>2. Calls(calls, n + 1, id) = {}
        BY <1>8 DEF Calls
      <4> QED
        BY <4>1, <4>2 DEF Newest
    <3> QED
      BY <1>6, <2>1, <3>1, <3>2 DEF Registered
  <2> QED
    BY <1>2, <2>1 DEF Registered
<1>11. Unchanging
  BY <1>2, <1>4, <1>5 DEF Unchanging
<1>12. Resolved' /\ Running'
  BY <1>2, <1>11, StillResolved, Undisturbed
<1> QED
  BY <1>7, <1>9, <1>10, <1>12

LEMMA StepGroupAddRouter ==
  ASSUME RoutingInv, RoutingAssumption, NEW g \in DOMAIN middlewareGroup, NEW id \in Ids,
         NEW router \in Routers, GroupAddRouter(g, id, router)
  PROVE  RoutingInv'
<1> USE DEF RoutingInv
<1>1. /\ Record(g, id, router)
      /\ middlewareGroup' = [middlewareGroup EXCEPT ![g].routers[id] = router]
      /\ UNCHANGED <<application, status, inner, routeMiddleware, globalMiddlewares, dispatch>>
  BY DEF GroupAddRouter
<1>2. PICK n \in Nat : n = Len(middlewareGroup) /\ DOMAIN middlewareGroup = 1..n
  BY GroupPlaces
<1>3. g \in 1..n /\ g \in 0..Len(middlewareGroup) /\ g # 0
  BY <1>2
<1>4. PICK c \in CallOf :
        /\ c.group = g /\ c.id = id /\ c.router = router /\ c.late = (status = "started")
        /\ calls' = Append(calls, c) /\ calls' \in Seq(CallOf)
  BY <1>1, <1>3, RecordIs
<1>5. middlewareGroup \in Seq(GroupOfMiddlewares)
  BY DEF Types
<1>6. ASSUME NEW h \in 1..n
      PROVE  /\ middlewareGroup[h] \in GroupOfMiddlewares
             /\ middlewareGroup[h].routers \in [Ids -> Routers \cup {None}]
  <2>1. middlewareGroup[h] \in GroupOfMiddlewares
    BY <1>2, <1>5
  <2> QED
    BY <2>1 DEF GroupOfMiddlewares
<1>7. PICK group : group = [middlewareGroup[g] EXCEPT !.routers[id] = router]
  OBVIOUS
<1>8. /\ group \in GroupOfMiddlewares
      /\ group.middlewares = middlewareGroup[g].middlewares
      /\ group.routers = [middlewareGroup[g].routers EXCEPT ![id] = router]
  BY <1>3, <1>6, <1>7 DEF GroupOfMiddlewares
<1>9. middlewareGroup' = [middlewareGroup EXCEPT ![g] = group]
  BY <1>1, <1>7
<1>10. /\ middlewareGroup' \in Seq(GroupOfMiddlewares) /\ Len(middlewareGroup') = n
       /\ DOMAIN middlewareGroup' = 1..n
       /\ \A h \in 1..n : middlewareGroup'[h] = IF h = g THEN group ELSE middlewareGroup[h]
  BY <1>2, <1>3, <1>5, <1>8, <1>9
<1>11. Types'
  BY <1>1, <1>4, <1>10 DEF Types, dispatch
<1>12. Known'
  BY <1>1, <1>2, <1>3, <1>10, RecordKnown
<1>13. Registered'
  <2>1. calls \in Seq(CallOf)
    BY DEF Types
  <2>2. ASSUME status = "stopped", NEW id2 \in Ids
        PROVE  /\ routeMiddleware[id2] = <<>>
               /\ Newest(calls', 0, id2, inner[id2])
               /\ \A h \in 1..n : Newest(calls', h, id2, middlewareGroup'[h].routers[id2])
    <3>1. routeMiddleware[id2] = <<>> /\ Newest(calls, 0, id2, inner[id2])
      BY <2>2 DEF Registered
    <3>2. Newest(calls', 0, id2, IF c.group = 0 /\ c.id = id2 THEN c.router ELSE inner[id2])
      BY <1>4, <2>1, <3>1, NewestAppend
    <3>3. Newest(calls', 0, id2, inner[id2])
      BY <1>3, <1>4, <3>2
    <3>4. ASSUME NEW h \in 1..n
          PROVE  Newest(calls', h, id2, middlewareGroup'[h].routers[id2])
      <4>1. Newest(calls, h, id2, middlewareGroup[h].routers[id2])
        BY <1>2, <2>2 DEF Registered
      <4>2. Newest(calls', h, id2, IF c.group = h /\ c.id = id2 THEN c.router
                                   ELSE middlewareGroup[h].routers[id2])
        BY <1>4, <2>1, <4>1, NewestAppend
      <4>3. middlewareGroup'[h].routers[id2] =
              IF c.group = h /\ c.id = id2 THEN c.router ELSE middlewareGroup[h].routers[id2]
        <5>1. CASE h = g
          <6>1. middlewareGroup'[h].routers[id2] = [middlewareGroup[g].routers EXCEPT ![id] = router][id2]
            BY <1>8, <1>10, <5>1
          <6>2. middlewareGroup[g].routers \in [Ids -> Routers \cup {None}]
            BY <1>3, <1>6
          <6> QED
            BY <1>4, <5>1, <6>1, <6>2
        <5>2. CASE h # g
          BY <1>4, <1>10, <5>2
        <5> QED
          BY <5>1, <5>2
      <4> QED
        BY <4>2, <4>3
    <3> QED
      BY <3>1, <3>3, <3>4
  <2> QED
    BY <1>1, <1>10, <2>2 DEF Registered
<1>14. CASE status = "stopped"
  <2>1. Resolved'
    BY <1>1, <1>14 DEF Resolved
  <2>2. Running'
    BY <1>1, <1>14, Quiet
  <2> QED
    BY <1>11, <1>12, <1>13, <2>1, <2>2
<1>15. CASE status = "started"
  <2>1. c.late /\ c.group > 0
    <3>1. c.late = TRUE
      BY <1>4, <1>15
    <3>2. c.group > 0
      BY <1>3, <1>4
    <3> QED
      BY <3>1, <3>2
  <2>2. \A h \in 1..n : middlewareGroup'[h].middlewares = middlewareGroup[h].middlewares
    BY <1>8, <1>10
  <2>3. Unchanging
    BY <1>1, <1>2, <1>4, <2>1, <2>2 DEF Unchanging
  <2>4. Resolved' /\ Running'
    BY <1>1, <2>3, StillResolved, Undisturbed
  <2> QED
    BY <1>11, <1>12, <1>13, <2>4
<1> QED
  BY <1>14, <1>15 DEF Types

LEMMA StepStart ==
  ASSUME RoutingInv, RoutingAssumption, Start
  PROVE  RoutingInv'
<1> USE DEF RoutingInv
<1>1. /\ status = "stopped" /\ status' = "started"
      /\ inner' = [id \in Ids |-> Resolve(id).router]
      /\ routeMiddleware' = [id \in Ids |-> Resolve(id).middlewares]
      /\ UNCHANGED <<application, globalMiddlewares, middlewareGroup, calls, dispatch>>
  BY DEF Start
<1>2. Unchanging
  BY <1>1 DEF Unchanging
<1>3. \A id \in Ids : /\ inner'[id] = RouterOf(id)'
                      /\ routeMiddleware'[id] = GroupMiddlewares(id)'
  <2>1. ASSUME NEW id \in Ids PROVE inner'[id] = RouterOf(id)' /\ routeMiddleware'[id] = GroupMiddlewares(id)'
    <3>1. RouterOf(id)' = RouterOf(id) /\ GroupMiddlewares(id)' = GroupMiddlewares(id)
      BY <1>2, StillRouted
    <3>2. Resolve(id).router = RouterOf(id) /\ Resolve(id).middlewares = GroupMiddlewares(id)
      BY <1>1, ResolveIs
    <3> QED
      BY <1>1, <3>1, <3>2
  <2> QED
    BY <2>1
<1>4. ASSUME NEW id \in Ids
      PROVE  Resolve(id).router \in Routers \cup {None} /\ Resolve(id).middlewares \in Seq(Middlewares)
  <2> DEFINE having == {g \in DOMAIN middlewareGroup : middlewareGroup[g].routers[id] # None}
  <2>1. CASE having = {}
    <3>1. Resolve(id) = [router |-> inner[id], middlewares |-> routeMiddleware[id]]
      BY <2>1 DEF Resolve
    <3>2. inner[id] \in Routers \cup {None} /\ routeMiddleware[id] \in Seq(Middlewares)
      BY DEF Types
    <3> QED
      BY <3>1, <3>2
  <2>2. CASE having # {}
    <3>1. PICK n \in Nat : n = Len(middlewareGroup) /\ DOMAIN middlewareGroup = 1..n
      BY GroupPlaces
    <3>2. having \in SUBSET (0..n)
      BY <3>1
    <3>3. Max(having) \in having
      <4> HIDE DEF having
      <4> QED
        BY <2>2, <3>2, MaxIs
    <3>4. PICK g \in DOMAIN middlewareGroup : g = Max(having)
      BY <3>3
    <3>5. middlewareGroup \in Seq(GroupOfMiddlewares)
      BY DEF Types
    <3>6. middlewareGroup[g] \in GroupOfMiddlewares
      BY <3>5
    <3>7. middlewareGroup[g].routers[id] \in Routers \cup {None} /\ middlewareGroup[g].middlewares \in Seq(Middlewares)
      BY <3>6 DEF GroupOfMiddlewares
    <3>8. Resolve(id) = [router |-> middlewareGroup[g].routers[id],
                         middlewares |-> middlewareGroup[g].middlewares]
      BY <2>2, <3>4 DEF Resolve
    <3> QED
      BY <3>7, <3>8
  <2> QED
    BY <2>1, <2>2
<1>5. inner' \in [Ids -> Routers \cup {None}] /\ routeMiddleware' \in [Ids -> Seq(Middlewares)]
  BY <1>1, <1>4
<1>6. Types'
  BY <1>1, <1>5 DEF Types, dispatch
<1>7. Known'
  BY <1>1 DEF Known
<1>8. Registered'
  BY <1>1 DEF Registered
<1>9. Resolved'
  BY <1>3 DEF Resolved
<1>10. Running'
  BY <1>1, Quiet
<1> QED
  BY <1>6, <1>7, <1>8, <1>9, <1>10

-----------------------------------------------------------------------------
(* The steps of a message.                                                 *)

\* What MiddlewaresOf is.
LEMMA MiddlewaresAre ==
  ASSUME Types, Known, RoutingAssumption, NEW id \in Ids
  PROVE  /\ MiddlewaresOf(id) = globalMiddlewares \o GroupMiddlewares(id)
         /\ GroupMiddlewares(id) \in Seq(Middlewares)
         /\ MiddlewaresOf(id) \in Seq(Middlewares)
<1>1. MiddlewaresOf(id) = globalMiddlewares \o GroupMiddlewares(id)
  BY DEF MiddlewaresOf, GroupMiddlewares
<1>2. GroupMiddlewares(id) \in Seq(Middlewares)
  <2>1. CASE GroupOf(id) = 0
    BY <2>1 DEF GroupMiddlewares
  <2>2. CASE GroupOf(id) # 0
    <3>1. GroupOf(id) \in DOMAIN middlewareGroup
      BY <2>2, GroupIs, GroupPlaces
    <3>2. PICK g \in DOMAIN middlewareGroup : g = GroupOf(id)
      BY <3>1
    <3>3. middlewareGroup \in Seq(GroupOfMiddlewares)
      BY DEF Types
    <3>4. middlewareGroup[g] \in GroupOfMiddlewares
      BY <3>3
    <3> QED
      BY <2>2, <3>2, <3>4 DEF GroupMiddlewares, GroupOfMiddlewares
  <2> QED
    BY <2>1, <2>2
<1>3. globalMiddlewares \in Seq(Middlewares)
  BY DEF Types
<1> QED
  BY <1>1, <1>2, <1>3, ConcatProperties

\* The step of one message: it leaves the configuration and the other messages
\* alone.
LEMMA OneMessage ==
  ASSUME RoutingInv, RoutingAssumption, NEW d \in Dispatchers, UNCHANGED config, Types',
         \A e \in Dispatchers \ {d} :
           /\ message'[e] = message[e] /\ pipeline'[e] = pipeline[e]
           /\ entered'[e] = entered[e] /\ goes'[e] = goes[e],
         NEW id \in Ids, message'[d] = None \/ message'[d] = id,
         message'[d] = None => Idle(d)',
         message'[d] = id =>
           /\ status = "started"
           /\ pipeline'[d] = Append(MiddlewaresOf(id), Destination)
           /\ Len(entered'[d]) <= Len(MiddlewaresOf(id))
           /\ \A i \in 1..Len(entered'[d]) : entered'[d][i] = MiddlewaresOf(id)[i]
  PROVE  RoutingInv'
<1> USE DEF RoutingInv
<1>1. /\ status' = status /\ inner' = inner /\ routeMiddleware' = routeMiddleware
      /\ calls' = calls /\ middlewareGroup' = middlewareGroup
      /\ globalMiddlewares' = globalMiddlewares /\ Unchanging
  BY DEF config, Unchanging
<1>2. Known' /\ Registered'
  BY <1>1 DEF Known, Registered, Newest, Calls
<1>3. Resolved'
  BY <1>1, StillResolved
<1>4. ASSUME NEW e \in Dispatchers PROVE IF message'[e] = None THEN Idle(e)' ELSE Within(e)'
  <2>1. CASE message'[e] = None
    <3>1. CASE e = d
      BY <2>1, <3>1
    <3>2. CASE e # d
      BY <2>1, <3>2 DEF Running, Idle
    <3> QED
      BY <2>1, <3>1, <3>2
  <2>2. CASE message'[e] # None
    <3>1. PICK j \in Ids : j = message'[e]
      BY <2>2 DEF Types
    <3>2. PICK M : M = MiddlewaresOf(j)
      OBVIOUS
    <3>3. MiddlewaresOf(message[e])' = M
      <4>1. MiddlewaresOf(j)' = MiddlewaresOf(j)
        BY <1>1, StillRouted
      <4>2. MiddlewaresOf(message[e])' = MiddlewaresOf(j)'
        BY <3>1 DEF MiddlewaresOf, GroupOf, Grouped
      <4> QED
        BY <3>2, <4>1, <4>2
    <3>4. /\ status = "started"
          /\ pipeline'[e] = Append(M, Destination)
          /\ Len(entered'[e]) <= Len(M)
          /\ \A i \in 1..Len(entered'[e]) : entered'[e][i] = M[i]
      <4>1. CASE e = d
        BY <2>2, <3>1, <3>2, <4>1
      <4>2. CASE e # d
        <5>1. message[e] = j /\ message[e] # None /\ Within(e)
          BY <2>2, <3>1, <4>2 DEF Running
        <5> QED
          BY <3>2, <4>2, <5>1 DEF Within
      <4> QED
        BY <4>1, <4>2
    <3>5. Within(e)'
      BY <1>1, <3>3, <3>4 DEF Within
    <3> QED
      BY <2>2, <3>5
  <2> QED
    BY <2>1, <2>2
<1>5. Running'
  BY <1>4 DEF Running
<1> QED
  BY <1>2, <1>3, <1>5

\* Where a message is.
LEMMA InMessage ==
  ASSUME RoutingInv, RoutingAssumption, NEW d \in Dispatchers, message[d] # None
  PROVE  \E id \in Ids : \E n \in Nat :
           /\ id = message[d] /\ status = "started"
           /\ MiddlewaresOf(id) \in Seq(Middlewares) /\ n = Len(MiddlewaresOf(id))
           /\ pipeline[d] = Append(MiddlewaresOf(id), Destination)
           /\ entered[d] \in Seq(Middlewares) /\ Len(entered[d]) \in 0..n
           /\ \A i \in 1..Len(entered[d]) : entered[d][i] = MiddlewaresOf(id)[i]
           /\ Callee(d) = IF Len(entered[d]) = n THEN Destination
                          ELSE MiddlewaresOf(id)[Len(entered[d]) + 1]
           /\ Callee(d) = Destination <=> Len(entered[d]) = n
<1>1. PICK id \in Ids : id = message[d]
  BY DEF RoutingInv, Types
<1>2. PICK M : M = MiddlewaresOf(id)
  OBVIOUS
<1>3. M \in Seq(Middlewares)
  BY <1>2, MiddlewaresAre DEF RoutingInv
<1>4. PICK n \in Nat : n = Len(M)
  BY <1>3
<1>5. Within(d)
  BY DEF RoutingInv, Running
<1>6. /\ status = "started" /\ pipeline[d] = Append(M, Destination)
      /\ Len(entered[d]) <= n
      /\ \A i \in 1..Len(entered[d]) : entered[d][i] = M[i]
  BY <1>1, <1>2, <1>4, <1>5 DEF Within
<1>7. entered[d] \in Seq(Middlewares)
  BY DEF RoutingInv, Types
<1>8. PICK k \in 0..n : k = Len(entered[d])
  BY <1>4, <1>6, <1>7
<1> DEFINE S == Middlewares \cup {Destination}
<1>9. M \in Seq(S) /\ Destination \in S
  BY <1>3
<1>10. k + 1 \in 1..n + 1 /\ (k = n \/ k + 1 \in 1..n)
  BY <1>8
<1>11. Callee(d) = Append(M, Destination)[k + 1]
  BY <1>6, <1>8 DEF Callee
<1> HIDE DEF S
<1>12. Append(M, Destination)[n + 1] = Destination /\ \A i \in 1..n : Append(M, Destination)[i] = M[i]
  BY <1>4, <1>9, AppendProperties
<1>13. k # n => M[k + 1] \in Middlewares
  BY <1>3, <1>4, <1>10
<1>14. Callee(d) = IF k = n THEN Destination ELSE M[k + 1]
  BY <1>10, <1>11, <1>12
<1>15. Callee(d) = Destination <=> k = n
  BY <1>13, <1>14 DEF RoutingAssumption
<1> QED
  BY <1>1, <1>2, <1>3, <1>4, <1>6, <1>7, <1>8, <1>14, <1>15

LEMMA StepDispatch ==
  ASSUME RoutingInv, RoutingAssumption, NEW d \in Dispatchers, NEW id \in Ids, Dispatch(d, id)
  PROVE  RoutingInv'
<1>1. /\ status = "started" /\ message[d] = None
      /\ message' = [message EXCEPT ![d] = id]
      /\ pipeline' = [pipeline EXCEPT ![d] = Then(globalMiddlewares \o routeMiddleware[id])]
      /\ UNCHANGED <<config, entered, goes, ran>>
  BY DEF Dispatch
<1>2. PICK M : M = MiddlewaresOf(id)
  OBVIOUS
<1>3. M \in Seq(Middlewares) /\ globalMiddlewares \o routeMiddleware[id] = M
  BY <1>1, <1>2, MiddlewaresAre DEF RoutingInv, Resolved
<1>4. pipeline' = [pipeline EXCEPT ![d] = Append(M, Destination)]
  BY <1>1, <1>3, ThenIs
<1>5. Append(M, Destination) \in Seq(Middlewares \cup {Destination})
  <2>1. M \in Seq(Middlewares \cup {Destination})
    BY <1>3
  <2> QED
    BY <2>1, AppendProperties
<1>6. Types'
  <2>1. /\ application' = application /\ status' = status /\ inner' = inner
        /\ routeMiddleware' = routeMiddleware /\ globalMiddlewares' = globalMiddlewares
        /\ middlewareGroup' = middlewareGroup /\ calls' = calls
        /\ entered' = entered /\ goes' = goes /\ ran' = ran
    BY <1>1 DEF config
  <2>2. Types
    BY DEF RoutingInv
  <2>3. message' \in [Dispatchers -> Ids \cup {None}]
    BY <1>1, <2>2 DEF Types
  <2>4. pipeline' \in [Dispatchers -> Seq(Middlewares \cup {Destination})]
    BY <1>4, <1>5, <2>2 DEF Types
  <2> QED
    BY <2>1, <2>2, <2>3, <2>4 DEF Types
<1>7. message'[d] = id /\ id # None /\ pipeline'[d] = Append(M, Destination)
  BY <1>1, <1>4 DEF RoutingInv, Types, RoutingAssumption
<1>8. entered'[d] = <<>>
  BY <1>1 DEF RoutingInv, Running, Idle
<1>9. Len(entered'[d]) <= Len(M) /\ 1..Len(entered'[d]) = {}
  BY <1>3, <1>8
<1>10. \A e \in Dispatchers \ {d} :
         /\ message'[e] = message[e] /\ pipeline'[e] = pipeline[e]
         /\ entered'[e] = entered[e] /\ goes'[e] = goes[e]
  BY <1>1, <1>4 DEF RoutingInv, Types
<1> QED
  BY <1>1, <1>2, <1>6, <1>7, <1>9, <1>10, OneMessage

\* A step that leaves a message where it is, or moves it along its pipeline.
LEMMA Along ==
  ASSUME RoutingInv, RoutingAssumption, NEW d \in Dispatchers, message[d] # None,
         UNCHANGED <<config, message, pipeline>>, Types',
         \A e \in Dispatchers \ {d} : entered'[e] = entered[e] /\ goes'[e] = goes[e],
         Len(entered'[d]) <= Len(MiddlewaresOf(message[d])),
         \A i \in 1..Len(entered'[d]) : entered'[d][i] = MiddlewaresOf(message[d])[i]
  PROVE  RoutingInv'
<1>1. PICK id \in Ids : id = message[d] /\ status = "started"
                        /\ pipeline[d] = Append(MiddlewaresOf(id), Destination)
  BY InMessage
<1>2. message'[d] = id /\ id # None /\ pipeline'[d] = Append(MiddlewaresOf(id), Destination)
  BY <1>1
<1>3. UNCHANGED config
  OBVIOUS
<1>4. /\ Len(entered'[d]) <= Len(MiddlewaresOf(id))
      /\ \A i \in 1..Len(entered'[d]) : entered'[d][i] = MiddlewaresOf(id)[i]
  BY <1>1
<1> QED
  BY <1>1, <1>2, <1>3, <1>4, OneMessage

LEMMA StepEnter ==
  ASSUME RoutingInv, RoutingAssumption, NEW d \in Dispatchers, Enter(d)
  PROVE  RoutingInv'
<1>1. /\ message[d] # None /\ Callee(d) # Destination
      /\ entered' = [entered EXCEPT ![d] = Append(@, Callee(d))]
      /\ UNCHANGED <<config, message, pipeline, goes, ran>>
  BY DEF Enter
<1>2. PICK id \in Ids, n \in Nat :
        /\ id = message[d]
        /\ MiddlewaresOf(id) \in Seq(Middlewares) /\ n = Len(MiddlewaresOf(id))
        /\ entered[d] \in Seq(Middlewares) /\ Len(entered[d]) \in 0..n
        /\ \A i \in 1..Len(entered[d]) : entered[d][i] = MiddlewaresOf(id)[i]
        /\ Callee(d) = IF Len(entered[d]) = n THEN Destination
                       ELSE MiddlewaresOf(id)[Len(entered[d]) + 1]
        /\ Callee(d) = Destination <=> Len(entered[d]) = n
  BY <1>1, InMessage
<1>3. PICK k \in 0..n - 1 : k = Len(entered[d]) /\ k + 1 \in 1..n
  BY <1>1, <1>2
<1>4. PICK m \in Middlewares : m = Callee(d) /\ m = MiddlewaresOf(id)[k + 1]
  <2>1. Callee(d) = MiddlewaresOf(id)[k + 1]
    BY <1>1, <1>2, <1>3
  <2> QED
    BY <1>2, <1>3, <2>1
<1>5. entered' = [entered EXCEPT ![d] = Append(entered[d], m)]
  BY <1>1, <1>4
<1>6. /\ Append(entered[d], m) \in Seq(Middlewares) /\ Len(Append(entered[d], m)) = k + 1
      /\ \A i \in 1..k : Append(entered[d], m)[i] = entered[d][i]
      /\ Append(entered[d], m)[k + 1] = m
  BY <1>2, <1>3, AppendProperties
<1>7. Types'
  BY <1>1, <1>5, <1>6 DEF RoutingInv, Types, config
<1>8. entered'[d] = Append(entered[d], m) /\ \A e \in Dispatchers \ {d} : entered'[e] = entered[e]
  BY <1>5 DEF RoutingInv, Types
<1>9. Len(entered'[d]) = k + 1 /\ k + 1 <= n
  BY <1>3, <1>6, <1>8
<1>10. ASSUME NEW i \in 1..k + 1 PROVE entered'[d][i] = MiddlewaresOf(id)[i]
  <2>1. i \in 1..k \/ i = k + 1
    OBVIOUS
  <2>2. CASE i \in 1..k
    BY <1>2, <1>3, <1>6, <1>8, <2>2
  <2>3. CASE i = k + 1
    BY <1>4, <1>6, <1>8, <2>3
  <2> QED
    BY <2>1, <2>2, <2>3
<1>11. /\ Len(entered'[d]) <= Len(MiddlewaresOf(message[d]))
       /\ \A i \in 1..Len(entered'[d]) : entered'[d][i] = MiddlewaresOf(message[d])[i]
  BY <1>2, <1>9, <1>10
<1>12. UNCHANGED <<config, message, pipeline>> /\ goes' = goes
  BY <1>1
<1> QED
  BY <1>1, <1>7, <1>8, <1>11, <1>12, Along

\* Where it has got to, if it stays there.
LEMMA Stays ==
  ASSUME RoutingInv, RoutingAssumption, NEW d \in Dispatchers, message[d] # None
  PROVE  /\ Len(entered[d]) <= Len(MiddlewaresOf(message[d]))
         /\ \A i \in 1..Len(entered[d]) : entered[d][i] = MiddlewaresOf(message[d])[i]
  BY DEF RoutingInv, Running, Within

LEMMA StepBreak ==
  ASSUME RoutingInv, RoutingAssumption, NEW d \in Dispatchers, Break(d)
  PROVE  RoutingInv'
<1>1. /\ entered[d] # <<>> /\ goes' = [goes EXCEPT ![d] = "out"]
      /\ UNCHANGED <<config, message, pipeline, entered, ran>>
  BY DEF Break
<1>2. message[d] # None
  BY <1>1 DEF RoutingInv, Running, Idle
<1>3. Types'
  BY <1>1 DEF RoutingInv, Types, config
<1>4. \A e \in Dispatchers \ {d} : entered'[e] = entered[e] /\ goes'[e] = goes[e]
  BY <1>1 DEF RoutingInv, Types
<1>5. UNCHANGED <<config, message, pipeline>> /\ entered' = entered
  BY <1>1
<1> QED
  BY <1>2, <1>3, <1>4, <1>5, Stays, Along

LEMMA StepHandle ==
  ASSUME RoutingInv, RoutingAssumption, NEW d \in Dispatchers, Handle(d)
  PROVE  RoutingInv'
<1>1. /\ message[d] # None
      /\ ran' = [ran EXCEPT ![d] =
           IF application = "websocket" THEN Append(@, MessageHandler) ELSE Do(message[d], @)]
      /\ goes' = [goes EXCEPT ![d] = "out"]
      /\ UNCHANGED <<config, message, pipeline, entered>>
  BY DEF Handle
<1> DEFINE S == Routers \cup {MessageHandler}
<1>2. PICK r : r = IF application = "websocket" THEN Append(ran[d], MessageHandler) ELSE Do(message[d], ran[d])
  OBVIOUS
<1>3. r \in Seq(S)
  <2>1. ran[d] \in Seq(S) /\ inner[message[d]] \in Routers \cup {None}
    BY <1>1 DEF RoutingInv, Types
  <2>2. MessageHandler \in S /\ Routers \subseteq S
    OBVIOUS
  <2>3. \A x \in S : Append(ran[d], x) \in Seq(S)
    <3> HIDE DEF S
    <3> QED
      BY <2>1, AppendProperties
  <2> QED
    BY <1>2, <2>1, <2>2, <2>3 DEF Do
<1>4. ran' = [ran EXCEPT ![d] = r]
  BY <1>1, <1>2
<1>5. Types'
  BY <1>1, <1>3, <1>4, SMTT(60) DEF RoutingInv, Types, config
<1>6. \A e \in Dispatchers \ {d} : entered'[e] = entered[e] /\ goes'[e] = goes[e]
  BY <1>1 DEF RoutingInv, Types
<1>7. UNCHANGED <<config, message, pipeline>> /\ entered' = entered
  BY <1>1
<1> QED
  BY <1>1, <1>5, <1>6, <1>7, Stays, Along

LEMMA StepLeave ==
  ASSUME RoutingInv, RoutingAssumption, NEW d \in Dispatchers, Leave(d)
  PROVE  RoutingInv'
<1>1. /\ entered[d] # <<>> /\ UNCHANGED <<config, message, pipeline, ran>>
  BY DEF Leave
<1>2. message[d] # None
  BY <1>1 DEF RoutingInv, Running, Idle
<1>3. CASE entered' = [entered EXCEPT ![d] = Front(@)] /\ goes' = goes
  <2>1. entered[d] \in Seq(Middlewares)
    BY DEF RoutingInv, Types
  <2>2. PICK k \in Nat : k = Len(entered[d]) /\ k >= 1
    BY <1>1, <2>1
  <2>3. PICK f : f = Front(entered[d]) /\ f = SubSeq(entered[d], 1, k - 1)
    BY <2>2 DEF Front
  <2>4. f \in Seq(Middlewares) /\ Len(f) = k - 1 /\ \A i \in 1..k - 1 : f[i] = entered[d][i]
    BY <2>2, <2>1, <2>3
  <2>5. entered' = [entered EXCEPT ![d] = f]
    BY <1>3, <2>3
  <2>6. Types'
    BY <1>1, <1>3, <2>4, <2>5 DEF RoutingInv, Types, config
  <2>7. entered'[d] = f /\ \A e \in Dispatchers \ {d} : entered'[e] = entered[e] /\ goes'[e] = goes[e]
    BY <1>3, <2>5 DEF RoutingInv, Types
  <2>8. PICK n \in Nat : n = Len(MiddlewaresOf(message[d])) /\ k <= n
    BY <1>2, <2>2, InMessage
  <2>9. /\ Len(entered'[d]) <= Len(MiddlewaresOf(message[d]))
        /\ \A i \in 1..Len(entered'[d]) : entered'[d][i] = MiddlewaresOf(message[d])[i]
    <3>1. \A i \in 1..k : entered[d][i] = MiddlewaresOf(message[d])[i]
      BY <1>2, <2>2, Stays
    <3>2. \A i \in 1..k - 1 : i \in 1..k
      BY <2>2
    <3> QED
      BY <2>2, <2>4, <2>7, <2>8, <3>1, <3>2
  <2>10. UNCHANGED <<config, message, pipeline>>
    BY <1>1
  <2> QED
    BY <1>2, <2>6, <2>7, <2>9, <2>10, Along
<1>4. CASE goes' = [goes EXCEPT ![d] = "in"] /\ entered' = entered
  <2>1. Types'
    BY <1>1, <1>4 DEF RoutingInv, Types, config
  <2>2. \A e \in Dispatchers \ {d} : entered'[e] = entered[e] /\ goes'[e] = goes[e]
    BY <1>4 DEF RoutingInv, Types
  <2>3. UNCHANGED <<config, message, pipeline>>
    BY <1>1
  <2> QED
    BY <1>2, <1>4, <2>1, <2>2, <2>3, Stays, Along
<1> QED
  BY <1>3, <1>4 DEF Leave

LEMMA StepFinish ==
  ASSUME RoutingInv, RoutingAssumption, NEW d \in Dispatchers, Finish(d)
  PROVE  RoutingInv'
<1>1. /\ goes[d] = "out" /\ entered[d] = <<>>
      /\ message' = [message EXCEPT ![d] = None] /\ pipeline' = [pipeline EXCEPT ![d] = <<>>]
      /\ goes' = [goes EXCEPT ![d] = "in"] /\ ran' = [ran EXCEPT ![d] = <<>>]
      /\ UNCHANGED config /\ entered' = entered
  BY DEF Finish
<1>2. message[d] # None
  BY <1>1 DEF RoutingInv, Running, Idle
<1>3. PICK id \in Ids : id = message[d]
  BY <1>2 DEF RoutingInv, Types
<1>4. Types'
  BY <1>1 DEF RoutingInv, Types, config
<1>5. message'[d] = None /\ Idle(d)' /\ None # id
  BY <1>1, <1>2, <1>3 DEF RoutingInv, Types, Idle
<1>6. \A e \in Dispatchers \ {d} :
        /\ message'[e] = message[e] /\ pipeline'[e] = pipeline[e]
        /\ entered'[e] = entered[e] /\ goes'[e] = goes[e]
  BY <1>1 DEF RoutingInv, Types
<1> QED
  BY <1>1, <1>4, <1>5, <1>6, OneMessage

-----------------------------------------------------------------------------
(* The theorems.                                                           *)

LEMMA InvInit == RoutingAssumption /\ RoutingInit => RoutingInv
<1> SUFFICES ASSUME RoutingAssumption, RoutingInit PROVE RoutingInv
  OBVIOUS
<1> USE DEF RoutingInit
<1>1. Types
  BY DEF Types, Nobody
<1>2. Known
  BY DEF Known, RoutingAssumption
<1>3. Registered
  BY DEF Registered, Newest, Calls, Nobody
<1>4. Resolved /\ Running
  BY DEF Resolved, Running, Idle
<1> QED
  BY <1>1, <1>2, <1>3, <1>4 DEF RoutingInv

LEMMA InvStep == RoutingAssumption /\ RoutingInv /\ [RoutingNext]_routingVars => RoutingInv'
<1> SUFFICES ASSUME RoutingAssumption, RoutingInv, [RoutingNext]_routingVars PROVE RoutingInv'
  OBVIOUS
<1>1. CASE UNCHANGED routingVars
  <2>1. Types'
    BY <1>1 DEF RoutingInv, Types, routingVars, config, dispatch
  <2>2. Known'
    BY <1>1 DEF RoutingInv, Known, routingVars, config
  <2>3. Registered'
    BY <1>1 DEF RoutingInv, Registered, Newest, Calls, routingVars, config
  <2>4. Unchanging /\ status' = status /\ UNCHANGED <<inner, routeMiddleware>> /\ UNCHANGED dispatch
    BY <1>1 DEF Unchanging, routingVars, config
  <2>5. Resolved' /\ Running'
    BY <2>4, StillResolved, Undisturbed DEF RoutingInv
  <2> QED
    BY <2>1, <2>2, <2>3, <2>5 DEF RoutingInv
<1>2. CASE RoutingNext
  <2>1. ASSUME NEW id \in Ids, NEW router \in Routers, AddRouter(id, router) PROVE RoutingInv'
    BY <2>1, StepAddRouter
  <2>2. ASSUME NEW id \in Ids, NEW router \in Routers, NEW g \in DOMAIN middlewareGroup,
               GroupAddRouter(g, id, router)
        PROVE  RoutingInv'
    BY <2>2, StepGroupAddRouter
  <2>3. ASSUME NEW m \in Middlewares, Use(m) PROVE RoutingInv'
    BY <2>3, StepUse
  <2>4. ASSUME NEW m \in Middlewares, NEW k \in 0..MaxMore, NEW more \in [1..k -> Middlewares],
               NewGroup(m, more)
        PROVE  RoutingInv'
    BY <2>4, StepNewGroup
  <2>5. CASE Start
    BY <2>5, StepStart
  <2>6. ASSUME NEW d \in Dispatchers, NEW id \in Ids, Dispatch(d, id) PROVE RoutingInv'
    BY <2>6, StepDispatch
  <2>7. ASSUME NEW d \in Dispatchers, Enter(d) \/ Break(d) \/ Handle(d) \/ Leave(d) \/ Finish(d)
        PROVE  RoutingInv'
    BY <2>7, StepEnter, StepBreak, StepHandle, StepLeave, StepFinish
  <2> QED
    BY <1>2, <2>1, <2>2, <2>3, <2>4, <2>5, <2>6, <2>7 DEF RoutingNext
<1> QED
  BY <1>1, <1>2

LEMMA Inductive == RoutingSpec => []RoutingInv
  BY InvInit, InvStep, RoutingAssumption, PTL DEF RoutingSpec

LEMMA TypesSuffice == RoutingAssumption /\ RoutingInv => RoutingTypeOK
<1> SUFFICES ASSUME RoutingAssumption, RoutingInv PROVE RoutingTypeOK
  OBVIOUS
<1>1. ASSUME NEW d \in Dispatchers, message[d] # None
      PROVE  /\ pipeline[d] \in Seq(Middlewares \cup {Destination})
             /\ Last(pipeline[d]) = Destination
             /\ Len(entered[d]) < Len(pipeline[d])
  <2>1. PICK id \in Ids, n \in Nat :
          /\ MiddlewaresOf(id) \in Seq(Middlewares) /\ n = Len(MiddlewaresOf(id))
          /\ pipeline[d] = Append(MiddlewaresOf(id), Destination)
          /\ Len(entered[d]) \in 0..n
    BY <1>1, InMessage
  <2> DEFINE S == Middlewares \cup {Destination}
  <2>2. MiddlewaresOf(id) \in Seq(S) /\ Destination \in S
    BY <2>1
  <2> HIDE DEF S
  <2>3. pipeline[d] \in Seq(S) /\ Len(pipeline[d]) = n + 1 /\ pipeline[d][n + 1] = Destination
    BY <2>1, <2>2, AppendProperties
  <2> USE DEF S
  <2> QED
    BY <2>1, <2>3 DEF Last
<1>2. Types
  BY DEF RoutingInv
<1> QED
  BY <1>1, <1>2 DEF Types, RoutingTypeOK, CallOf, GroupOfMiddlewares

\* Every variable keeps its type, and a message is never beyond the destination
\* of its pipeline (RouterMgr.Dispatch, Pipeline.Then).
THEOREM RoutingTypeCorrect == RoutingSpec => []RoutingTypeOK
  BY Inductive, TypesSuffice, RoutingAssumption, PTL

\* A sequence is a prefix of whatever is appended to it.
LEMMA PrefixOfConcat ==
  ASSUME NEW s \in Seq(Middlewares), NEW t \in Seq(Middlewares)
  PROVE  IsPrefix(s, s \o t)
<1>1. PICK m \in Nat, n \in Nat : m = Len(s) /\ n = Len(t)
  OBVIOUS
<1>2. PICK u : u = s \o t
  OBVIOUS
<1>3. /\ u \in Seq(Middlewares) /\ Len(u) = m + n
      /\ \A i \in 1..m + n : u[i] = IF i <= m THEN s[i] ELSE t[i - m]
  BY <1>1, <1>2, ConcatProperties
<1>4. PICK v : v = SubSeq(s, 1, m)
  OBVIOUS
<1>5. PICK w : w = SubSeq(u, 1, m)
  OBVIOUS
<1>6. v \in Seq(Middlewares) /\ Len(v) = m /\ \A i \in 1..m : v[i] = s[i]
  BY <1>1, <1>4
<1>7. w \in Seq(Middlewares) /\ Len(w) = m /\ \A i \in 1..m : w[i] = u[i]
  BY <1>3, <1>5
<1>8. \A i \in 1..m : i \in 1..m + n /\ i <= m
  OBVIOUS
<1>9. v = w
  BY <1>3, <1>6, <1>7, <1>8, SeqEqual
<1> QED
  BY <1>1, <1>2, <1>3, <1>4, <1>5, <1>9 DEF IsPrefix

\* A sequence is a suffix of whatever it is appended to.
LEMMA SuffixOfConcat ==
  ASSUME NEW s \in Seq(Middlewares), NEW t \in Seq(Middlewares)
  PROVE  IsSuffix(t, s \o t)
<1>1. PICK m \in Nat, n \in Nat : m = Len(s) /\ n = Len(t)
  OBVIOUS
<1>2. PICK u : u = s \o t
  OBVIOUS
<1>3. /\ u \in Seq(Middlewares) /\ Len(u) = m + n
      /\ \A i \in 1..m + n : u[i] = IF i <= m THEN s[i] ELSE t[i - m]
  BY <1>1, <1>2, ConcatProperties
<1>4. PICK v : v = Reverse(t)
  OBVIOUS
<1>5. PICK w : w = Reverse(u)
  OBVIOUS
<1>6. v = [i \in 1..n |-> t[(n - i) + 1]] /\ w = [i \in 1..m + n |-> u[((m + n) - i) + 1]]
  BY <1>1, <1>3, <1>4, <1>5 DEF Reverse
<1>7. \A i \in 1..n : (n - i) + 1 \in 1..n
  OBVIOUS
<1>8. \A i \in 1..m + n : ((m + n) - i) + 1 \in 1..m + n
  OBVIOUS
<1>9. v \in Seq(Middlewares) /\ Len(v) = n
  <2>1. v \in [1..n -> Middlewares]
    BY <1>1, <1>6, <1>7
  <2> QED
    BY <2>1
<1>10. w \in Seq(Middlewares) /\ Len(w) = m + n
  <2>1. w \in [1..m + n -> Middlewares]
    BY <1>3, <1>6, <1>8
  <2>2. m + n \in Nat
    OBVIOUS
  <2> QED
    BY <2>1, <2>2
<1>11. ASSUME NEW i \in 1..n PROVE v[i] = w[i]
  <2>1. i \in 1..m + n
    OBVIOUS
  <2>2. w[i] = u[((m + n) - i) + 1]
    BY <1>6, <2>1
  <2>3. ((m + n) - i) + 1 \in 1..m + n /\ ~(((m + n) - i) + 1 <= m)
        /\ (((m + n) - i) + 1) - m = (n - i) + 1
    OBVIOUS
  <2>4. u[((m + n) - i) + 1] = t[(n - i) + 1]
    BY <1>3, <2>3
  <2>5. v[i] = t[(n - i) + 1]
    BY <1>6
  <2> QED
    BY <2>2, <2>4, <2>5
<1>12. SubSeq(v, 1, n) = SubSeq(w, 1, n)
  <2>1. PICK v1 : v1 = SubSeq(v, 1, n)
    OBVIOUS
  <2>2. PICK w1 : w1 = SubSeq(w, 1, n)
    OBVIOUS
  <2>3. v1 \in Seq(Middlewares) /\ Len(v1) = n /\ \A i \in 1..n : v1[i] = v[i]
    BY <1>9, <2>1
  <2>4. w1 \in Seq(Middlewares) /\ Len(w1) = n /\ \A i \in 1..n : w1[i] = w[i]
    BY <1>10, <2>2
  <2>5. v1 = w1
    BY <1>11, <2>3, <2>4, SeqEqual
  <2> QED
    BY <2>1, <2>2, <2>5
<1>13. Len(v) <= Len(w)
  BY <1>9, <1>10
<1>14. IsPrefix(v, w)
  BY <1>9, <1>12, <1>13 DEF IsPrefix
<1> QED
  BY <1>2, <1>4, <1>5, <1>14 DEF IsSuffix

\* Where the calls of AddRouter have a router for an ID, one of them is the one
\* that decides.
LEMMA Deciding ==
  ASSUME Types, Known, RoutingAssumption, NEW id \in Ids, RouterOf(id) # None
  PROVE  \E i \in DOMAIN calls :
           /\ calls[i].id = id /\ calls[i].router = RouterOf(id)
           /\ \/ calls[i].group = 0
              \/ i \in Grouped(id) /\ calls[i].group = GroupOf(id)
<1>1. PICK k \in Nat : DOMAIN calls = 1..k
  BY GroupPlaces
<1>2. CASE Grouped(id) # {}
  <2>1. ByGroupOf(id) \in SUBSET (0..k) /\ ByGroupOf(id) # {}
    BY <1>1, <1>2, GroupIs DEF ByGroupOf, Grouped
  <2>2. PICK i \in ByGroupOf(id) : i = Max(ByGroupOf(id))
    BY <2>1, MaxIs
  <2>3. calls[i].router = RouterOf(id)
    BY <1>2, <2>2 DEF RouterOf
  <2> QED
    BY <2>2, <2>3 DEF ByGroupOf, Grouped
<1>3. CASE Grouped(id) = {}
  <2>1. Direct(id) # {}
    BY <1>3 DEF RouterOf
  <2>2. Direct(id) \in SUBSET (0..k)
    BY <1>1 DEF Direct
  <2>3. PICK i \in Direct(id) : i = Max(Direct(id))
    BY <2>1, <2>2, MaxIs
  <2>4. calls[i].router = RouterOf(id)
    BY <1>3, <2>1, <2>3 DEF RouterOf
  <2> QED
    BY <2>3, <2>4 DEF Direct
<1> QED
  BY <1>2, <1>3

\* What a step that calls a router or a handler does.
LEMMA HandledRight ==
  ASSUME RoutingInv, RoutingAssumption, NEW d \in Dispatchers, Handle(d), Len(ran'[d]) > Len(ran[d])
  PROVE  Guarded(d) /\ GlobalFirst(d) /\ LatestRouter(d) /\ Protected(d)
<1>1. /\ message[d] # None /\ Callee(d) = Destination
      /\ ran' = [ran EXCEPT ![d] =
           IF application = "websocket" THEN Append(@, MessageHandler) ELSE Do(message[d], @)]
  BY DEF Handle
<1>2. PICK id \in Ids, n \in Nat :
        /\ id = message[d] /\ status = "started"
        /\ MiddlewaresOf(id) \in Seq(Middlewares) /\ n = Len(MiddlewaresOf(id))
        /\ entered[d] \in Seq(Middlewares)
        /\ \A i \in 1..Len(entered[d]) : entered[d][i] = MiddlewaresOf(id)[i]
        /\ Callee(d) = Destination <=> Len(entered[d]) = n
  BY <1>1, InMessage
<1>3. entered[d] = MiddlewaresOf(id)
  <2>1. Len(entered[d]) = Len(MiddlewaresOf(id))
    BY <1>1, <1>2
  <2>2. PICK M : M = MiddlewaresOf(id)
    OBVIOUS
  <2> QED
    BY <1>2, <2>1, <2>2, SeqEqual
<1>4. Guarded(d)
  BY <1>2, <1>3 DEF Guarded
<1>5. ran'[d] = IF application = "websocket" THEN Append(ran[d], MessageHandler) ELSE Do(id, ran[d])
  BY <1>1, <1>2 DEF RoutingInv, Types
<1>6. application = "router" => inner[id] # None /\ Last(ran'[d]) = inner[id]
  <2> SUFFICES ASSUME application = "router" PROVE inner[id] # None /\ Last(ran'[d]) = inner[id]
    OBVIOUS
  <2>1. ran'[d] = Do(id, ran[d])
    BY <1>5
  <2>2. ran[d] \in Seq(Routers \cup {MessageHandler}) /\ inner[id] \in Routers \cup {None}
    BY DEF RoutingInv, Types
  <2>3. PICK k \in Nat : k = Len(ran[d])
    BY <2>2
  <2>4. inner[id] # None
    BY <2>1, <2>3 DEF Do
  <2>5. ran'[d] = Append(ran[d], inner[id]) /\ inner[id] \in Routers \cup {MessageHandler}
    BY <2>1, <2>2, <2>4 DEF Do
  <2>6. Len(ran'[d]) = k + 1 /\ ran'[d][k + 1] = inner[id]
    BY <2>2, <2>3, <2>5, AppendProperties
  <2> QED
    BY <2>4, <2>6 DEF Last
<1>7. inner[id] = RouterOf(id)
  BY <1>2 DEF RoutingInv, Resolved
<1>8. LatestRouter(d)
  BY <1>2, <1>6, <1>7 DEF LatestRouter
<1>9. Protected(d)
  <2> SUFFICES ASSUME application = "router",
                      \A i \in DOMAIN calls :
                        calls[i].id = message[d] /\ calls[i].router = Last(ran'[d]) => calls[i].group > 0
               PROVE  \E i \in DOMAIN calls :
                        /\ calls[i].id = message[d] /\ calls[i].router = Last(ran'[d])
                        /\ ~calls[i].late
                        /\ IsSuffix(middlewareGroup[calls[i].group].middlewares, entered[d])
    BY DEF Protected
  <2>1. Last(ran'[d]) = RouterOf(id) /\ RouterOf(id) # None
    BY <1>6, <1>7
  <2>2. PICK i \in DOMAIN calls :
          /\ calls[i].id = id /\ calls[i].router = RouterOf(id)
          /\ \/ calls[i].group = 0
             \/ i \in Grouped(id) /\ calls[i].group = GroupOf(id)
    BY <2>1, Deciding DEF RoutingInv
  <2>3. calls[i].group > 0
    BY <1>2, <2>1, <2>2
  <2>4. i \in Grouped(id) /\ calls[i].group = GroupOf(id) /\ GroupOf(id) # 0
    BY <2>2, <2>3
  <2>5. ~calls[i].late
    BY <2>4 DEF Grouped
  <2>6. GroupMiddlewares(id) = middlewareGroup[calls[i].group].middlewares
    BY <2>4 DEF GroupMiddlewares
  <2>7. /\ entered[d] = globalMiddlewares \o GroupMiddlewares(id)
        /\ GroupMiddlewares(id) \in Seq(Middlewares) /\ globalMiddlewares \in Seq(Middlewares)
    BY <1>3, MiddlewaresAre DEF RoutingInv, Types
  <2>8. IsSuffix(middlewareGroup[calls[i].group].middlewares, entered[d])
    BY <2>6, <2>7, SuffixOfConcat
  <2> QED
    BY <1>2, <2>1, <2>2, <2>5, <2>8
<1>10. GlobalFirst(d)
  <2>1. /\ entered[d] = globalMiddlewares \o GroupMiddlewares(id)
        /\ GroupMiddlewares(id) \in Seq(Middlewares) /\ globalMiddlewares \in Seq(Middlewares)
    BY <1>3, MiddlewaresAre DEF RoutingInv, Types
  <2>2. IsPrefix(globalMiddlewares, entered[d])
    BY <2>1, PrefixOfConcat
  <2> QED
    BY <2>2 DEF GlobalFirst
<1> QED
  BY <1>4, <1>8, <1>9, <1>10

\* No other step calls one.
LEMMA OnlyHandle ==
  ASSUME RoutingInv, RoutingAssumption, [RoutingNext]_routingVars, NEW d \in Dispatchers, Len(ran'[d]) > Len(ran[d])
  PROVE  Handle(d)
<1>1. ran[d] \in Seq(Routers \cup {MessageHandler}) /\ Len(ran[d]) \in Nat /\ DOMAIN ran = Dispatchers
  BY DEF RoutingInv, Types
<1>2. ran'[d] # ran[d]
  BY <1>1
<1>3. ran' # ran
  BY <1>2
<1>4. CASE UNCHANGED routingVars
  BY <1>3, <1>4 DEF routingVars, dispatch
<1>5. CASE RoutingNext
  <2>1. ASSUME NEW e \in Dispatchers, Handle(e) PROVE Handle(d)
    <3>1. e # d => ran'[d] = ran[d]
      BY <1>1, <2>1 DEF Handle
    <3> QED
      BY <1>2, <2>1, <3>1
  <2>2. ASSUME NEW e \in Dispatchers, Finish(e) PROVE FALSE
    <3>1. ran' = [ran EXCEPT ![e] = <<>>]
      BY <2>2 DEF Finish
    <3>2. CASE e = d
      <4>1. ran'[d] = <<>> /\ Len(ran'[d]) = 0
        BY <1>1, <3>1, <3>2
      <4> QED
        BY <1>1, <4>1
    <3>3. CASE e # d
      BY <1>1, <1>2, <3>1, <3>3
    <3> QED
      BY <3>2, <3>3
  <2>3. PICK e \in Dispatchers : Handle(e) \/ Finish(e)
    BY <1>3, <1>5 DEF RoutingNext, AddRouter, GroupAddRouter, Use, NewGroup, Start, Dispatch, Enter, Break, Leave, dispatch
  <2> QED
    BY <2>1, <2>2, <2>3
<1> QED
  BY <1>4, <1>5

\* Whenever a router is called, by Dispatch or again by a middleware, it is the
\* one that the calls of AddRouter amount to, inside of exactly the global
\* middlewares and those of its group, in their order; a websocket's handler is
\* called inside of the global ones, which come first, and maybe of others
\* (RouterMgr.ResolveGroup, RouterMgr.Dispatch, Pipeline.Then).
THEOREM AlwaysRightRoute == RoutingSpec => RightRoute
<1>1. ASSUME RoutingInv, RoutingAssumption, [RoutingNext]_routingVars
      PROVE  [\A d \in Dispatchers :
                Len(ran'[d]) > Len(ran[d]) =>
                  Guarded(d) /\ GlobalFirst(d) /\ LatestRouter(d) /\ Protected(d)]_routingVars
  BY <1>1, OnlyHandle, HandledRight
<1> QED
  BY <1>1, Inductive, RoutingAssumption, PTL DEF RoutingSpec, RightRoute
=============================================================================
