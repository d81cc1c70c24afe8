----------------------------- MODULE BirdProofs -----------------------------
(* Proofs about AddressPlan and Bird, for any number of identifiers, any      *)
(* network and any number of failing commands.                                *)
EXTENDS Bird, TLAPS

-----------------------------------------------------------------------------
(* Addresses. *)

USE IdsAssumption

\* Two numbers of a high digit and an identifier are equal only if their digits
\* are: the fields of an address do not run into each other.
LEMMA Digits ==
  ASSUME NEW a \in Nat, NEW b \in Nat, NEW p \in Id, NEW q \in Id,
         a * Ids + p = b * Ids + q
  PROVE  a = b /\ p = q
<1>1. ASSUME NEW x \in Nat, NEW y \in Nat, NEW u \in Id, NEW v \in Id, x < y
      PROVE  x * Ids + u < y * Ids + v
  <2>1. PICK d \in Nat : y = x + 1 + d
    <3>1. y - x - 1 \in Nat /\ y = x + 1 + (y - x - 1)
      BY <1>1
    <3> QED
      BY <3>1
  <2>2. y * Ids = x * Ids + Ids + d * Ids
    BY <2>1
  <2>3. d * Ids \in Nat /\ x * Ids \in Nat
    OBVIOUS
  <2> QED
    BY <2>2, <2>3 DEF Id
<1>2. ~(a < b)
  <2> SUFFICES ASSUME a < b PROVE FALSE
    OBVIOUS
  <2>1. a * Ids + p < b * Ids + q
    BY <1>1
  <2>2. a * Ids + p \in Nat
    BY DEF Id
  <2> QED
    BY <2>1, <2>2
<1>3. ~(b < a)
  <2> SUFFICES ASSUME b < a PROVE FALSE
    OBVIOUS
  <2>1. b * Ids + q < a * Ids + p
    BY <1>1
  <2>2. a * Ids + p \in Nat
    BY DEF Id
  <2> QED
    BY <2>1, <2>2
<1>4. a = b
  BY <1>2, <1>3
<1> QED
  BY <1>4 DEF Id

\* The number that the fields of an address before the last three bits make.
Fields(owner, node, loopback, peer) == ((owner * Ids + node) * 2 + loopback) * Ids + peer

\* Different fields, or different ends, make different addresses.
LEMMA FieldsDiffer ==
  ASSUME NEW o1 \in {1, 2}, NEW n1 \in Id, NEW b1 \in {0, 1}, NEW p1 \in Id, NEW e1 \in {0, 1},
         NEW o2 \in {1, 2}, NEW n2 \in Id, NEW b2 \in {0, 1}, NEW p2 \in Id, NEW e2 \in {0, 1},
         8 * Fields(o1, n1, b1, p1) + 4 + e1 = 8 * Fields(o2, n2, b2, p2) + 4 + e2
  PROVE  n1 = n2 /\ b1 = b2 /\ p1 = p2 /\ e1 = e2
<1> DEFINE u1 == o1 * Ids + n1
           u2 == o2 * Ids + n2
           v1 == u1 * 2 + b1
           v2 == u2 * 2 + b2
           w1 == v1 * Ids + p1
           w2 == v2 * Ids + p2
<1>1. u1 \in Nat /\ u2 \in Nat
  BY DEF Id
<1>2. v1 \in Nat /\ v2 \in Nat
  <2> HIDE DEF u1, u2
  <2> QED
    BY <1>1
<1>3. w1 \in Nat /\ w2 \in Nat
  <2> HIDE DEF v1, v2
  <2> QED
    BY <1>2 DEF Id
<1>4. 8 * w1 + 4 + e1 = 8 * w2 + 4 + e2
  BY DEF Fields
<1>5. w1 = w2 /\ e1 = e2
  <2> HIDE DEF w1, w2
  <2> QED
    BY <1>3, <1>4
<1>6. v1 = v2 /\ p1 = p2
  <2> HIDE DEF v1, v2
  <2> QED
    BY <1>2, <1>5, Digits
<1>7. u1 = u2 /\ b1 = b2
  <2> HIDE DEF u1, u2
  <2> QED
    BY <1>1, <1>6
<1>8. n1 = n2
  BY <1>7, Digits, o1 \in Nat, o2 \in Nat
<1> QED
  BY <1>5, <1>6, <1>7, <1>8

\* An address made of fields is below those of the controller plane.
LEMMA FieldsSmall ==
  ASSUME NEW o \in {1, 2}, NEW n \in Id, NEW b \in {0, 1}, NEW p \in Id, NEW e \in {0, 1}
  PROVE  8 * Fields(o, n, b, p) + 4 + e < (31 * Ids * Ids) * 2
<1> DEFINE u == o * Ids + n
           v == u * 2 + b
           s == Ids * Ids
<1>1. u \in Nat /\ u + 1 <= 3 * Ids
  BY DEF Id
<1>2. v \in Nat /\ v + 1 <= 6 * Ids
  <2> HIDE DEF u
  <2> QED
    BY <1>1
<1>3. v * Ids + Ids <= 6 * s
  <2>1. (v + 1) * Ids <= (6 * Ids) * Ids
    <3> HIDE DEF v
    <3>1. PICK d \in Nat : 6 * Ids = v + 1 + d
      <4>1. 6 * Ids - (v + 1) \in Nat /\ 6 * Ids = v + 1 + (6 * Ids - (v + 1))
        BY <1>2
      <4> QED
        BY <4>1
    <3>2. (6 * Ids) * Ids = (v + 1) * Ids + d * Ids
      BY <3>1, <1>2
    <3> QED
      BY <3>2, <1>2
  <2> QED
    BY <2>1, <1>2
<1>4. v * Ids + p < 6 * s /\ v * Ids + p \in Nat
  <2> HIDE DEF v, s
  <2>1. v * Ids \in Nat /\ s \in Nat
    BY <1>2 DEF s
  <2> QED
    BY <1>3, <2>1 DEF Id
<1>5. 31 * Ids * Ids = 31 * s /\ s \in Nat
  OBVIOUS
<1> HIDE DEF v, s
<1>6. Fields(o, n, b, p) = v * Ids + p
  BY DEF Fields, v
<1> QED
  BY <1>4, <1>5, <1>6

\* The identifiers and the owners of nodes fit in their fields.
LEMMA NodeFields ==
  ASSUME NEW n \in Node
  PROVE  n \in Id /\ n \in Nat /\ Owner(Type(n)) \in {1, 2}
  BY NodeAssumption DEF Owner, Type, Id

\* What an end of a link adds to the address of the link.
End(h) == IF (h[1] = h[2][1]) <=> (h[2][1] < h[2][2]) THEN 0 ELSE 1

\* The fields of the address at one end of a link.
LEMMA HalfIp ==
  ASSUME links \subseteq Link, NEW h \in Halves(links)
  PROVE  /\ h[2] \in Node \X Node /\ h[2][1] # h[2][2] /\ h[1] \in {h[2][1], h[2][2]}
         /\ h = <<h[1], h[2]>> /\ h[2] = <<h[2][1], h[2][2]>>
         /\ Ip(h[1], h[2]) = 8 * Fields(Owner(Type(h[2][1])), h[2][1], 0, h[2][2]) + 4 + End(h)
<1>1. /\ h[2] \in Node \X Node /\ h[2][1] # h[2][2] /\ h[1] \in {h[2][1], h[2][2]}
      /\ h = <<h[1], h[2]>> /\ h[2] = <<h[2][1], h[2][2]>>
  BY LinkAssumption DEF Halves, Ends
<1> DEFINE s == h[2][1]
           t == h[2][2]
           n == h[1]
<1>2. h[2] # <<n>> /\ h[2] # <<n, n>>
  <2>1. Len(<<s, t>>) = 2 /\ Len(<<n>>) = 1
    OBVIOUS
  <2>2. h[2] # <<n>>
    BY <1>1, <2>1
  <2> QED
    BY <1>1, <2>2
<1>3. Ip(n, h[2]) = LinkIps(Type(s), s, t)[IF n = s THEN 1 ELSE 2]
  BY <1>2 DEF Ip
<1>4. /\ Owner(Type(s)) \in {1, 2} /\ s \in Id /\ t \in Id /\ s \in Nat /\ t \in Nat
  BY <1>1, NodeFields
<1>5. BaseIp(Type(s), s, FALSE, t) = Fields(Owner(Type(s)), s, 0, t) * 4 + 2
  BY DEF BaseIp, Fields
<1>6. Fields(Owner(Type(s)), s, 0, t) \in Nat
  <2> DEFINE v == (Owner(Type(s)) * Ids + s) * 2 + 0
  <2>1. v \in Nat
    BY <1>4
  <2> QED
    BY <1>4, <2>1 DEF Fields
<1> DEFINE f == Fields(Owner(Type(s)), s, 0, t)
<1>7. LinkIps(Type(s), s, t) = IF s < t THEN <<(f * 4 + 2) * 2, (f * 4 + 2) * 2 + 1>>
                                        ELSE <<(f * 4 + 2) * 2 + 1, (f * 4 + 2) * 2>>
  BY <1>5 DEF LinkIps, GetIpv4Address
<1>8. Ip(n, h[2]) = (f * 4 + 2) * 2 + End(h)
  <2> HIDE DEF f
  <2> QED
    BY <1>3, <1>4, <1>6, <1>7 DEF End, f
<1>9. (f * 4 + 2) * 2 + End(h) = 8 * f + 4 + End(h)
  <2> HIDE DEF f
  <2> QED
    BY <1>6 DEF f, End
<1> QED
  BY <1>1, <1>8, <1>9

\* The fields of the address of a loopback.
LEMMA LoopbackFields ==
  ASSUME NEW n \in Node
  PROVE  Ip(n, <<n, n>>) = 8 * Fields(Owner(Type(n)), n, 1, n) + 4 + 1
<1>1. <<n, n>> # <<n>>
  <2>1. Len(<<n, n>>) = 2 /\ Len(<<n>>) = 1
    OBVIOUS
  <2> QED
    BY <2>1
<1>2. Ip(n, <<n, n>>) = LoopbackIp(Type(n), n)
  BY <1>1 DEF Ip
<1>3. Owner(Type(n)) \in {1, 2} /\ n \in Id /\ n \in Nat
  BY NodeFields
<1> DEFINE f == Fields(Owner(Type(n)), n, 1, n)
<1>4. f \in Nat
  <2> DEFINE v == (Owner(Type(n)) * Ids + n) * 2 + 1
  <2>1. v \in Nat
    BY <1>3
  <2> QED
    BY <1>3, <2>1 DEF Fields
<1>5. BaseIp(Type(n), n, TRUE, n) = f * 4 + 2
  BY DEF BaseIp, Fields
<1>6. LoopbackIp(Type(n), n) = (f * 4 + 2) * 2 + 1
  <2> HIDE DEF f
  <2>1. ~(n < n)
    BY <1>3
  <2>2. GetIpv4Address(n, n, Type(n), TRUE) = <<(f * 4 + 2) * 2 + 1, (f * 4 + 2) * 2>>
    BY <1>5, <2>1 DEF GetIpv4Address
  <2>3. <<(f * 4 + 2) * 2 + 1, (f * 4 + 2) * 2>>[1] = (f * 4 + 2) * 2 + 1
    OBVIOUS
  <2> QED
    BY ONLY <2>2, <2>3 DEF LoopbackIp
<1> HIDE DEF f
<1>7. (f * 4 + 2) * 2 + 1 = 8 * f + 4 + 1
  BY <1>4
<1> QED
  BY <1>2, <1>6, <1>7 DEF f

\* The address of a management interface.
LEMMA ControllerIp ==
  ASSUME NEW n \in Node
  PROVE  Ip(n, <<n>>) = (31 * Ids * Ids + n) * 2 + 1
  BY DEF Ip, BuildControllerIp

\* Two halves of active links have different addresses.
LEMMA HalvesDiffer ==
  ASSUME links \subseteq Link, NEW g \in Halves(links), NEW h \in Halves(links),
         Ip(g[1], g[2]) = Ip(h[1], h[2])
  PROVE  g = h
<1>1. /\ g[2] \in Node \X Node /\ g[2][1] # g[2][2] /\ g[1] \in {g[2][1], g[2][2]}
      /\ g = <<g[1], g[2]>> /\ g[2] = <<g[2][1], g[2][2]>>
      /\ Ip(g[1], g[2]) = 8 * Fields(Owner(Type(g[2][1])), g[2][1], 0, g[2][2]) + 4 + End(g)
  BY HalfIp
<1>2. /\ h[2] \in Node \X Node /\ h[2][1] # h[2][2] /\ h[1] \in {h[2][1], h[2][2]}
      /\ h = <<h[1], h[2]>> /\ h[2] = <<h[2][1], h[2][2]>>
      /\ Ip(h[1], h[2]) = 8 * Fields(Owner(Type(h[2][1])), h[2][1], 0, h[2][2]) + 4 + End(h)
  BY HalfIp
<1>3. /\ Owner(Type(g[2][1])) \in {1, 2} /\ g[2][1] \in Id /\ g[2][2] \in Id
      /\ Owner(Type(h[2][1])) \in {1, 2} /\ h[2][1] \in Id /\ h[2][2] \in Id
  BY <1>1, <1>2, NodeFields
<1>4. End(g) \in {0, 1} /\ End(h) \in {0, 1}
  BY DEF End
<1>5. g[2][1] = h[2][1] /\ g[2][2] = h[2][2] /\ End(g) = End(h)
  <2>1. 8 * Fields(Owner(Type(g[2][1])), g[2][1], 0, g[2][2]) + 4 + End(g)
          = 8 * Fields(Owner(Type(h[2][1])), h[2][1], 0, h[2][2]) + 4 + End(h)
    BY <1>1, <1>2
  <2> DEFINE o1 == Owner(Type(g[2][1]))  s1 == g[2][1]  t1 == g[2][2]  e1 == End(g)
             o2 == Owner(Type(h[2][1]))  s2 == h[2][1]  t2 == h[2][2]  e2 == End(h)
  <2>2. /\ o1 \in {1, 2} /\ s1 \in Id /\ t1 \in Id /\ e1 \in {0, 1}
        /\ o2 \in {1, 2} /\ s2 \in Id /\ t2 \in Id /\ e2 \in {0, 1}
        /\ 8 * Fields(o1, s1, 0, t1) + 4 + e1 = 8 * Fields(o2, s2, 0, t2) + 4 + e2
    BY <1>3, <1>4, <2>1
  <2> HIDE DEF o1, s1, t1, e1, o2, s2, t2, e2
  <2>3. s1 = s2 /\ t1 = t2 /\ e1 = e2
    BY ONLY <2>2, FieldsDiffer
  <2> QED
    BY <2>3 DEF s1, t1, e1, s2, t2, e2
<1>6. g[2] = h[2]
  BY <1>1, <1>2, <1>5
<1>7. (g[1] = g[2][1]) <=> (h[1] = h[2][1])
  BY <1>5, <1>6 DEF End
<1>8. g[1] = h[1]
  BY <1>1, <1>2, <1>6, <1>7
<1> QED
  BY <1>1, <1>2, <1>6, <1>8

\* The addresses of links, loopbacks and the controller plane are apart.
LEMMA KindsDiffer ==
  ASSUME links \subseteq Link
  PROVE  /\ \A h \in Halves(links), n \in Node : Ip(h[1], h[2]) # Ip(n, <<n, n>>)
         /\ \A h \in Halves(links), n \in Node : Ip(h[1], h[2]) # Ip(n, <<n>>)
         /\ \A m, n \in Node : Ip(m, <<m, m>>) # Ip(n, <<n>>)
<1>1. ASSUME NEW n \in Node
      PROVE  Ip(n, <<n>>) \in Nat /\ Ip(n, <<n>>) > (31 * Ids * Ids) * 2
  <2>1. 31 * Ids * Ids \in Nat
    OBVIOUS
  <2>2. n \in Nat
    BY NodeFields
  <2>3. Ip(n, <<n>>) = (31 * Ids * Ids + n) * 2 + 1
    BY ControllerIp
  <2> DEFINE c == 31 * Ids * Ids
  <2> HIDE DEF c
  <2> QED
    BY <2>1, <2>2, <2>3 DEF c
<1>2. ASSUME NEW h \in Halves(links)
      PROVE  /\ Owner(Type(h[2][1])) \in {1, 2} /\ h[2][1] \in Id /\ h[2][2] \in Id
             /\ End(h) \in {0, 1}
             /\ Ip(h[1], h[2]) = 8 * Fields(Owner(Type(h[2][1])), h[2][1], 0, h[2][2]) + 4 + End(h)
  <2>1. /\ h[2] \in Node \X Node
        /\ Ip(h[1], h[2]) = 8 * Fields(Owner(Type(h[2][1])), h[2][1], 0, h[2][2]) + 4 + End(h)
    BY HalfIp
  <2> QED
    BY <2>1, NodeFields DEF End
<1>3. ASSUME NEW n \in Node
      PROVE  /\ Owner(Type(n)) \in {1, 2} /\ n \in Id
             /\ Ip(n, <<n, n>>) = 8 * Fields(Owner(Type(n)), n, 1, n) + 4 + 1
  BY NodeFields, LoopbackFields
<1>4. ASSUME NEW h \in Halves(links), NEW n \in Node
      PROVE  Ip(h[1], h[2]) # Ip(n, <<n, n>>)
  BY <1>2, <1>3, FieldsDiffer
<1>5. ASSUME NEW h \in Halves(links), NEW n \in Node
      PROVE  Ip(h[1], h[2]) # Ip(n, <<n>>)
  <2>1. Ip(h[1], h[2]) < (31 * Ids * Ids) * 2
    BY <1>2, FieldsSmall
  <2> DEFINE c == (31 * Ids * Ids) * 2
  <2>2. c \in Nat
    OBVIOUS
  <2> HIDE DEF c
  <2> QED
    BY <1>1, <2>1, <2>2 DEF c
<1>6. ASSUME NEW m \in Node, NEW n \in Node
      PROVE  Ip(m, <<m, m>>) # Ip(n, <<n>>)
  <2>1. Ip(m, <<m, m>>) < (31 * Ids * Ids) * 2
    BY <1>3, FieldsSmall
  <2> DEFINE c == (31 * Ids * Ids) * 2
  <2>2. c \in Nat
    OBVIOUS
  <2> HIDE DEF c
  <2> QED
    BY <1>1, <2>1, <2>2 DEF c
<1> QED
  BY <1>4, <1>5, <1>6

\* Two loopbacks, and two management interfaces, have different addresses.
LEMMA NodesDiffer ==
  ASSUME NEW m \in Node, NEW n \in Node
  PROVE  /\ Ip(m, <<m, m>>) = Ip(n, <<n, n>>) => m = n
         /\ Ip(m, <<m>>) = Ip(n, <<n>>) => m = n
<1>1. /\ Owner(Type(m)) \in {1, 2} /\ m \in Id /\ m \in Nat
      /\ Owner(Type(n)) \in {1, 2} /\ n \in Id /\ n \in Nat
  BY NodeFields
<1>2. Ip(m, <<m, m>>) = Ip(n, <<n, n>>) => m = n
  BY <1>1, LoopbackFields, FieldsDiffer
<1>3. Ip(m, <<m>>) = Ip(n, <<n>>) => m = n
  <2> DEFINE c == 31 * Ids * Ids
  <2>1. c \in Nat
    OBVIOUS
  <2>2. Ip(m, <<m>>) = (c + m) * 2 + 1 /\ Ip(n, <<n>>) = (c + n) * 2 + 1
    BY ControllerIp
  <2> HIDE DEF c
  <2> QED
    BY <1>1, <2>1, <2>2
<1> QED
  BY <1>2, <1>3

\* The two ends of a link share all bits but the last.
LEMMA EndsShareSubnet ==
  ASSUME links \subseteq Link, NEW l \in links
  PROVE  SameSubnet(Ip(l[1], l), Ip(l[2], l))
<1> DEFINE f == Fields(Owner(Type(l[1])), l[1], 0, l[2])
<1>1. l \in Node \X Node /\ l[1] # l[2]
  BY LinkAssumption
<1>2. ASSUME NEW n \in {l[1], l[2]}
      PROVE  \E e \in {0, 1} : Ip(n, l) = 8 * f + 4 + e
  <2>1. <<n, l>> \in Halves(links) /\ <<n, l>>[1] = n /\ <<n, l>>[2] = l
    BY <1>1 DEF Halves, Ends
  <2>2. Ip(n, l) = 8 * f + 4 + End(<<n, l>>)
    BY <2>1, HalfIp
  <2>3. End(<<n, l>>) \in {0, 1}
    BY DEF End
  <2> QED
    BY <2>2, <2>3
<1>3. f \in Nat
  <2>1. Owner(Type(l[1])) \in {1, 2} /\ l[1] \in Id /\ l[2] \in Id
    BY <1>1, NodeFields
  <2> DEFINE v == (Owner(Type(l[1])) * Ids + l[1]) * 2 + 0
  <2>2. v \in Nat
    BY <2>1 DEF Id
  <2> QED
    BY <2>1, <2>2 DEF Fields, Id
<1>4. \A e \in {0, 1} : (8 * f + 4 + e) \div 2 = 4 * f + 2
  <2> HIDE DEF f
  <2> QED
    BY <1>3
<1> HIDE DEF f
<1>5. Ip(l[1], l) \div 2 = 4 * f + 2 /\ Ip(l[2], l) \div 2 = 4 * f + 2
  BY <1>2, <1>4
<1> QED
  BY <1>5 DEF SameSubnet

\* Whatever links are active, no two interfaces share an address and the ends of a
\* link are in one subnet.
LEMMA AddressesApart ==
  ASSUME links \subseteq Link
  PROVE  AddressesDistinct
<1>1. ASSUME NEW i \in Interfaces, NEW j \in Interfaces, Ip(i[1], i[2]) = Ip(j[1], j[2])
      PROVE  i = j
  <2> DEFINE Loopback(k) == \E n \in Node : k = <<n, <<n, n>>>>
             Management(k) == \E n \in Node : k = <<n, <<n>>>>
  <2>1. \A k \in Interfaces : k \in Halves(links) \/ Loopback(k) \/ Management(k)
    BY DEF Interfaces
  <2>2. CASE i \in Halves(links)
    BY <1>1, <2>1, <2>2, HalvesDiffer, KindsDiffer
  <2>3. CASE Loopback(i)
    <3>1. PICK n \in Node : i = <<n, <<n, n>>>>
      BY <2>3
    <3>2. i[1] = n /\ i[2] = <<n, n>>
      BY <3>1
    <3>3. CASE j \in Halves(links)
      BY <1>1, <3>2, <3>3, KindsDiffer
    <3>4. CASE Loopback(j)
      <4>1. PICK m \in Node : j = <<m, <<m, m>>>>
        BY <3>4
      <4>2. j[1] = m /\ j[2] = <<m, m>>
        BY <4>1
      <4> QED
        BY <1>1, <3>1, <3>2, <4>1, <4>2, NodesDiffer
    <3>5. CASE Management(j)
      <4>1. PICK m \in Node : j = <<m, <<m>>>>
        BY <3>5
      <4>2. j[1] = m /\ j[2] = <<m>>
        BY <4>1
      <4> QED
        BY <1>1, <3>1, <3>2, <4>1, <4>2, KindsDiffer
    <3> QED
      BY <2>1, <3>3, <3>4, <3>5
  <2>4. CASE Management(i)
    <3>1. PICK n \in Node : i = <<n, <<n>>>>
      BY <2>4
    <3>2. i[1] = n /\ i[2] = <<n>>
      BY <3>1
    <3>3. CASE j \in Halves(links)
      BY <1>1, <3>2, <3>3, KindsDiffer
    <3>4. CASE Loopback(j)
      <4>1. PICK m \in Node : j = <<m, <<m, m>>>>
        BY <3>4
      <4>2. j[1] = m /\ j[2] = <<m, m>>
        BY <4>1
      <4> QED
        BY <1>1, <3>1, <3>2, <4>1, <4>2, KindsDiffer
    <3>5. CASE Management(j)
      <4>1. PICK m \in Node : j = <<m, <<m>>>>
        BY <3>5
      <4>2. j[1] = m /\ j[2] = <<m>>
        BY <4>1
      <4> QED
        BY <1>1, <3>1, <3>2, <4>1, <4>2, NodesDiffer
    <3> QED
      BY <2>1, <3>3, <3>4, <3>5
  <2> QED
    BY <2>1, <2>2, <2>3, <2>4
<1>2. \A l \in links : SameSubnet(Ip(l[1], l), Ip(l[2], l))
  BY EndsShareSubnet
<1> QED
  BY <1>1, <1>2 DEF AddressesDistinct

-----------------------------------------------------------------------------
(* Types. *)

\* TypeOK in three parts: the flags, the books of the workers, and the nodes.
Flags == /\ method \in Methods /\ on \in BOOLEAN
         /\ initiated \in BOOLEAN /\ busy \in BOOLEAN /\ errors \in BOOLEAN

Books == /\ links \subseteq Link /\ bare \subseteq links
         /\ todo \in [Worker -> SUBSET Node]
         /\ file \in [Node -> (SUBSET Link) \cup {None}]
         /\ gaps \subseteq Node \X Link /\ faults \in 0..MaxFaults

Nodes == /\ addr \in [Node -> SUBSET Link] /\ mpls \in [Node -> SUBSET Link]
         /\ conf \in [Node -> (SUBSET Link) \cup {None}]
         /\ \A n \in Node : mpls[n] \subseteq Incident(n, links)
         /\ \A n \in Node : addr[n] \subseteq Incident(n, links \ bare)

TypeInv == Flags /\ Books /\ Nodes

\* The three parts are TypeOK.
LEMMA TypeParts == TypeInv <=> TypeOK
  BY Zenon DEF TypeInv, Flags, Books, Nodes, TypeOK

\* A step keeps the types of the flags.
LEMMA FlagsStep ==
  ASSUME Flags, [Next]_vars
  PROVE  Flags'
  BY DEF Flags, Next, vars, managerVars, workVars, nodeVars, InitNode, ApplyConfig, UpdateNode,
     InitRouting, InitReturns, Initiated, DeleteRouting, Pass, StartGonetem, StopGonetem

\* A step keeps the types of the books.
LEMMA BooksStep ==
  ASSUME TypeInv, [Next]_vars
  PROVE  Books'
<1> USE FaultAssumption DEF TypeInv, Books, CommandFails, Fault
<1>1. ASSUME NEW n \in Node
      PROVE  /\ Incident(n, links) \in SUBSET Link
             /\ {n} \X Incident(n, links) \subseteq Node \X Link
             /\ Answered(n) \subseteq gaps
  BY DEF Incident, Answered
<1>2. CASE \E n \in Node : InitNode(n) \/ ApplyConfig(n) \/ UpdateNode(n)
  <2>1. PICK n \in Node : InitNode(n) \/ ApplyConfig(n) \/ UpdateNode(n)
    BY <1>2
  <2>2. links' = links /\ bare' = bare /\ faults' \in 0..MaxFaults
    BY <2>1 DEF InitNode, ApplyConfig, UpdateNode, linkVars
  <2>3. todo' \in [Worker -> SUBSET Node]
    BY <2>1 DEF InitNode, ApplyConfig, UpdateNode, Worker
  <2>4. file' \in [Node -> (SUBSET Link) \cup {None}]
    BY <1>1, <2>1 DEF InitNode, ApplyConfig, UpdateNode
  <2>5. gaps' \subseteq Node \X Link
    BY <1>1, <2>1 DEF InitNode, ApplyConfig, UpdateNode, Failed
  <2> QED
    BY <2>2, <2>3, <2>4, <2>5
<1>3. CASE Pass
  <2>1. links' \subseteq Link /\ bare' \subseteq links'
    BY <1>3 DEF Pass
  <2>2. todo' \in [Worker -> SUBSET Node]
    <3>1. Affected(links' \ links) \subseteq Node
      BY <2>1, LinkAssumption DEF Affected, EndsOf, Ends
    <3> QED
      BY <1>3, <3>1 DEF Pass, Worker
  <2>3. gaps' \subseteq Node \X Link
    BY <1>3, <2>1 DEF Pass, Halves
  <2>4. faults' \in 0..MaxFaults /\ file' = file
    BY <1>3 DEF Pass
  <2> QED
    BY <2>1, <2>2, <2>3, <2>4
<1>4. CASE InitRouting \/ InitReturns \/ DeleteRouting
  BY <1>4 DEF InitRouting, InitReturns, DeleteRouting, workVars, linkVars, Worker
<1>5. CASE StartGonetem \/ StopGonetem \/ UNCHANGED vars
  BY <1>5 DEF StartGonetem, StopGonetem, vars, workVars, linkVars
<1> QED
  BY <1>2, <1>3, <1>4, <1>5 DEF Next

\* A pass keeps the addresses of links that stay, and adds new ones if it is on.
LEMMA PassAddresses ==
  Pass => \E missing : addr' = [n \in Node |->
            (addr[n] \cap links')
              \cup IF on THEN {l \in Incident(n, links' \ links) : <<n, l>> \notin missing} ELSE {}]
<1>1. Pass => \E missing \in {{}} \cup UNION {{Halves({l}), {<<l[2], l>>}} : l \in links' \ links} :
        addr' = [n \in Node |->
          (addr[n] \cap links')
            \cup IF on THEN {l \in Incident(n, links' \ links) : <<n, l>> \notin missing} ELSE {}]
  BY Zenon DEF Pass
<1> QED
  BY <1>1, Zenon

\* A step keeps the types of the nodes: devices are those of the active links.
LEMMA NodesStep ==
  ASSUME TypeInv, [Next]_vars
  PROVE  Nodes'
<1> USE DEF TypeInv, Books, Nodes
<1>1. \A n \in Node : /\ Incident(n, links) \in SUBSET Link
                     /\ Incident(n, links \ bare) \in SUBSET Link
  BY DEF Incident
<1>2. CASE \E n \in Node : InitNode(n) \/ ApplyConfig(n) \/ UpdateNode(n)
  <2>1. PICK n \in Node : InitNode(n) \/ ApplyConfig(n) \/ UpdateNode(n)
    BY <1>2
  <2>2. links' = links /\ bare' = bare
    BY <2>1 DEF InitNode, ApplyConfig, UpdateNode, linkVars
  <2>3. /\ addr' \in {addr, Devices(addr, n, links \ bare)}
        /\ mpls' \in {mpls, Devices(mpls, n, links)}
    BY <2>1 DEF InitNode, ApplyConfig, UpdateNode, Prepare, NotPrepared
  <2>4. conf' \in [Node -> (SUBSET Link) \cup {None}]
    BY <1>1, <2>1 DEF InitNode, ApplyConfig, UpdateNode
  <2>5. /\ addr' \in [Node -> SUBSET Link]
        /\ \A m \in Node : addr'[m] \subseteq Incident(m, links \ bare)
    <3>1. CASE addr' = addr
      BY <3>1
    <3>2. CASE addr' = Devices(addr, n, links \ bare)
      BY <1>1, <3>2 DEF Devices
    <3> QED
      BY <2>3, <3>1, <3>2
  <2>6. /\ mpls' \in [Node -> SUBSET Link]
        /\ \A m \in Node : mpls'[m] \subseteq Incident(m, links)
    <3>1. CASE mpls' = mpls
      BY <3>1
    <3>2. CASE mpls' = Devices(mpls, n, links)
      BY <1>1, <3>2 DEF Devices
    <3> QED
      BY <2>3, <3>1, <3>2
  <2> QED
    BY <2>2, <2>4, <2>5, <2>6 DEF Incident
<1>3. CASE Pass
  <2>1. /\ links' \subseteq Link /\ conf' = conf
        /\ mpls' = [n \in Node |-> mpls[n] \cap links']
        /\ bare' = (bare \cap links') \cup IF on THEN {} ELSE links' \ links
    BY <1>3 DEF Pass
  <2>2. PICK missing : addr' = [n \in Node |->
                  (addr[n] \cap links')
                    \cup IF on THEN {l \in Incident(n, links' \ links) : <<n, l>> \notin missing} ELSE {}]
    BY <1>3, PassAddresses
  <2>3. \A n \in Node : addr'[n] \subseteq Incident(n, links' \ bare')
    <3> SUFFICES ASSUME NEW n \in Node, NEW l \in addr'[n]
                 PROVE  l \in Incident(n, links' \ bare')
      OBVIOUS
    <3>1. CASE l \in addr[n] \cap links'
      BY <2>1, <3>1 DEF Incident
    <3>2. CASE on /\ l \in Incident(n, links' \ links)
      BY <2>1, <3>2 DEF Incident
    <3> QED
      BY <2>2, <3>1, <3>2
  <2>4. \A n \in Node : mpls'[n] \subseteq Incident(n, links')
    BY <2>1 DEF Incident
  <2>5. \A n \in Node : Incident(n, links' \ bare') \subseteq Link
    BY <2>1 DEF Incident
  <2>6. addr' \in [Node -> SUBSET Link]
    BY <2>2, <2>3, <2>5
  <2>7. mpls' \in [Node -> SUBSET Link]
    BY <2>1
  <2> QED
    BY <2>1, <2>3, <2>4, <2>6, <2>7 DEF Incident
<1>4. CASE InitRouting \/ InitReturns \/ DeleteRouting
  BY <1>4 DEF InitRouting, InitReturns, DeleteRouting, nodeVars, linkVars, Incident
<1>5. CASE StartGonetem \/ StopGonetem \/ UNCHANGED vars
  BY <1>1, <1>5 DEF StartGonetem, StopGonetem, vars, nodeVars, linkVars, Incident
<1> QED
  BY <1>2, <1>3, <1>4, <1>5 DEF Next

\* The initial states have the types.
LEMMA BirdTypesInit == Init => TypeInv
<1> SUFFICES ASSUME Init PROVE TypeInv
  OBVIOUS
<1>1. Flags
  BY DEF Init, Flags
<1>2. Books
  BY FaultAssumption DEF Init, Books, Worker
<1>3. Nodes
  BY DEF Init, Nodes
<1> QED
  BY <1>1, <1>2, <1>3 DEF TypeInv

\* The variables of the daemons and of the manager keep their types.
THEOREM BirdTypesCorrect == Spec => []TypeOK
<1>1. Init => TypeInv
  BY BirdTypesInit
<1>2. TypeInv /\ [Next]_vars => TypeInv'
  BY FlagsStep, BooksStep, NodesStep DEF TypeInv
<1> QED
  BY <1>1, <1>2, TypeParts, PTL DEF Spec

\* All interfaces that exist at a time have different addresses, and the ends of a
\* link one subnet, for any number of identifiers (2^13 in the code).
THEOREM AddressesCorrect == Spec => []AddressesDistinct
<1>1. TypeOK => AddressesDistinct
  BY AddressesApart DEF TypeOK
<1> QED
  BY <1>1, BirdTypesCorrect, PTL

-----------------------------------------------------------------------------
(* Adjacencies. *)

\* A node that some worker still has to configure.
Pending(n) == n \in todo["init"] \cup todo["update"]

\* What is known of an end of a link that routing answers for: the configuration
\* that is about to be started has it; once no worker has the node before it, the
\* device is ready (but for the address of a bare link), and Bird runs with the link unless a configuration is written.
Served(n, l) ==
  /\ file[n] # None => l \in file[n]
  /\ ~Pending(n) => l \in bare \cup addr[n] /\ (method = "dynamic-isis" => l \in mpls[n])
  /\ ~Pending(n) /\ file[n] = None => conf[n] # None /\ l \in conf[n]

ServedInv == on /\ (busy \/ initiated) => \A h \in Halves(links) \ gaps : Served(h[1], h[2])

\* Between two calls of init_routing() no node is half way; updates need containers;
\* an init without containers fails on every node.
WorkInv ==
  /\ ~busy => todo["init"] = {} /\ \A n \in Node : file[n] = None
  /\ todo["update"] # {} => on
  /\ ~on /\ initiated => Node = {}
  /\ ~on /\ busy /\ ~errors => todo["init"] = Node

\* A step keeps the order of work.
LEMMA WorkStep ==
  ASSUME TypeInv, WorkInv, [Next]_vars
  PROVE  WorkInv'
<1> USE DEF WorkInv, TypeInv, Books, Flags
<1>1. CASE \E n \in Node : InitNode(n) \/ ApplyConfig(n) \/ UpdateNode(n)
  <2>1. PICK n \in Node : InitNode(n) \/ ApplyConfig(n) \/ UpdateNode(n)
    BY <1>1
  <2>2. CASE InitNode(n)
    BY <2>2 DEF InitNode, Worker
  <2>3. CASE ApplyConfig(n)
    BY <2>3 DEF ApplyConfig, Worker
  <2>4. CASE UpdateNode(n)
    BY <2>4 DEF UpdateNode, Worker
  <2> QED
    BY <2>1, <2>2, <2>3, <2>4
<1>2. CASE Pass
  BY <1>2 DEF Pass, managerVars, Worker
<1>3. CASE InitRouting
  BY <1>3 DEF InitRouting, Worker
<1>4. CASE InitReturns
  BY <1>4 DEF InitReturns, Initiated, workVars
<1>5. CASE DeleteRouting
  BY <1>5 DEF DeleteRouting, workVars
<1>6. CASE StartGonetem \/ StopGonetem \/ UNCHANGED vars
  BY <1>6 DEF StartGonetem, StopGonetem, Quiet, vars, workVars, managerVars
<1> QED
  BY <1>1, <1>2, <1>3, <1>4, <1>5, <1>6 DEF Next

\* An end of a link that routing answers for, at its node and not in the gaps.
LEMMA AnsweredEnd ==
  ASSUME NEW h \in Halves(links) \ gaps
  PROVE  /\ h[1] \in Node /\ h[2] \in links /\ h = <<h[1], h[2]>> /\ h \notin gaps
         /\ h[2] \in Incident(h[1], links)
  BY DEF Halves, Incident

\* The jobs of the workers: a node that is done has all its links, a node that
\* failed is in the gaps with all of them, and the other nodes are left alone.
LEMMA ServedNode ==
  ASSUME TypeInv, WorkInv, ServedInv, NEW n \in Node,
         InitNode(n) \/ ApplyConfig(n) \/ UpdateNode(n)
  PROVE  ServedInv'
<1> USE DEF TypeInv, Books, Nodes
<1>1. /\ on' = on /\ links' = links /\ bare' = bare
      /\ busy' = busy /\ initiated' = initiated /\ method' = method
  BY DEF InitNode, ApplyConfig, UpdateNode, linkVars
<1> SUFFICES ASSUME on, busy \/ initiated, NEW h \in Halves(links) \ gaps'
             PROVE  Served(h[1], h[2])'
  BY <1>1 DEF ServedInv, Halves
<1>2. /\ h[1] \in Node /\ h[2] \in links /\ h = <<h[1], h[2]>>
      /\ h[2] \in Incident(h[1], links)
  BY DEF Halves, Incident
<1>3. CASE h[1] # n
  <2>1. h \notin gaps
    <3>1. \/ gaps' = gaps
          \/ gaps' = gaps \cup ({n} \X Incident(n, links))
          \/ gaps' = gaps \ ({n} \X Incident(n, links))
      BY DEF InitNode, ApplyConfig, UpdateNode, Failed, Answered
    <3> QED
      BY <1>2, <1>3, <3>1
  <2>2. Served(h[1], h[2])
    BY <2>1 DEF ServedInv
  <2>3. /\ file'[h[1]] = file[h[1]] /\ conf'[h[1]] = conf[h[1]]
        /\ addr'[h[1]] = addr[h[1]] /\ mpls'[h[1]] = mpls[h[1]]
    <3>1. file'[h[1]] = file[h[1]]
      BY <1>2, <1>3 DEF InitNode, ApplyConfig, UpdateNode
    <3>2. conf'[h[1]] = conf[h[1]]
      BY <1>2, <1>3 DEF InitNode, ApplyConfig, UpdateNode
    <3>3. /\ addr' \in {addr, Devices(addr, n, links \ bare)}
          /\ mpls' \in {mpls, Devices(mpls, n, links)}
      BY DEF InitNode, ApplyConfig, UpdateNode, Prepare, NotPrepared
    <3> QED
      BY <1>2, <1>3, <3>1, <3>2, <3>3 DEF Devices
  <2>4. Pending(h[1])' <=> Pending(h[1])
    <3>1. \/ todo' = [todo EXCEPT !["init"] = @ \ {n}]
          \/ todo' = [todo EXCEPT !["update"] = @ \ {n}]
          \/ todo' = todo
      BY DEF InitNode, ApplyConfig, UpdateNode
    <3> QED
      BY <1>3, <3>1 DEF Pending, Worker
  <2> QED
    BY <1>1, <2>2, <2>3, <2>4 DEF Served
<1>4. CASE h[1] = n /\ gaps' = gaps \cup ({n} \X Incident(n, links))
  BY <1>2, <1>4
<1>5. CASE h[1] = n /\ gaps' # gaps \cup ({n} \X Incident(n, links))
  <2>1. CASE InitNode(n)
    <3>1. /\ Prepare(n) /\ file' = [file EXCEPT ![n] = Incident(n, links)]
      BY <1>5, <2>1 DEF InitNode, Failed
    <3>2. file'[n] = Incident(n, links)
      BY <3>1
    <3>3. file'[n] # None
      <4>1. Incident(n, links) \in SUBSET Link
        BY DEF Incident
      <4> QED
        BY <3>2, <4>1, NoneAssumption
    <3>4. addr'[n] = Incident(n, links \ bare)
          /\ (method = "dynamic-isis" => mpls'[n] = Incident(n, links))
      BY <3>1 DEF Prepare, Devices
    <3> QED
      BY <1>1, <1>2, <1>5, <3>2, <3>3, <3>4 DEF Served, Incident
  <2>2. CASE ApplyConfig(n)
    <3>1. /\ file[n] # None /\ file' = [file EXCEPT ![n] = None] /\ gaps' = gaps
          /\ conf' = [conf EXCEPT ![n] = file[n]] /\ addr' = addr /\ mpls' = mpls /\ todo' = todo
      BY <1>5, <2>2 DEF ApplyConfig, Failed
    <3>2. Served(h[1], h[2])
      BY <3>1 DEF ServedInv
    <3>3. file'[n] = None /\ conf'[n] = file[n]
      BY <3>1
    <3>4. Pending(n)' <=> Pending(n)
      BY <3>1 DEF Pending
    <3> QED
      BY <1>1, <1>5, <3>1, <3>2, <3>3, <3>4 DEF Served
  <2>3. CASE UpdateNode(n)
    <3>1. /\ Prepare(n) /\ conf' = [conf EXCEPT ![n] = Incident(n, links)]
          /\ gaps' = Answered(n) /\ file' = file
          /\ todo' = [todo EXCEPT !["update"] = @ \ {n}]
      BY <1>5, <2>3 DEF UpdateNode, Failed
    <3>2. conf'[n] = Incident(n, links) /\ conf'[n] # None
      <4>1. Incident(n, links) \in SUBSET Link
        BY DEF Incident
      <4> QED
        BY <3>1, <4>1, NoneAssumption
    <3>3. addr'[n] = Incident(n, links \ bare)
          /\ (method = "dynamic-isis" => mpls'[n] = Incident(n, links))
      BY <3>1 DEF Prepare, Devices
    <3>4. file[n] # None => h[2] \in file[n]
      <4>1. CASE busy
        <5>1. h \notin gaps
          BY <3>1, <4>1 DEF Answered
        <5> QED
          BY <1>5, <5>1 DEF ServedInv, Served
      <4>2. CASE ~busy
        BY <4>2 DEF WorkInv
      <4> QED
        BY <4>1, <4>2
    <3> QED
      BY <1>1, <1>2, <1>5, <3>1, <3>2, <3>3, <3>4 DEF Served, Incident
  <2> QED
    BY <2>1, <2>2, <2>3
<1> QED
  BY <1>3, <1>4, <1>5

\* A pass: links that stay keep what they had; the nodes of new links are pending,
\* or the links are in the gaps of an init_routing() that has not returned.
LEMMA ServedPass ==
  ASSUME TypeInv, WorkInv, ServedInv, Pass
  PROVE  ServedInv'
<1> USE DEF TypeInv, Books, Nodes
<1>1. /\ on' = on /\ busy' = busy /\ initiated' = initiated /\ method' = method
      /\ conf' = conf /\ file' = file /\ links' \subseteq Link /\ todo["update"] = {}
      /\ mpls' = [n \in Node |-> mpls[n] \cap links']
  BY DEF Pass, managerVars
<1> SUFFICES ASSUME on, busy \/ initiated, NEW h \in Halves(links') \ gaps'
             PROVE  Served(h[1], h[2])'
  BY <1>1 DEF ServedInv, Halves
<1>2. h[1] \in Node /\ h[2] \in links' /\ h = <<h[1], h[2]>> /\ h[1] \in Ends(h[2])
  BY DEF Halves
<1> DEFINE new == links' \ links
<1>3. CASE h[2] \in links
  <2>1. h \in Halves(links) \ gaps
    BY <1>2, <1>3 DEF Pass, Halves
  <2>2. Served(h[1], h[2])
    BY <2>1 DEF ServedInv
  <2>3. Pending(h[1]) => Pending(h[1])'
    BY <1>1 DEF Pass, Pending, Worker
  <2>4. h[2] \in addr[h[1]] => h[2] \in addr'[h[1]]
    BY <1>2 DEF Pass
  <2>5. h[2] \in mpls[h[1]] => h[2] \in mpls'[h[1]]
    BY <1>1, <1>2
  <2>6. h[2] \in bare => h[2] \in bare'
    BY <1>2 DEF Pass
  <2> QED
    BY <1>1, <2>2, <2>3, <2>4, <2>5, <2>6 DEF Served
<1>4. CASE h[2] \notin links
  <2>1. h \in Halves(new)
    BY <1>2, <1>4 DEF Halves
  <2>2. ~busy
    BY <2>1 DEF Pass
  <2>3. h[1] \in Affected(new)
    BY <1>2, <1>4 DEF Affected, EndsOf
  <2>4. Pending(h[1])'
    BY <2>2, <2>3 DEF Pass, Pending, Worker
  <2>5. file'[h[1]] = None
    BY <1>1, <1>2, <2>2 DEF WorkInv
  <2> QED
    BY <2>4, <2>5 DEF Served
<1> QED
  BY <1>3, <1>4

\* A step keeps what is known of the ends of links.
LEMMA ServedStep ==
  ASSUME TypeInv, WorkInv, ServedInv, [Next]_vars
  PROVE  ServedInv'
<1>1. CASE \E n \in Node : InitNode(n) \/ ApplyConfig(n) \/ UpdateNode(n)
  BY <1>1, ServedNode
<1>2. CASE Pass
  BY <1>2, ServedPass
<1>3. CASE InitRouting
  <2>1. /\ todo' = [todo EXCEPT !["init"] = Node] /\ file' = file /\ links' = links /\ ~busy
    BY <1>3 DEF InitRouting, linkVars
  <2>2. \A n \in Node : Pending(n)' /\ file'[n] = None
    BY <2>1 DEF Pending, Worker, WorkInv, TypeInv, Books
  <2> QED
    BY <2>2 DEF ServedInv, Served, Halves
<1>4. CASE InitReturns
  <2>1. /\ busy /\ UNCHANGED <<method, on, linkVars, nodeVars, workVars>>
        /\ (initiated' => gaps' = gaps) /\ busy' = FALSE
    BY <1>4 DEF InitReturns
  <2>2. ASSUME NEW n, NEW l PROVE Served(n, l)' <=> Served(n, l)
    BY <2>1 DEF Served, Pending, linkVars, nodeVars, workVars
  <2> QED
    BY <2>1, <2>2 DEF ServedInv, Halves, linkVars
<1>5. CASE DeleteRouting
  BY <1>5 DEF DeleteRouting, ServedInv
<1>6. CASE StartGonetem
  BY <1>6 DEF StartGonetem, Quiet, ServedInv, WorkInv, Halves, managerVars
<1>7. CASE StopGonetem
  BY <1>7 DEF StopGonetem, ServedInv
<1>8. CASE UNCHANGED vars
  <2>1. ASSUME NEW n, NEW l PROVE Served(n, l)' <=> Served(n, l)
    BY <1>8 DEF Served, Pending, vars, linkVars, nodeVars, workVars
  <2> QED
    BY <1>8, <2>1 DEF ServedInv, Halves, vars, linkVars, managerVars
<1> QED
  BY <1>1, <1>2, <1>3, <1>4, <1>5, <1>6, <1>7, <1>8 DEF Next

\* Once a pass is over both ends of every active link run Bird with the link, and
\* with its device ready, except for the gaps and for the addresses of links that
\* came up while the emulator was off.
THEOREM AdjacenciesCorrect == Spec => []AdjacenciesConfigured
<1> DEFINE IInv == TypeInv /\ WorkInv /\ ServedInv
<1>1. Init => IInv
  BY BirdTypesInit DEF Init, WorkInv, ServedInv, Worker
<1>2. IInv /\ [Next]_vars => IInv'
  BY FlagsStep, BooksStep, NodesStep, WorkStep, ServedStep DEF TypeInv
<1>3. IInv => AdjacenciesConfigured
  BY AnsweredEnd DEF ServedInv, Served, Pending, WorkInv, AdjacenciesConfigured, Quiet
<1> QED
  BY <1>1, <1>2, <1>3, PTL DEF Spec
=============================================================================
