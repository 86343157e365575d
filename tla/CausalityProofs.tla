--------------------------- MODULE CausalityProofs ---------------------------
(***************************************************************************)
(* The logical clocks tell causality, for every set of nodes, messages and *)
(* readers.  The invariant relates the clocks of a node to the stamps of   *)
(* what came before its present: a later stamp is above all of them.  The  *)
(* converse, that only a cause has a stamp below, needs that the component *)
(* of a node is nowhere ahead of the node itself, which a restart breaks.  *)
(***************************************************************************)
EXTENDS Causality, TLAPS

\* Nothing came before that was not stamped; a reader sees what was sent.
Recorded ==
  /\ \A n \in Nodes : past[n] \subseteq Stamped
  /\ \A m \in Stamped : env[m].past \subseteq Stamped
  /\ \A u \in Readers : saw[u] \subseteq Stamped

LamportAbove ==
  /\ \A n \in Nodes : \A m \in past[n] : env[m].lamport <= lamport[n]
  /\ \A b \in Stamped : \A a \in env[b].past : env[a].lamport < env[b].lamport

VectorAbove ==
  /\ \A n \in Nodes : \A m \in past[n] : AtMost(Vector(m), vec[n])
  /\ \A b \in Stamped : \A a \in env[b].past :
       /\ AtMost(Vector(a), Vector(b))
       /\ Vector(a)[env[b].node] < Vector(b)[env[b].node]

\* A vector that has reached a stamp in the component of its node has the
\* message behind it.
VectorExact ==
  /\ \A n, k \in Nodes : vec[n][k] <= vec[k][k]
  /\ \A m \in Stamped, k \in Nodes : Vector(m)[k] <= vec[k][k]
  /\ \A n \in Nodes, a \in Stamped :
       Vector(a)[env[a].node] <= vec[n][env[a].node] => a \in past[n]
  /\ \A a, b \in Stamped :
       a # b /\ Vector(a)[env[a].node] <= Vector(b)[env[a].node] => a \in env[b].past

IInv ==
  /\ TypeOK
  /\ Recorded
  /\ LamportAbove
  /\ VectorAbove
  /\ restarts = 0 => VectorExact

-----------------------------------------------------------------------------
(* The pure clocks.                                                        *)

\* update ends above both the clock and the stamp received.
LEMMA UpdateIsAbove ==
  ASSUME NEW c \in Nat, NEW r \in Nat
  PROVE  LamportUpdate(c, r) \in Nat /\ LamportUpdate(c, r) > c /\ LamportUpdate(c, r) > r
BY DEF LamportUpdate, Larger

\* tick moves the node's own component and no other.
LEMMA TickedVector ==
  ASSUME NEW v \in Vectors, NEW n \in Nodes
  PROVE  /\ VectorTick(v, n) \in Vectors
         /\ VectorTick(v, n)[n] = v[n] + 1
         /\ \A k \in Nodes \ {n} : VectorTick(v, n)[k] = v[k]
         /\ AtMost(v, VectorTick(v, n))
BY DEF Vectors, VectorTick, AtMost

\* merge ends at or above both vectors, and at one of them in every component.
LEMMA MergedVector ==
  ASSUME NEW v \in Vectors, NEW n \in Nodes, NEW o \in Vectors
  PROVE  /\ VectorMerge(v, n, o) \in Vectors
         /\ AtMost(v, VectorMerge(v, n, o))
         /\ AtMost(o, VectorMerge(v, n, o))
         /\ o[n] <= v[n] => VectorMerge(v, n, o)[n] = v[n] + 1
         /\ \A k \in Nodes \ {n} : VectorMerge(v, n, o)[k] \in {v[k], o[k]}
<1>1. VectorTick(v, n) \in Vectors /\ \A k \in Nodes : v[k] <= VectorTick(v, n)[k]
  BY TickedVector DEF AtMost, Vectors
<1>2. \A k \in Nodes : v[k] \in Nat /\ o[k] \in Nat /\ VectorTick(v, n)[k] \in Nat
  BY <1>1 DEF Vectors
<1>3. \A k \in Nodes : VectorMerge(v, n, o)[k] = Larger(VectorTick(v, n)[k], o[k])
  BY DEF VectorMerge
<1>4. VectorMerge(v, n, o) \in Vectors
  BY <1>2 DEF VectorMerge, Vectors, Larger
<1>5. AtMost(v, VectorMerge(v, n, o)) /\ AtMost(o, VectorMerge(v, n, o))
  BY <1>1, <1>2, <1>3 DEF AtMost, Larger
<1>6. o[n] <= v[n] => VectorMerge(v, n, o)[n] = v[n] + 1
  BY <1>2, <1>3, TickedVector DEF Larger
<1>7. \A k \in Nodes \ {n} : VectorMerge(v, n, o)[k] \in {v[k], o[k]}
  BY <1>3, TickedVector DEF Larger
<1>. QED  BY <1>4, <1>5, <1>6, <1>7

\* A vector below another and elsewhere strictly below it compares as before.
LEMMA BelowIsBefore ==
  ASSUME NEW x \in Vectors, NEW y \in Vectors, AtMost(x, y), x # y
  PROVE  Compare(x, y) = "before" /\ Compare(y, x) = "after"
<1>1. ~AtMost(y, x)
  <2>1. SUFFICES ASSUME AtMost(y, x) PROVE x = y
    OBVIOUS
  <2>2. \A k \in Nodes : x[k] \in Nat /\ y[k] \in Nat
    BY DEF Vectors
  <2>3. ASSUME NEW k \in Nodes PROVE x[k] = y[k]
    <3>1. x[k] <= y[k] /\ y[k] <= x[k]
      BY <2>1 DEF AtMost
    <3>. QED  BY <2>2, <3>1
  <2>. QED  BY <2>3 DEF Vectors
<1>. QED  BY <1>1 DEF Compare

\* What compare answers says how the vectors stand.
LEMMA CompareTells ==
  ASSUME NEW x \in Vectors, NEW y \in Vectors
  PROVE  /\ Compare(x, y) = "equal" => x = y
         /\ Compare(x, y) = "before" => AtMost(x, y) /\ x # y
         /\ Compare(x, y) = "after" => AtMost(y, x) /\ x # y
         /\ Compare(x, y) \in {"equal", "before", "after", "concurrent"}
BY DEF Compare

\* The order of the components is reflexive ...
LEMMA AtMostReflexive ==
  ASSUME NEW x \in Vectors
  PROVE  AtMost(x, x)
<1>1. ASSUME NEW k \in Nodes PROVE x[k] \in Nat
  BY DEF Vectors
<1>2. ASSUME NEW k \in Nodes PROVE x[k] <= x[k]
  BY <1>1
<1>. QED  BY <1>2 DEF AtMost

\* ... and transitive.
LEMMA AtMostTransitive ==
  ASSUME NEW x \in Vectors, NEW y \in Vectors, NEW z \in Vectors,
         AtMost(x, y), AtMost(y, z)
  PROVE  AtMost(x, z)
<1>1. \A k \in Nodes : x[k] \in Nat /\ y[k] \in Nat /\ z[k] \in Nat
  BY DEF Vectors
<1>2. ASSUME NEW k \in Nodes PROVE x[k] <= z[k]
  <2>1. x[k] <= y[k] /\ y[k] <= z[k]
    BY DEF AtMost
  <2>. QED  BY <1>1, <2>1
<1>. QED  BY <1>2 DEF AtMost

-----------------------------------------------------------------------------
(* The steps.                                                              *)

\* The state a run starts in.
LEMMA InitInductive == Init => IInv
<1>1. SUFFICES ASSUME Init PROVE IInv
  OBVIOUS
<1>2. (CHOOSE n \in Nodes : TRUE) \in Nodes
  BY CausalityAssumption
<1>3. NoVector \in Vectors
  BY DEF NoVector, Vectors
<1>4. NoEnvelope \in Envelopes
  BY <1>2, <1>3 DEF NoEnvelope, Envelopes
<1>5. TypeOK
  BY <1>1, <1>3, <1>4, CausalityAssumption DEF Init, TypeOK, Stages
<1>6. Stamped = {}
  BY <1>1 DEF Init, Stamped
<1>7. Recorded /\ LamportAbove /\ VectorAbove
  BY <1>1, <1>6 DEF Init, Recorded, LamportAbove, VectorAbove
<1>8. VectorExact
  BY <1>1, <1>6 DEF Init, VectorExact, NoVector
<1>. QED  BY <1>5, <1>7, <1>8 DEF IInv

\* A step that leaves the clocks, and of every envelope all but the number, and
\* shows readers only what was sent, keeps what does not depend on the rest.
LEMMA QuietStep ==
  ASSUME IInv, TypeOK',
         UNCHANGED clocks, Stamped' = Stamped, restarts' = restarts,
         \A m \in Msgs : /\ env'[m].lamport = env[m].lamport
                         /\ env'[m].vector = env[m].vector
                         /\ env'[m].node = env[m].node
                         /\ env'[m].past = env[m].past,
         \A u \in Readers : saw'[u] \subseteq Stamped
  PROVE  IInv'
<1>1. Stamped \subseteq Msgs /\ \A m \in Stamped : env[m].past \subseteq Stamped
  BY DEF IInv, Recorded, Stamped
<1>2. \A n \in Nodes : past[n] \subseteq Stamped
  BY DEF IInv, Recorded
<1>3. \A m \in Msgs : Vector(m)' = Vector(m)
  BY DEF Vector
<1>4. Recorded'
  BY <1>1, <1>2 DEF Recorded, clocks
<1>5. LamportAbove'
  BY <1>1, <1>2 DEF IInv, LamportAbove, clocks
<1>6. VectorAbove'
  BY <1>1, <1>2, <1>3 DEF IInv, VectorAbove, clocks
<1>7. (restarts = 0 => VectorExact)'
  BY <1>1, <1>2, <1>3 DEF IInv, VectorExact, clocks
<1>. QED  BY <1>4, <1>5, <1>6, <1>7 DEF IInv

\* Every step keeps the types.
LEMMA TypeStep == TypeOK /\ [Next]_vars => TypeOK'
<1>1. SUFFICES ASSUME TypeOK, [Next]_vars PROVE TypeOK'
  OBVIOUS
<1>. USE DEF TypeOK
<1>2. ASSUME NEW n \in Nodes, NEW m \in Msgs, Stamp(n, m) PROVE TypeOK'
  <2>1. PICK seen \in Seen(n) :
          env' = [env EXCEPT ![m] =
                    [ node |-> n, lamport |-> LamportTick(lamport[n]),
                      vector |-> VectorTick(vec[n], n), seq |-> 0,
                      past |-> past[n], seen |-> seen ]]
    BY <1>2 DEF Stamp
  <2>2. seen \subseteq Msgs
    BY <1>1 DEF Seen
  <2>3. VectorTick(vec[n], n) \in Vectors /\ LamportTick(lamport[n]) \in Nat
    BY <1>1, TickedVector DEF LamportTick
  <2>4. env' \in [Msgs -> Envelopes]
    BY <1>1, <2>1, <2>2, <2>3 DEF Envelopes
  <2>5. lamport' \in [Nodes -> Nat] /\ vec' \in [Nodes -> Vectors]
    BY <1>1, <1>2, <2>3 DEF Stamp
  <2>6. past' \in [Nodes -> SUBSET Msgs] /\ at' \in [Msgs -> Stages]
    BY <1>1, <1>2 DEF Stamp, Stages
  <2>. QED  BY <1>1, <1>2, <2>4, <2>5, <2>6 DEF Stamp
<1>3. ASSUME NEW m \in Msgs, Number(m) PROVE TypeOK'
  <2>1. env[m] \in Envelopes /\ counter + 1 \in Nat
    BY <1>1
  <2>2. [env[m] EXCEPT !.seq = counter + 1] \in Envelopes
    BY <2>1 DEF Envelopes
  <2>3. env' \in [Msgs -> Envelopes]
    BY <1>1, <1>3, <2>2 DEF Number
  <2>. QED  BY <1>1, <1>3, <2>1, <2>3 DEF Number, clocks, Stages
<1>4. ASSUME NEW m \in Msgs, Publish(m) \/ Save(m) \/ Fail(m) PROVE TypeOK'
  BY <1>1, <1>4 DEF Publish, Save, Fail, clocks, Stages
<1>5. ASSUME NEW n \in Nodes, NEW m \in Msgs, Deliver(n, m) PROVE TypeOK'
  <2>1. env[m] \in Envelopes /\ lamport[n] \in Nat /\ vec[n] \in Vectors
    BY <1>1
  <2>2. LamportUpdate(lamport[n], env[m].lamport) \in Nat
    BY <2>1, UpdateIsAbove DEF Envelopes
  <2>3. VectorMerge(vec[n], n, env[m].vector) \in Vectors
    BY <2>1, MergedVector DEF Envelopes
  <2>4. lamport' \in [Nodes -> Nat] /\ vec' \in [Nodes -> Vectors]
    BY <1>1, <1>5, <2>2, <2>3 DEF Deliver
  <2>5. past' \in [Nodes -> SUBSET Msgs] /\ heard' \in [Nodes -> SUBSET Msgs]
    BY <1>1, <1>5, <2>1 DEF Deliver, Envelopes
  <2>. QED  BY <1>1, <1>5, <2>4, <2>5 DEF Deliver
<1>6. ASSUME NEW u \in Readers, NEW m \in Msgs, Render(u, m) PROVE TypeOK'
  BY <1>1, <1>6 DEF Render, clocks
<1>7. ASSUME NEW n \in Nodes, Restart(n) PROVE TypeOK'
  <2>1. NoVector \in Vectors
    BY DEF NoVector, Vectors
  <2>2. restarts' \in 0..MaxRestarts
    BY <1>1, <1>7, CausalityAssumption DEF Restart
  <2>3. lamport' \in [Nodes -> Nat] /\ vec' \in [Nodes -> Vectors]
    BY <1>1, <1>7, <2>1 DEF Restart
  <2>4. past' \in [Nodes -> SUBSET Msgs] /\ at' \in [Msgs -> Stages]
    BY <1>1, <1>7 DEF Restart, Stages
  <2>. QED  BY <1>1, <1>7, <2>2, <2>3, <2>4 DEF Restart
<1>8. CASE UNCHANGED vars
  BY <1>1, <1>8 DEF vars
<1>. QED  BY <1>1, <1>2, <1>3, <1>4, <1>5, <1>6, <1>7, <1>8 DEF Next

\* A new stamp is above all that came before at its node, and below nothing.
LEMMA StampStep ==
  ASSUME IInv, TypeOK', NEW n \in Nodes, NEW m \in Msgs, Stamp(n, m)
  PROVE  IInv'
<1>. DEFINE w == VectorTick(vec[n], n)
<1>1. TypeOK /\ at[m] = "new" /\ m \notin Stamped /\ Stamped \subseteq Msgs
  BY DEF IInv, Stamp, Stamped
<1>2. Stamped' = Stamped \cup {m}
  BY <1>1 DEF Stamp, TypeOK, Stamped
<1>3. /\ env'[m].lamport = lamport[n] + 1 /\ env'[m].vector = w
      /\ env'[m].node = n /\ env'[m].past = past[n]
  BY <1>1 DEF Stamp, TypeOK, LamportTick
<1>4. \A x \in Stamped : env'[x] = env[x] /\ Vector(x)' = Vector(x)
  BY <1>1 DEF Stamp, TypeOK, Vector
<1>5. /\ lamport'[n] = lamport[n] + 1 /\ vec'[n] = w /\ past'[n] = past[n] \cup {m}
      /\ \A k \in Nodes \ {n} :
           lamport'[k] = lamport[k] /\ vec'[k] = vec[k] /\ past'[k] = past[k]
  BY <1>1 DEF Stamp, TypeOK, LamportTick
<1>6. /\ \A k \in Nodes : past[k] \subseteq Stamped
      /\ \A x \in Stamped : env[x].past \subseteq Stamped
  BY DEF IInv, Recorded
<1>7. /\ \A k \in Nodes : lamport[k] \in Nat /\ vec[k] \in Vectors
      /\ \A x \in Stamped : env[x].lamport \in Nat /\ Vector(x) \in Vectors
                              /\ env[x].node \in Nodes
      /\ \A v \in Vectors, k \in Nodes : v[k] \in Nat
      /\ w \in Vectors
  BY <1>1, TickedVector DEF TypeOK, Envelopes, Vector, Vectors
<1>8. AtMost(vec[n], w) /\ w[n] = vec[n][n] + 1
        /\ \A k \in Nodes \ {n} : w[k] = vec[n][k]
  BY <1>7, TickedVector
<1>9. Vector(m)' = w
  BY <1>3 DEF Vector
<1>10. Recorded'
  <2>1. saw' = saw /\ \A u \in Readers : saw[u] \subseteq Stamped
    BY DEF IInv, Recorded, Stamp
  <2>. QED  BY <1>2, <1>3, <1>4, <1>5, <1>6, <2>1 DEF Recorded
<1>11. LamportAbove'
  <2>1. ASSUME NEW k \in Nodes, NEW x \in past'[k] PROVE env'[x].lamport <= lamport'[k]
    BY <1>3, <1>4, <1>5, <1>6, <1>7 DEF IInv, LamportAbove
  <2>2. ASSUME NEW b \in Stamped', NEW a \in env'[b].past
        PROVE  env'[a].lamport < env'[b].lamport
    BY <1>2, <1>3, <1>4, <1>6, <1>7 DEF IInv, LamportAbove
  <2>. QED  BY <2>1, <2>2 DEF LamportAbove
<1>12. VectorAbove'
  <2>1. ASSUME NEW x \in past[n]
        PROVE  AtMost(Vector(x), w) /\ Vector(x)[n] < w[n]
    <3>1. AtMost(Vector(x), vec[n]) /\ x \in Stamped
      BY <1>6 DEF IInv, VectorAbove
    <3>2. AtMost(Vector(x), w)
      BY <1>7, <1>8, <3>1, AtMostTransitive
    <3>3. Vector(x)[n] <= vec[n][n]
      BY <3>1 DEF AtMost
    <3>. QED  BY <1>7, <1>8, <3>1, <3>2, <3>3
  <2>2. AtMost(w, w)
    BY <1>7 DEF AtMost
  <2>3. ASSUME NEW k \in Nodes, NEW x \in past'[k] PROVE AtMost(Vector(x)', vec'[k])
    <3>1. CASE x = m
      <4>1. k = n
        BY <1>1, <1>5, <1>6, <3>1
      <4>. QED  BY <1>5, <1>9, <2>2, <3>1, <4>1
    <3>2. CASE x # m /\ k = n
      BY <1>4, <1>5, <1>6, <2>1, <3>2
    <3>3. CASE x # m /\ k # n
      BY <1>4, <1>5, <1>6, <3>3 DEF IInv, VectorAbove
    <3>. QED  BY <3>1, <3>2, <3>3
  <2>4. ASSUME NEW b \in Stamped', NEW a \in env'[b].past
        PROVE  AtMost(Vector(a)', Vector(b)') /\ Vector(a)'[env'[b].node] < Vector(b)'[env'[b].node]
    <3>1. CASE b = m
      BY <1>3, <1>4, <1>6, <1>9, <2>1, <3>1
    <3>2. CASE b # m
      BY <1>2, <1>4, <1>6, <3>2 DEF IInv, VectorAbove
    <3>. QED  BY <3>1, <3>2
  <2>. QED  BY <2>3, <2>4 DEF VectorAbove
<1>13. ASSUME (restarts = 0)' PROVE VectorExact'
  <2>1. VectorExact
    BY <1>13 DEF IInv, Stamp
  <2>2. ASSUME NEW k \in Nodes, NEW j \in Nodes PROVE vec'[k][j] <= vec'[j][j]
    BY <1>5, <1>7, <1>8, <2>1 DEF VectorExact
  <2>3. ASSUME NEW x \in Stamped', NEW j \in Nodes PROVE Vector(x)'[j] <= vec'[j][j]
    <3>1. CASE x = m
      BY <1>5, <1>9, <2>2, <3>1
    <3>2. CASE x # m
      <4>1. Vector(x)' = Vector(x) /\ Vector(x)[j] <= vec[j][j] /\ x \in Stamped
        BY <1>2, <1>4, <2>1, <3>2 DEF VectorExact
      <4>. QED  BY <1>5, <1>7, <1>8, <4>1
    <3>. QED  BY <3>1, <3>2
  <2>4. ASSUME NEW k \in Nodes, NEW a \in Stamped',
               Vector(a)'[env'[a].node] <= vec'[k][env'[a].node]
        PROVE  a \in past'[k]
    <3>1. CASE a = m
      <4>1. w[n] <= vec'[k][n]
        BY <1>3, <1>9, <2>4, <3>1
      <4>2. CASE k = n
        BY <1>5, <3>1, <4>2
      <4>3. CASE k # n
        <5>1. vec'[k][n] = vec[k][n] /\ vec[k][n] <= vec[n][n]
          BY <1>5, <2>1, <4>3 DEF VectorExact
        <5>. QED  BY <1>7, <1>8, <4>1, <5>1
      <4>. QED  BY <4>2, <4>3
    <3>2. CASE a # m
      <4>1. a \in Stamped /\ env'[a].node = env[a].node /\ Vector(a)' = Vector(a)
        BY <1>2, <1>4, <3>2
      <4>2. Vector(a)[env[a].node] <= vec[env[a].node][env[a].node]
        BY <1>7, <2>1, <4>1 DEF VectorExact
      <4>3. Vector(a)[env[a].node] <= vec[k][env[a].node]
        <5>1. CASE k = n /\ env[a].node = n
          BY <4>2, <5>1
        <5>2. CASE k # n \/ env[a].node # n
          <6>1. vec'[k][env[a].node] = vec[k][env[a].node]
            BY <1>5, <1>7, <1>8, <4>1, <5>2
          <6>. QED  BY <2>4, <4>1, <6>1
        <5>. QED  BY <5>1, <5>2
      <4>4. a \in past[k]
        BY <2>1, <4>1, <4>3 DEF VectorExact
      <4>. QED  BY <1>5, <4>4
    <3>. QED  BY <3>1, <3>2
  <2>5. ASSUME NEW a \in Stamped', NEW b \in Stamped', a # b,
               Vector(a)'[env'[a].node] <= Vector(b)'[env'[a].node]
        PROVE  a \in env'[b].past
    <3>1. CASE a = m
      <4>1. w[n] <= Vector(b)[n] /\ b \in Stamped
        BY <1>2, <1>3, <1>4, <1>9, <2>5, <3>1
      <4>2. Vector(b)[n] <= vec[n][n]
        BY <2>1, <4>1 DEF VectorExact
      <4>. QED  BY <1>7, <1>8, <4>1, <4>2
    <3>2. CASE b = m
      <4>1. a \in Stamped /\ env'[a].node = env[a].node /\ Vector(a)' = Vector(a)
        BY <1>2, <1>4, <2>5, <3>2
      <4>2. Vector(a)[env[a].node] <= w[env[a].node]
        BY <1>9, <2>5, <3>2, <4>1
      <4>3. Vector(a)[env[a].node] <= vec[env[a].node][env[a].node]
        BY <1>7, <2>1, <4>1 DEF VectorExact
      <4>4. Vector(a)[env[a].node] <= vec[n][env[a].node]
        <5>1. CASE env[a].node = n
          BY <4>3, <5>1
        <5>2. CASE env[a].node # n
          BY <1>7, <1>8, <4>1, <4>2, <5>2
        <5>. QED  BY <5>1, <5>2
      <4>. QED  BY <1>3, <2>1, <3>2, <4>1, <4>4 DEF VectorExact
    <3>3. CASE a # m /\ b # m
      BY <1>2, <1>4, <2>1, <2>5, <3>3 DEF VectorExact
    <3>. QED  BY <3>1, <3>2, <3>3
  <2>. QED  BY <2>2, <2>3, <2>4, <2>5 DEF VectorExact
<1>. QED  BY <1>10, <1>11, <1>12, <1>13 DEF IInv

\* What a node receives joins its past, and its clocks rise above it.
LEMMA DeliverStep ==
  ASSUME IInv, TypeOK', NEW n \in Nodes, NEW m \in Msgs, Deliver(n, m)
  PROVE  IInv'
<1>. DEFINE w == VectorMerge(vec[n], n, Vector(m))
<1>1. TypeOK /\ m \in Stamped /\ Stamped \subseteq Msgs
  BY DEF IInv, Deliver, Stamped
<1>2. Stamped' = Stamped /\ env' = env /\ \A x \in Msgs : Vector(x)' = Vector(x)
  BY DEF Deliver, Stamped, Vector
<1>3. /\ lamport'[n] = LamportUpdate(lamport[n], env[m].lamport) /\ vec'[n] = w
      /\ past'[n] = past[n] \cup {m} \cup env[m].past
      /\ \A k \in Nodes \ {n} :
           lamport'[k] = lamport[k] /\ vec'[k] = vec[k] /\ past'[k] = past[k]
  BY <1>1 DEF Deliver, TypeOK, Vector
<1>4. /\ \A k \in Nodes : past[k] \subseteq Stamped
      /\ \A x \in Stamped : env[x].past \subseteq Stamped
  BY DEF IInv, Recorded
<1>5. /\ \A k \in Nodes : lamport[k] \in Nat /\ vec[k] \in Vectors
      /\ \A x \in Stamped : env[x].lamport \in Nat /\ Vector(x) \in Vectors
                              /\ env[x].node \in Nodes
      /\ \A v \in Vectors, k \in Nodes : v[k] \in Nat
  BY <1>1 DEF TypeOK, Envelopes, Vector, Vectors
<1>6. /\ w \in Vectors /\ AtMost(vec[n], w) /\ AtMost(Vector(m), w)
      /\ Vector(m)[n] <= vec[n][n] => w[n] = vec[n][n] + 1
      /\ \A k \in Nodes \ {n} : w[k] \in {vec[n][k], Vector(m)[k]}
  BY <1>1, <1>5, MergedVector
<1>7. Recorded'
  <2>1. saw' = saw /\ \A u \in Readers : saw[u] \subseteq Stamped
    BY DEF IInv, Recorded, Deliver
  <2>. QED  BY <1>1, <1>2, <1>3, <1>4, <2>1 DEF Recorded
<1>8. LamportAbove'
  <2>1. lamport'[n] \in Nat /\ lamport'[n] > lamport[n] /\ lamport'[n] > env[m].lamport
    BY <1>1, <1>3, <1>5, UpdateIsAbove
  <2>2. ASSUME NEW x \in past'[n] PROVE env[x].lamport <= lamport'[n]
    <3>1. CASE x \in past[n]
      <4>1. env[x].lamport <= lamport[n] /\ x \in Stamped
        BY <1>4, <3>1 DEF IInv, LamportAbove
      <4>. QED  BY <1>5, <2>1, <4>1
    <3>2. CASE x = m
      BY <1>1, <1>5, <2>1, <3>2
    <3>3. CASE x \in env[m].past
      <4>1. env[x].lamport < env[m].lamport /\ x \in Stamped
        BY <1>1, <1>4, <3>3 DEF IInv, LamportAbove
      <4>. QED  BY <1>1, <1>5, <2>1, <4>1
    <3>. QED  BY <1>3, <3>1, <3>2, <3>3
  <2>3. ASSUME NEW k \in Nodes \ {n}, NEW x \in past'[k] PROVE env[x].lamport <= lamport'[k]
    BY <1>3 DEF IInv, LamportAbove
  <2>. QED  BY <1>2, <2>2, <2>3 DEF IInv, LamportAbove
<1>9. VectorAbove'
  <2>1. ASSUME NEW x \in past'[n] PROVE AtMost(Vector(x), w) /\ x \in Stamped
    <3>1. CASE x \in past[n]
      <4>1. AtMost(Vector(x), vec[n]) /\ x \in Stamped
        BY <1>4, <3>1 DEF IInv, VectorAbove
      <4>. QED  BY <1>5, <1>6, <4>1, AtMostTransitive
    <3>2. CASE x = m
      BY <1>1, <1>6, <3>2
    <3>3. CASE x \in env[m].past
      <4>1. AtMost(Vector(x), Vector(m)) /\ x \in Stamped
        BY <1>1, <1>4, <3>3 DEF IInv, VectorAbove
      <4>. QED  BY <1>1, <1>5, <1>6, <4>1, AtMostTransitive
    <3>. QED  BY <1>3, <3>1, <3>2, <3>3
  <2>2. ASSUME NEW k \in Nodes, NEW x \in past'[k] PROVE AtMost(Vector(x)', vec'[k])
    <3>1. CASE k = n
      BY <1>1, <1>2, <1>3, <2>1, <3>1
    <3>2. CASE k # n
      <4>1. x \in past[k] /\ x \in Msgs /\ vec'[k] = vec[k]
        BY <1>1, <1>3, <1>4, <3>2
      <4>. QED  BY <1>2, <4>1 DEF IInv, VectorAbove
    <3>. QED  BY <3>1, <3>2
  <2>3. ASSUME NEW b \in Stamped, NEW a \in env[b].past
        PROVE  /\ AtMost(Vector(a), Vector(b))' 
               /\ Vector(a)'[env'[b].node] < Vector(b)'[env'[b].node]
    <3>1. a \in Msgs /\ b \in Msgs
      BY <1>1, <1>4
    <3>2. AtMost(Vector(a), Vector(b)) /\ Vector(a)[env[b].node] < Vector(b)[env[b].node]
      BY DEF IInv, VectorAbove
    <3>. QED  BY <1>2, <3>1, <3>2
  <2>. QED  BY <1>2, <2>2, <2>3 DEF VectorAbove
<1>10. ASSUME (restarts = 0)' PROVE VectorExact'
  <2>1. VectorExact
    BY <1>10 DEF IInv, Deliver
  <2>2. Vector(m)[n] <= vec[n][n] /\ w[n] = vec[n][n] + 1
    BY <1>1, <1>6, <2>1 DEF VectorExact
  <2>3. \A j \in Nodes : vec[j][j] <= vec'[j][j]
    BY <1>3, <1>5, <2>2
  <2>4. ASSUME NEW k \in Nodes, NEW j \in Nodes PROVE vec'[k][j] <= vec'[j][j]
    <3>1. CASE k = j
      BY <1>3, <1>5, <1>6, <3>1
    <3>2. CASE k # j /\ k # n
      <4>1. vec'[k] = vec[k] /\ vec[k][j] <= vec[j][j]
        BY <1>3, <2>1, <3>2 DEF VectorExact
      <4>2. vec[k][j] \in Nat /\ vec[j][j] \in Nat /\ vec'[j][j] \in Nat
        BY <1>3, <1>5, <1>6
      <4>. QED  BY <2>3, <4>1, <4>2
    <3>3. CASE k = n /\ j # n
      <4>1. vec[n][j] <= vec[j][j] /\ Vector(m)[j] <= vec[j][j] /\ vec'[j] = vec[j]
        BY <1>1, <1>3, <2>1, <3>3 DEF VectorExact
      <4>. QED  BY <1>3, <1>6, <3>3, <4>1
    <3>. QED  BY <3>1, <3>2, <3>3
  <2>5. ASSUME NEW x \in Stamped, NEW j \in Nodes PROVE Vector(x)[j] <= vec'[j][j]
    <3>1. Vector(x)[j] <= vec[j][j]
      BY <2>1 DEF VectorExact
    <3>2. Vector(x)[j] \in Nat /\ vec[j][j] \in Nat /\ vec'[j][j] \in Nat
      BY <1>3, <1>5, <1>6
    <3>. QED  BY <2>3, <3>1, <3>2
  <2>6. ASSUME NEW k \in Nodes, NEW a \in Stamped,
               Vector(a)[env[a].node] <= vec'[k][env[a].node]
        PROVE  a \in past'[k]
    <3>1. env[a].node \in Nodes
      BY <1>5
    <3>2. CASE k # n
      <4>1. vec'[k] = vec[k] /\ past'[k] = past[k]
        BY <1>3, <3>2
      <4>. QED  BY <2>1, <2>6, <4>1 DEF VectorExact
    <3>3. CASE k = n /\ env[a].node = n
      <4>1. Vector(a)[n] <= vec[n][n]
        BY <2>1 DEF VectorExact
      <4>2. a \in past[n]
        BY <2>1, <3>3, <4>1 DEF VectorExact
      <4>. QED  BY <1>3, <3>3, <4>2
    <3>4. CASE k = n /\ env[a].node # n
      <4>1. w[env[a].node] \in {vec[n][env[a].node], Vector(m)[env[a].node]}
              /\ Vector(a)[env[a].node] <= w[env[a].node]
        BY <1>3, <1>6, <2>6, <3>1, <3>4
      <4>2. CASE Vector(a)[env[a].node] <= vec[n][env[a].node]
        <5>1. a \in past[n]
          BY <2>1, <4>2 DEF VectorExact
        <5>. QED  BY <1>3, <3>4, <5>1
      <4>3. CASE Vector(a)[env[a].node] <= Vector(m)[env[a].node]
        <5>1. a = m \/ a \in env[m].past
          BY <1>1, <2>1, <4>3 DEF VectorExact
        <5>. QED  BY <1>3, <3>4, <5>1
      <4>. QED  BY <4>1, <4>2, <4>3
    <3>. QED  BY <3>2, <3>3, <3>4
  <2>7. \A a, b \in Stamped :
          a # b /\ Vector(a)[env[a].node] <= Vector(b)[env[a].node] => a \in env[b].past
    BY <2>1 DEF VectorExact
  <2>8. \A x \in Stamped : Vector(x)' = Vector(x)
    BY <1>1, <1>2
  <2>. QED  BY <1>2, <2>4, <2>5, <2>6, <2>7, <2>8 DEF VectorExact
<1>. QED  BY <1>7, <1>8, <1>9, <1>10 DEF IInv

\* A node that starts again has nothing before its present; from then on the
\* vectors are exact no more, and nothing is said of that.
LEMMA RestartStep ==
  ASSUME IInv, TypeOK', NEW n \in Nodes, Restart(n)
  PROVE  IInv'
<1>1. TypeOK
  BY DEF IInv
<1>2. Stamped' = Stamped /\ env' = env /\ \A x \in Msgs : Vector(x)' = Vector(x)
  BY <1>1 DEF Restart, Stamped, Vector, TypeOK
<1>3. /\ past'[n] = {} /\ lamport'[n] = 0
      /\ \A k \in Nodes \ {n} :
           lamport'[k] = lamport[k] /\ vec'[k] = vec[k] /\ past'[k] = past[k]
  BY <1>1 DEF Restart, TypeOK
<1>4. saw' = saw /\ restarts' # 0
  BY <1>1, CausalityAssumption DEF Restart, TypeOK
<1>5. Stamped \subseteq Msgs /\ \A k \in Nodes : past[k] \subseteq Stamped
  BY DEF IInv, Recorded, Stamped
<1>6. Recorded'
  BY <1>2, <1>3, <1>4 DEF IInv, Recorded
<1>7. LamportAbove'
  BY <1>2, <1>3 DEF IInv, LamportAbove
<1>8. VectorAbove'
  <2>1. ASSUME NEW k \in Nodes, NEW x \in past'[k] PROVE AtMost(Vector(x)', vec'[k])
    <3>1. k # n /\ x \in past[k] /\ x \in Msgs /\ vec'[k] = vec[k]
      BY <1>3, <1>5
    <3>. QED  BY <1>2, <3>1 DEF IInv, VectorAbove
  <2>2. ASSUME NEW b \in Stamped, NEW a \in env[b].past
        PROVE  /\ AtMost(Vector(a)', Vector(b)')
               /\ Vector(a)'[env'[b].node] < Vector(b)'[env'[b].node]
    <3>1. a \in Msgs /\ b \in Msgs
      BY <1>5 DEF IInv, Recorded
    <3>2. AtMost(Vector(a), Vector(b)) /\ Vector(a)[env[b].node] < Vector(b)[env[b].node]
      BY DEF IInv, VectorAbove
    <3>. QED  BY <1>2, <3>1, <3>2
  <2>. QED  BY <1>2, <2>1, <2>2 DEF VectorAbove
<1>. QED  BY <1>4, <1>6, <1>7, <1>8 DEF IInv

\* The invariant is inductive.
LEMMA NextInductive == IInv /\ [Next]_vars => IInv'
<1>1. SUFFICES ASSUME IInv, [Next]_vars PROVE IInv'
  OBVIOUS
<1>2. TypeOK /\ TypeOK'
  BY <1>1, TypeStep DEF IInv
<1>3. \A u \in Readers : saw[u] \subseteq Stamped
  BY <1>1 DEF IInv, Recorded
<1>4. ASSUME NEW m \in Msgs, Number(m) PROVE IInv'
  <2>1. Stamped' = Stamped /\ UNCHANGED <<clocks, saw, restarts>>
    BY <1>2, <1>4 DEF Number, Stamped, TypeOK
  <2>2. \A x \in Msgs : /\ env'[x].lamport = env[x].lamport
                        /\ env'[x].vector = env[x].vector
                        /\ env'[x].node = env[x].node
                        /\ env'[x].past = env[x].past
    <3>1. \A x \in Msgs \ {m} : env'[x] = env[x]
      BY <1>2, <1>4 DEF Number, TypeOK
    <3>2. env'[m] = [env[m] EXCEPT !.seq = counter + 1] /\ env[m] \in Envelopes
      BY <1>2, <1>4 DEF Number, TypeOK
    <3>3. /\ env'[m].lamport = env[m].lamport /\ env'[m].vector = env[m].vector
          /\ env'[m].node = env[m].node /\ env'[m].past = env[m].past
      BY <3>2 DEF Envelopes
    <3>. QED  BY <3>1, <3>3
  <2>. QED  BY <1>1, <1>2, <1>3, <2>1, <2>2, QuietStep
<1>5. ASSUME NEW m \in Msgs, Publish(m) \/ Save(m) \/ Fail(m) PROVE IInv'
  <2>1. UNCHANGED <<clocks, env, saw, restarts>>
    BY <1>5 DEF Publish, Save, Fail
  <2>2. ASSUME NEW x \in Msgs PROVE (at'[x] # "new") <=> (at[x] # "new")
    BY <1>2, <1>5 DEF Publish, Save, Fail, TypeOK
  <2>3. Stamped' = Stamped
    BY <2>2 DEF Stamped
  <2>. QED  BY <1>1, <1>2, <1>3, <2>1, <2>3, QuietStep
<1>6. ASSUME NEW u \in Readers, NEW m \in Msgs, Render(u, m) PROVE IInv'
  <2>1. UNCHANGED <<clocks, env, at, restarts>> /\ Stamped' = Stamped
    BY <1>6 DEF Render, Stamped
  <2>2. m \in Stamped
    BY <1>6 DEF Render, Stamped
  <2>3. \A r \in Readers : saw'[r] \subseteq Stamped
    BY <1>2, <1>3, <1>6, <2>2 DEF Render, TypeOK
  <2>. QED  BY <1>1, <1>2, <2>1, <2>3, QuietStep
<1>7. CASE UNCHANGED vars
  <2>1. Stamped' = Stamped /\ UNCHANGED <<clocks, env, saw, restarts>>
    BY <1>7 DEF vars, Stamped, clocks
  <2>. QED  BY <1>1, <1>2, <1>3, <2>1, QuietStep
<1>. QED  BY <1>1, <1>2, <1>4, <1>5, <1>6, <1>7, StampStep, DeliverStep, RestartStep DEF Next

\* The invariant holds throughout.
THEOREM Inductive == Spec => []IInv
BY InitInductive, NextInductive, PTL DEF Spec

-----------------------------------------------------------------------------
(* The properties.                                                         *)

\* Type correctness.
THEOREM TypeCorrect == Spec => []TypeOK
<1>1. IInv => TypeOK
  BY DEF IInv
<1>. QED  BY <1>1, Inductive, PTL

\* For every number of nodes and messages, a cause has the lower Lamport stamp.
THEOREM LamportTellsCauses == Spec => []ClockCondition
<1>1. IInv => ClockCondition
  BY DEF IInv, LamportAbove, ClockCondition, Before, Stamped
<1>. QED  BY <1>1, Inductive, PTL

\* For every number of nodes, messages and restarts, a cause compares as before.
LEMMA CauseBefore == IInv => CauseComparesBefore
<1>1. SUFFICES ASSUME IInv, NEW a \in Stamped, NEW b \in Stamped, Before(a, b)
               PROVE  Compare(Vector(a), Vector(b)) = "before"
  BY DEF CauseComparesBefore
<1>2. AtMost(Vector(a), Vector(b)) /\ Vector(a)[env[b].node] < Vector(b)[env[b].node]
  BY <1>1 DEF IInv, VectorAbove, Before
<1>3. Vector(a) \in Vectors /\ Vector(b) \in Vectors /\ env[b].node \in Nodes
  BY <1>1 DEF IInv, TypeOK, Stamped, Envelopes, Vector
<1>4. Vector(b)[env[b].node] \in Nat
  BY <1>3 DEF Vectors
<1>5. Vector(a) # Vector(b)
  BY <1>2, <1>4
<1>. QED  BY <1>2, <1>3, <1>5, BelowIsBefore

THEOREM VectorsShowCauses == Spec => []CauseComparesBefore
BY CauseBefore, Inductive, PTL

\* Without a restart only a cause compares as before, and no two as equal.
LEMMA OnlyCauseBefore == IInv => OnlyCauseComparesBefore
<1>1. SUFFICES ASSUME IInv, restarts = 0, NEW a \in Stamped, NEW b \in Stamped, a # b
               PROVE  /\ Compare(Vector(a), Vector(b)) # "equal"
                      /\ Compare(Vector(a), Vector(b)) = "before" => Before(a, b)
  BY DEF OnlyCauseComparesBefore
<1>2. /\ Vector(a) \in Vectors /\ Vector(b) \in Vectors
      /\ env[a].node \in Nodes /\ env[b].node \in Nodes
  BY <1>1 DEF IInv, TypeOK, Stamped, Envelopes, Vector
<1>3. ASSUME AtMost(Vector(a), Vector(b)) PROVE a \in env[b].past
  <2>1. Vector(a)[env[a].node] <= Vector(b)[env[a].node]
    BY <1>2, <1>3 DEF AtMost
  <2>. QED  BY <1>1, <2>1 DEF IInv, VectorExact
<1>4. Vector(a) # Vector(b)
  <2>1. SUFFICES ASSUME Vector(a) = Vector(b) PROVE FALSE
    OBVIOUS
  <2>2. Vector(b)[env[b].node] \in Nat
    BY <1>2 DEF Vectors
  <2>3. AtMost(Vector(a), Vector(b))
    BY <1>2, <2>1, AtMostReflexive
  <2>4. Vector(a)[env[b].node] < Vector(b)[env[b].node]
    BY <1>1, <1>3, <2>3 DEF IInv, VectorAbove
  <2>. QED  BY <1>2, <2>1, <2>2, <2>4
<1>. QED  BY <1>2, <1>3, <1>4, CompareTells DEF Before

THEOREM VectorsShowOnlyCauses == Spec => []OnlyCauseComparesBefore
BY OnlyCauseBefore, Inductive, PTL

\* The badge of the client is never wrong, and without a restart never missing.
THEOREM BadgesAreTrue == Spec => []BadgeIsTrue
<1>1. ASSUME IInv PROVE BadgeIsTrue
  <2>1. SUFFICES ASSUME NEW u \in Readers, NEW m \in saw[u], NEW p \in Recent(u, m)
                 PROVE  /\ p \in ConcurrentWith(u, m) => ~Before(p, m) /\ ~Before(m, p)
                        /\ restarts = 0 /\ ~Before(p, m) /\ ~Before(m, p)
                             => p \in ConcurrentWith(u, m)
    BY DEF BadgeIsTrue
  <2>2. m \in Stamped /\ p \in Stamped
    BY <1>1, <2>1 DEF IInv, Recorded, Recent
  <2>3. env[p].seq < env[m].seq /\ env[m].seq \in Nat
    BY <1>1, <2>2 DEF Recent, IInv, TypeOK, Envelopes, Stamped
  <2>4. p # m
    BY <2>3
  <2>5. Vector(m) \in Vectors /\ Vector(p) \in Vectors
    BY <1>1, <2>2 DEF IInv, TypeOK, Stamped, Envelopes, Vector
  <2>6. Before(p, m) => Compare(Vector(p), Vector(m)) = "before"
    BY <1>1, <2>2, CauseBefore DEF CauseComparesBefore
  <2>7. Before(m, p) => Compare(Vector(p), Vector(m)) = "after"
    <3>1. SUFFICES ASSUME Before(m, p) PROVE Compare(Vector(p), Vector(m)) = "after"
      OBVIOUS
    <3>2. Compare(Vector(m), Vector(p)) = "before"
      BY <1>1, <2>2, <3>1, CauseBefore DEF CauseComparesBefore
    <3>. QED  BY <2>5, <3>2, CompareTells, BelowIsBefore
  <2>8. ASSUME restarts = 0, ~Before(p, m), ~Before(m, p)
        PROVE  Compare(Vector(p), Vector(m)) = "concurrent"
    <3>1. /\ Compare(Vector(p), Vector(m)) \notin {"equal", "before"}
          /\ Compare(Vector(m), Vector(p)) # "before"
      BY <1>1, <2>2, <2>4, <2>8, OnlyCauseBefore DEF OnlyCauseComparesBefore
    <3>2. Compare(Vector(p), Vector(m)) # "after"
      BY <2>5, <3>1, CompareTells, BelowIsBefore
    <3>. QED  BY <2>5, <3>1, <3>2, CompareTells
  <2>. QED  BY <2>6, <2>7, <2>8 DEF ConcurrentWith
<1>. QED  BY <1>1, Inductive, PTL
=============================================================================
