----------------------- MODULE DiscoveryGraph_proofs -----------------------
(***************************************************************************)
(* Proofs about DiscoveryGraph for any sets of inputs, attachments and     *)
(* probe results and any number of generations and probes: the graph       *)
(* passes the audit of a backup, every input and batch says what its       *)
(* current jobs say, and a cancellation sticks.                            *)
(*                                                                         *)
(* A lemma about a step takes the step in one of five forms: a main job    *)
(* moves (MainMove), a child job moves (ChildMove), an input starts anew   *)
(* (Restart), a probe is committed (CommitsTo), a download is finished.    *)
(***************************************************************************)
EXTENDS DiscoveryGraph, TLAPS

\* An input that is not a duplicate has its main job, in its own generation; a
\* snapshot is there exactly after the discover job is ready.
KindInv ==
    \A i \in Inputs :
        /\ input[i].kind \in {"graph", "flat"} <=> main[i].status # "none"
        /\ main[i].gen = input[i].gen
        /\ input[i].kind # "graph" => input[i].disc = {}
        /\ input[i].kind = "graph" => (main[i].status = "ready" <=> input[i].disc # {})
        /\ main[i].lease # 0 => input[i].kind = "graph"
        /\ input[i].cancel => input[i].kind \in {"graph", "flat"}

\* A link is of the snapshot and generation that created it or adopted its
\* job; one of the current generation is of the active snapshot.
LinkInv ==
    \A l \in link :
        /\ child[<<l.input, l.target>>].status # "none"
        /\ l.target \in l.disc
        /\ l.disc \in discoveries
        /\ child[<<l.input, l.target>>].gen <= l.gen
        /\ l.gen <= input[l.input].gen
        /\ l.gen = input[l.input].gen => l.disc = input[l.input].disc

CurrentLink(i, t) ==
    [input |-> i, gen |-> input[i].gen, disc |-> input[i].disc, target |-> t]

\* The active snapshot is linked whole, and no job is without a link.
MemberInv ==
    /\ \A i \in Inputs : \A t \in input[i].disc : CurrentLink(i, t) \in link
    /\ \A c \in Children :
         child[c].status # "none" => \E l \in link : l.input = c[1] /\ l.target = c[2]

\* Only a ready job was made ready by reuse.
ReuseInv == \A c \in Children : child[c].status # "ready" => child[c].reused = {}

KeyInv == \A c, d \in assets : c[2] = d[2] => c = d

\* The statuses of the jobs an input counts, by the members of its snapshot.
Counted(i) ==
    IF input[i].disc = {} THEN {main[i].status}
    ELSE {child[<<i, t>>].status : t \in input[i].disc}

AgreeInv ==
    \A i \in Inputs :
        input[i].kind \in {"graph", "flat"} =>
            /\ input[i].status = Aggregate(Counted(i))
            /\ input[i].batch = BatchStatus({input[i].status} \cup Others[i])

\* Nothing of a canceled input waits or runs unasked to stop.
CancelInv ==
    \A i \in Inputs :
        input[i].cancel =>
            /\ main[i].status \notin {"queued", "active"}
            /\ \A t \in Targets : child[<<i, t>>].status \notin {"queued", "active"}

GraphInv ==
    /\ GraphTypeOK /\ KindInv /\ LinkInv /\ MemberInv /\ AuditAssets /\ ReuseInv /\ KeyInv
    /\ AgreeInv /\ OneFlatDownload /\ CancelInv

-----------------------------------------------------------------------------
InputType ==
    [kind : {"none", "graph", "flat", "duplicate"}, gen : 1..MaxGeneration,
     disc : {{}} \cup Snapshots, cancel : BOOLEAN, status : InputStatuses,
     batch : InputStatuses]

MainType ==
    [status : {"none"} \cup Live \cup Ended, gen : 1..MaxGeneration,
     tries : 0..MaxProbes, lease : 0..MaxProbes]

ChildType ==
    [status : {"none"} \cup Live \cup Ended, gen : 0..MaxGeneration,
     reused : SUBSET Inputs, assets : SUBSET Children]

LinkType == [input : Inputs, gen : 1..MaxGeneration, disc : Snapshots, target : Targets]

\* The same as GraphTypeOK, with the types named.
LEMMA GraphTypes ==
    GraphTypeOK <=>
        /\ input \in [Inputs -> InputType] /\ main \in [Inputs -> MainType]
        /\ child \in [Children -> ChildType] /\ link \subseteq LinkType
        /\ discoveries \subseteq Snapshots /\ assets \subseteq Children
        /\ probing \subseteq Inputs \X (1..MaxProbes)
  BY Zenon DEF GraphTypeOK, InputType, MainType, ChildType, LinkType

LEMMA AggregateTypes ==
    ASSUME NEW S
    PROVE  Aggregate(S) \in InputStatuses /\ BatchStatus(S) \in InputStatuses
  BY DEF Aggregate, BatchStatus, InputStatuses

\* The job a pair names, and the pairs of an input.
LEMMA ChildPairs ==
    /\ \A i \in Inputs, t \in Targets :
         <<i, t>> \in Children /\ <<i, t>>[1] = i /\ <<i, t>>[2] = t
    /\ \A c \in Children : c[1] \in Inputs /\ c[2] \in Targets /\ c = <<c[1], c[2]>>
  BY DEF Children


\* The fields of an input that its status does not touch.
SameFields(old, new) ==
    /\ new.kind = old.kind /\ new.gen = old.gen /\ new.disc = old.disc
    /\ new.cancel = old.cancel

\* The other inputs stay.
OthersKept(i, old, new) == \A j \in Inputs : j # i => new[j] = old[j]

Agrees(i) ==
    /\ input[i].status = Aggregate(Counted(i))
    /\ input[i].batch = BatchStatus({input[i].status} \cup Others[i])

\* The transaction writes the inputs as inp and marks input i: the other
\* inputs stay, and input i agrees with the jobs it counts.
Marks(inp, i) == input' = Marked(inp, main', child', link', i)

MarkDone(inp, i) ==
    /\ input' \in [Inputs -> InputType]
    /\ \A j \in Inputs : SameFields(inp[j], input'[j])
    /\ OthersKept(i, inp, input')
    /\ LinkInv' /\ MemberInv' => Agrees(i)'

LEMMA MarkedStep ==
    \A inp \in [Inputs -> InputType], i \in Inputs : Marks(inp, i) => MarkDone(inp, i)
  <1> TAKE inp \in [Inputs -> InputType], i \in Inputs
  <1> HAVE Marks(inp, i)
  <1>p. PICK m, ch, lk, out : m = main' /\ ch = child' /\ lk = link' /\ out = input'
    <2>1. \E m, ch, lk, out : m = main' /\ ch = child' /\ lk = link' /\ out = input'
      OBVIOUS
    <2> QED BY <2>1, Zenon
  <1>m. out = Marked(inp, m, ch, lk, i)
    BY <1>p, Zenon DEF Marks
  <1> DEFINE sc == Scope(inp, m, ch, lk, i)
             st == Aggregate(sc)
             b  == BatchStatus({st} \cup Others[i])
  <1>a. st \in InputStatuses /\ b \in InputStatuses
    BY AggregateTypes
  <1>b. out = [inp EXCEPT ![i].status = st, ![i].batch = b]
    BY <1>m DEF Marked
  <1> HIDE DEF st, b
  <1>c. inp[i] \in InputType
    OBVIOUS
  <1>d. [inp[i] EXCEPT !.status = st, !.batch = b] \in InputType
    BY <1>a, <1>c DEF InputType
  <1>e. out = [inp EXCEPT ![i] = [inp[i] EXCEPT !.status = st, !.batch = b]]
    BY <1>b
  <1>1. /\ out \in [Inputs -> InputType]
        /\ \A j \in Inputs : j # i => out[j] = inp[j]
        /\ SameFields(inp[i], out[i])
        /\ out[i].status = st /\ out[i].batch = b
    BY <1>c, <1>d, <1>e DEF InputType, SameFields
  <1>2. out[i].gen = inp[i].gen /\ out[i].disc = inp[i].disc
    BY <1>1 DEF SameFields
  <1>3. ASSUME LinkInv', MemberInv'
        PROVE  Agrees(i)'
    <2>1. \A l \in lk :
               l.input = i /\ l.gen = inp[i].gen =>
                   l.disc = inp[i].disc /\ l.target \in inp[i].disc
      <3>1. \A l \in link' :
               /\ l.target \in l.disc
               /\ l.gen = input'[l.input].gen => l.disc = input'[l.input].disc
        BY <1>3, Zenon DEF LinkInv
      <3> QED BY <3>1, <1>p, <1>2
    <2>2. \A t \in inp[i].disc :
               [input |-> i, gen |-> inp[i].gen, disc |-> inp[i].disc, target |-> t] \in lk
      BY <1>p, <1>2, <1>3 DEF MemberInv, CurrentLink
    <2>3. sc = IF inp[i].disc = {} THEN {m[i].status}
               ELSE {ch[<<i, t>>].status : t \in inp[i].disc}
      <3> DEFINE K == {k \in lk : k.input = i /\ k.gen = inp[i].gen /\ k.disc = inp[i].disc}
                 A == {ch[<<i, l.target>>].status : l \in K}
                 B == {ch[<<i, t>>].status : t \in inp[i].disc}
      <3>1. \A l \in K : l.target \in inp[i].disc
        BY <2>1
      <3>2. ASSUME NEW t \in inp[i].disc
            PROVE  \E l \in K : l.target = t
        <4> DEFINE l == [input |-> i, gen |-> inp[i].gen, disc |-> inp[i].disc, target |-> t]
        <4>1. l \in K /\ l.target = t
          BY <2>2
        <4> QED BY <4>1
      <3> HIDE DEF K
      <3>3. A = B
        BY <3>1, <3>2
      <3> QED
        BY <3>3 DEF Scope, K
    <2> HIDE DEF sc
    <2>4. sc = Counted(i)'
      BY <2>3, <1>p, <1>2 DEF Counted
    <2>5. st = Aggregate(Counted(i)') /\ b = BatchStatus({st} \cup Others[i])
      BY <2>4, Zenon DEF st, b
    <2>6. input'[i].status = st /\ input'[i].batch = b
      BY <1>1, <1>p
    <2> QED
      BY <2>5, <2>6, Zenon DEF Agrees
  <1>4. \A j \in Inputs : SameFields(inp[j], input'[j])
    BY <1>p, <1>1 DEF SameFields
  <1>5. input' \in [Inputs -> InputType] /\ OthersKept(i, inp, input')
    BY <1>p, <1>1 DEF OthersKept
  <1> QED
    BY <1>3, <1>4, <1>5, Zenon DEF MarkDone

LEMMA LiveAggregate == \A S : S \cap Live # {} => Aggregate(S) = "queued"
  BY DEF Aggregate

\* An input that keeps its statuses, and whose jobs keep theirs, agrees on.
LEMMA AgreesKept ==
    ASSUME NEW i \in Inputs, Agrees(i),
           input'[i].disc = input[i].disc, input'[i].status = input[i].status,
           input'[i].batch = input[i].batch,
           input[i].disc = {} => main'[i].status = main[i].status,
           \A t \in input[i].disc : child'[<<i, t>>].status = child[<<i, t>>].status
    PROVE  Agrees(i)'
  <1>1. {child'[<<i, t>>].status : t \in input[i].disc}
          = {child[<<i, t>>].status : t \in input[i].disc}
    OBVIOUS
  <1>2. Counted(i)' = Counted(i)
    BY <1>1 DEF Counted
  <1> QED
    BY <1>2, Zenon DEF Agrees

\* An input with a live job, before and after, agrees on.
LEMMA AgreesLive ==
    ASSUME NEW i \in Inputs, Agrees(i),
           input'[i].status = input[i].status, input'[i].batch = input[i].batch,
           Counted(i) \cap Live # {}, Counted(i)' \cap Live # {}
    PROVE  Agrees(i)'
  <1>1. Aggregate(Counted(i)) = "queued" /\ Aggregate(Counted(i)') = "queued"
    BY LiveAggregate, Zenon
  <1> QED
    BY <1>1, Zenon DEF Agrees

\* One child job moves from one live status to another, or to an end that is
\* not ready; its input is marked unless it stays live.
ChildMove(c, st) ==
    /\ child[c].status \in Live
    /\ st \in {"queued", "active", "stopping", "failed", "canceled"}
    /\ input[c[1]].cancel => st \notin {"queued", "active"}
    /\ child' = [child EXCEPT ![c].status = st]
    /\ UNCHANGED <<main, link, discoveries, assets, probing>>
    /\ \/ input' = input /\ st \in Live
       \/ Marks(input, c[1])

LEMMA ChildMoves ==
    ASSUME GraphInv, NEW c \in Children, NEW st, ChildMove(c, st)
    PROVE  GraphInv'
  <1>c. c[1] \in Inputs /\ c[2] \in Targets /\ c = <<c[1], c[2]>>
    BY ChildPairs
  <1>t. /\ input \in [Inputs -> InputType] /\ main \in [Inputs -> MainType]
        /\ child \in [Children -> ChildType] /\ link \subseteq LinkType
        /\ discoveries \subseteq Snapshots /\ assets \subseteq Children
        /\ probing \subseteq Inputs \X (1..MaxProbes)
    BY GraphTypes DEF GraphInv
  <1>0. Marks(input, c[1]) => MarkDone(input, c[1])
    BY <1>c, <1>t, MarkedStep, Zenon
  <1>u. main' = main /\ link' = link /\ discoveries' = discoveries
        /\ assets' = assets /\ probing' = probing
    BY DEF ChildMove
  <1>1. /\ input' \in [Inputs -> InputType]
        /\ \A j \in Inputs : SameFields(input[j], input'[j])
        /\ OthersKept(c[1], input, input')
    <2>1. CASE Marks(input, c[1])
      BY <1>0, <2>1, Zenon DEF MarkDone
    <2>2. CASE input' = input
      BY <1>t, <2>2 DEF SameFields, OthersKept
    <2> QED BY <2>1, <2>2, Zenon DEF ChildMove
  <1>2. /\ child' \in [Children -> ChildType]
        /\ \A d \in Children : d # c => child'[d] = child[d]
        /\ child'[c].status = st /\ child'[c].gen = child[c].gen
        /\ child'[c].reused = child[c].reused /\ child'[c].assets = child[c].assets
    BY <1>t DEF ChildMove, ChildType, Live, Claimed, Ended
  <1>s. /\ child[c].status \in Live /\ st \notin {"none", "ready"}
        /\ input[c[1]].cancel => st \notin {"queued", "active"}
    BY DEF ChildMove
  <1>3. GraphTypeOK'
    BY <1>t, <1>u, <1>1, <1>2 DEF GraphTypeOK, InputType, MainType, ChildType, LinkType
  <1>4. KindInv'
    BY <1>u, <1>1 DEF GraphInv, KindInv, SameFields
  <1>5. LinkInv'
    <2>1. ASSUME NEW l \in link
          PROVE  /\ l.input \in Inputs /\ <<l.input, l.target>> \in Children
                 /\ child'[<<l.input, l.target>>].status # "none"
                 /\ child'[<<l.input, l.target>>].gen = child[<<l.input, l.target>>].gen
      BY <1>t, <1>s, <1>2, <2>1 DEF GraphInv, LinkInv, LinkType, Children
    <2>2. ASSUME NEW l \in link
          PROVE  input'[l.input].gen = input[l.input].gen /\ input'[l.input].disc = input[l.input].disc
      BY <1>1, <2>1 DEF SameFields
    <2>3. ASSUME NEW l \in link
          PROVE  /\ l.target \in l.disc
                 /\ l.disc \in discoveries
                 /\ child[<<l.input, l.target>>].gen <= l.gen
                 /\ l.gen <= input[l.input].gen
                 /\ l.gen = input[l.input].gen => l.disc = input[l.input].disc
      BY DEF GraphInv, LinkInv
    <2> QED BY <1>u, <2>1, <2>2, <2>3 DEF LinkInv
  <1>6. MemberInv'
    BY <1>t, <1>s, <1>u, <1>1, <1>2 DEF GraphInv, MemberInv, SameFields, CurrentLink, Live, Claimed
  <1>7. AuditAssets' /\ ReuseInv'
    <2>1. child[c].status # "ready" /\ child'[c].status # "ready"
      BY <1>2, <1>s DEF Live, Claimed
    <2>2. \A d \in Children : \A j \in child[d].reused : <<j, d[2]>> \in Children
      BY <1>t DEF ChildType, Children
    <2>3. \A d \in Children :
            /\ child'[d].assets = child[d].assets /\ child'[d].reused = child[d].reused
            /\ child'[d].status = "ready" <=> child[d].status = "ready"
      BY <1>2, <2>1
    <2>4. ReuseInv'
      BY <2>3 DEF GraphInv, ReuseInv
    <2>5. ASSUME NEW d \in Children
          PROVE  /\ (child'[d].status = "ready") =
                        (\E e \in assets' : e[2] = d[2] /\ child'[d].assets = {e})
                 /\ child'[d].status /= "ready" => child'[d].assets = {}
      <3>1. /\ (child[d].status = "ready") =
                   (\E e \in assets : e[2] = d[2] /\ child[d].assets = {e})
            /\ child[d].status /= "ready" => child[d].assets = {}
        BY DEF GraphInv, AuditAssets
      <3>2. /\ child'[d].assets = child[d].assets /\ assets' = assets
            /\ child'[d].status = "ready" <=> child[d].status = "ready"
        BY <2>3, <1>u
      <3>3. CASE child[d].status = "ready"
        BY <3>1, <3>2, <3>3, Zenon
      <3>4. CASE child[d].status /= "ready"
        BY <3>1, <3>2, <3>4
      <3> QED BY <3>3, <3>4
    <2>6. ASSUME NEW d \in Children, NEW j \in child'[d].reused
          PROVE  /\ j /= d[1]
                 /\ child'[<<j, d[2]>>].status = "ready"
                 /\ child'[<<j, d[2]>>].assets = child'[d].assets
      <3>1. j \in child[d].reused /\ <<j, d[2]>> \in Children
        BY <2>2, <2>3
      <3>2. /\ j /= d[1]
            /\ child[<<j, d[2]>>].status = "ready"
            /\ child[<<j, d[2]>>].assets = child[d].assets
        BY <3>1 DEF GraphInv, AuditAssets
      <3> QED BY <3>1, <3>2, <2>3
    <2>7. AuditAssets'
      BY <2>5, <2>6 DEF AuditAssets
    <2> QED BY <2>4, <2>7
  <1>8. KeyInv' /\ OneFlatDownload'
    BY <1>u, <1>1 DEF GraphInv, KeyInv, OneFlatDownload, SameFields
  <1>9. CancelInv'
    <2>1. ASSUME NEW i \in Inputs, input'[i].cancel
          PROVE  /\ input[i].cancel /\ main'[i].status \notin {"queued", "active"}
                 /\ \A t \in Targets : child[<<i, t>>].status \notin {"queued", "active"}
      BY <1>u, <1>1, <2>1 DEF GraphInv, CancelInv, SameFields
    <2>2. ASSUME NEW i \in Inputs, input'[i].cancel, NEW t \in Targets
          PROVE  child'[<<i, t>>].status \notin {"queued", "active"}
      <3>1. CASE <<i, t>> = c
        BY <1>s, <1>2, <2>1, <2>2, <3>1
      <3>2. CASE <<i, t>> # c
        BY <1>2, <2>1, <2>2, <3>2 DEF Children
      <3> QED BY <3>1, <3>2
    <2> QED BY <2>1, <2>2 DEF CancelInv
  <1>10. ASSUME NEW i \in Inputs, input'[i].kind \in {"graph", "flat"}
         PROVE  Agrees(i)'
    <2>1. Agrees(i)
      BY <1>1, <1>10 DEF GraphInv, AgreeInv, Agrees, SameFields
    <2>d. \A t \in input[i].disc : t \in Targets /\ <<i, t>> \in Children
      BY <1>t, GraphAssumption DEF InputType, Children
    <2>2. CASE Marks(input, c[1]) /\ i = c[1]
      BY <1>0, <2>2, <1>5, <1>6, Zenon DEF MarkDone
    <2>3. CASE input' = input /\ st \in Live /\ c[1] = i /\ c[2] \in input[i].disc
      <3>1. child[c].status \in Counted(i) /\ st \in Counted(i)'
        BY <1>c, <1>2, <2>3 DEF Counted
      <3> QED BY <3>1, <1>s, <2>1, <2>3, AgreesLive
    <2>4. CASE i # c[1] \/ (input' = input /\ c[2] \notin input[i].disc)
      <3>1. input'[i] = input[i]
        BY <1>1, <2>4 DEF OthersKept
      <3>2. \A t \in input[i].disc : child'[<<i, t>>].status = child[<<i, t>>].status
        BY <1>c, <1>2, <2>d, <2>4
      <3> QED BY <1>u, <3>1, <3>2, <2>1, AgreesKept
    <2> QED BY <2>2, <2>3, <2>4, Zenon DEF ChildMove
  <1>11. AgreeInv'
    BY <1>10 DEF AgreeInv, Agrees
  <1> QED
    BY <1>3, <1>4, <1>5, <1>6, <1>7, <1>8, <1>9, <1>11 DEF GraphInv

\* The main job of an input moves on: to a live status, to an end without a
\* result, or, flat, to ready; its input is marked unless it stays live.
MainMove(i, new) ==
    /\ main[i].status \in Live
    /\ new \in MainType /\ new.status \in Live \cup Ended
    /\ new.gen = main[i].gen
    /\ new.status = "ready" => input[i].kind = "flat"
    /\ new.lease # 0 => input[i].kind = "graph"
    /\ input[i].cancel => new.status \notin {"queued", "active"}
    /\ main' = [main EXCEPT ![i] = new]
    /\ UNCHANGED <<child, link, discoveries, assets>>
    /\ probing' \subseteq Inputs \X (1..MaxProbes)
    /\ \/ input' = input /\ new.status \in Live
       \/ Marks(input, i)

LEMMA MainMoves ==
    ASSUME GraphInv, NEW i \in Inputs, NEW new, MainMove(i, new)
    PROVE  GraphInv'
  <1>t. /\ input \in [Inputs -> InputType] /\ main \in [Inputs -> MainType]
        /\ child \in [Children -> ChildType] /\ link \subseteq LinkType
        /\ discoveries \subseteq Snapshots /\ assets \subseteq Children
        /\ probing \subseteq Inputs \X (1..MaxProbes)
    BY GraphTypes DEF GraphInv
  <1>0. Marks(input, i) => MarkDone(input, i)
    BY <1>t, MarkedStep, Zenon
  <1>u. child' = child /\ link' = link /\ discoveries' = discoveries /\ assets' = assets
    BY DEF MainMove
  <1>1. /\ input' \in [Inputs -> InputType]
        /\ \A j \in Inputs : SameFields(input[j], input'[j])
        /\ OthersKept(i, input, input')
    <2>1. CASE Marks(input, i)
      BY <1>0, <2>1, Zenon DEF MarkDone
    <2>2. CASE input' = input
      BY <1>t, <2>2 DEF SameFields, OthersKept
    <2> QED BY <2>1, <2>2, Zenon DEF MainMove
  <1>2. /\ main' \in [Inputs -> MainType] /\ main'[i] = new
        /\ \A j \in Inputs : j # i => main'[j] = main[j]
    BY <1>t DEF MainMove
  <1>s. /\ main[i].status \in Live /\ new.status \in Live \cup Ended
        /\ new.gen = main[i].gen
        /\ new.status = "ready" => input[i].kind = "flat"
        /\ new.lease # 0 => input[i].kind = "graph"
        /\ input[i].cancel => new.status \notin {"queued", "active"}
    BY DEF MainMove
  <1>3. GraphTypeOK'
    <2>1. probing' \subseteq Inputs \X (1..MaxProbes)
      BY DEF MainMove
    <2> QED
      BY <1>t, <1>u, <1>1, <1>2, <2>1 DEF GraphTypeOK, InputType, MainType, ChildType, LinkType
  <1>4. KindInv'
    <2>1. ASSUME NEW j \in Inputs
          PROVE  /\ input'[j].kind \in {"graph", "flat"} <=> main'[j].status # "none"
                 /\ main'[j].gen = input'[j].gen
                 /\ input'[j].kind # "graph" => input'[j].disc = {}
                 /\ input'[j].kind = "graph" => (main'[j].status = "ready" <=> input'[j].disc # {})
                 /\ main'[j].lease # 0 => input'[j].kind = "graph"
                 /\ input'[j].cancel => input'[j].kind \in {"graph", "flat"}
      BY <1>1, <1>2, <1>s DEF GraphInv, KindInv, SameFields, Live, Claimed, Ended
    <2> QED BY <2>1 DEF KindInv
  <1>5. LinkInv'
    <2>1. ASSUME NEW l \in link
          PROVE  input'[l.input].gen = input[l.input].gen /\ input'[l.input].disc = input[l.input].disc
      BY <1>t, <1>1 DEF SameFields, LinkType
    <2> QED BY <1>u, <2>1 DEF GraphInv, LinkInv
  <1>6. MemberInv'
    BY <1>t, <1>u, <1>1 DEF GraphInv, MemberInv, SameFields, CurrentLink
  <1>7. AuditAssets' /\ ReuseInv' /\ KeyInv'
    BY <1>u DEF GraphInv, AuditAssets, ReuseInv, KeyInv
  <1>8. OneFlatDownload'
    BY <1>1, <1>2, <1>s DEF GraphInv, OneFlatDownload, SameFields, Live, Claimed, Ended
  <1>9. CancelInv'
    BY <1>u, <1>1, <1>2, <1>s DEF GraphInv, CancelInv, SameFields
  <1>10. ASSUME NEW j \in Inputs, input'[j].kind \in {"graph", "flat"}
         PROVE  Agrees(j)'
    <2>1. Agrees(j)
      BY <1>1, <1>10 DEF GraphInv, AgreeInv, Agrees, SameFields
    <2>2. CASE Marks(input, i) /\ j = i
      BY <1>0, <2>2, <1>5, <1>6, Zenon DEF MarkDone
    <2>3. CASE input' = input /\ new.status \in Live /\ j = i
      <3>1. input[i].disc = {}
        BY <1>s DEF GraphInv, KindInv, Live, Claimed
      <3>2. Counted(j) = {main[i].status} /\ Counted(j)' = {new.status}
        BY <3>1, <2>3, <1>2 DEF Counted
      <3> QED BY <3>2, <1>s, <2>1, <2>3, AgreesLive
    <2>4. CASE j # i
      <3>1. input'[j] = input[j] /\ main'[j] = main[j]
        BY <1>1, <1>2, <2>4 DEF OthersKept
      <3> QED BY <1>u, <3>1, <2>1, AgreesKept
    <2> QED BY <2>2, <2>3, <2>4, Zenon DEF MainMove
  <1>11. AgreeInv'
    BY <1>10 DEF AgreeInv, Agrees
  <1> QED
    BY <1>3, <1>4, <1>5, <1>6, <1>7, <1>8, <1>9, <1>11 DEF GraphInv

\* A transaction that touches one input, its main job and its children, and
\* marks it.
Local(inp, i) ==
    /\ inp \in [Inputs -> InputType]
    /\ OthersKept(i, input, inp)
    /\ OthersKept(i, main, main')
    /\ \A c \in Children : c[1] # i => child'[c] = child[c]
    /\ Marks(inp, i)

LEMMA AgreeAfter ==
    ASSUME GraphTypeOK, AgreeInv, NEW i \in Inputs, LinkInv', MemberInv'
    PROVE  \A inp : Local(inp, i) => AgreeInv'
  <1> TAKE inp
  <1> HAVE Local(inp, i)
  <1>1. MarkDone(inp, i)
    <2>1. inp \in [Inputs -> InputType] /\ Marks(inp, i)
      BY Zenon DEF Local
    <2> QED BY <2>1, MarkedStep, Zenon
  <1>2. ASSUME NEW j \in Inputs, input'[j].kind \in {"graph", "flat"}
        PROVE  Agrees(j)'
    <2>1. CASE j = i
      BY <1>1, <2>1, LinkInv', MemberInv', Zenon DEF MarkDone
    <2>2. CASE j # i
      <3>1. input'[j] = inp[j] /\ inp[j] = input[j] /\ main'[j] = main[j]
        BY <1>1, <2>2 DEF MarkDone, OthersKept, Local
      <3>2. input[j] \in InputType
        BY GraphTypes
      <3>3. \A t \in input[j].disc : child'[<<j, t>>].status = child[<<j, t>>].status
        BY <2>2, <3>2, GraphAssumption DEF Local, InputType, Children
      <3>4. Agrees(j)
        BY <1>2, <3>1 DEF AgreeInv, Agrees
      <3> QED BY <3>1, <3>3, <3>4, AgreesKept
    <2> QED BY <2>1, <2>2
  <1> QED
    BY <1>2, Zenon DEF AgreeInv, Agrees

LEMMA Types ==
    ASSUME GraphInv
    PROVE  /\ input \in [Inputs -> InputType] /\ main \in [Inputs -> MainType]
           /\ child \in [Children -> ChildType] /\ link \subseteq LinkType
           /\ discoveries \subseteq Snapshots /\ assets \subseteq Children
           /\ probing \subseteq Inputs \X (1..MaxProbes)
  BY GraphTypes DEF GraphInv

LEMMA FinishChildInv ==
    ASSUME GraphInv, NEW c \in Children, FinishChild(c)
    PROVE  GraphInv'
  <1>t. /\ input \in [Inputs -> InputType] /\ main \in [Inputs -> MainType]
        /\ child \in [Children -> ChildType] /\ link \subseteq LinkType
        /\ discoveries \subseteq Snapshots /\ assets \subseteq Children
        /\ probing \subseteq Inputs \X (1..MaxProbes)
    BY Types
  <1>c. c[1] \in Inputs /\ c[2] \in Targets /\ c = <<c[1], c[2]>>
    BY ChildPairs
  <1>u. /\ main' = main /\ link' = link /\ discoveries' = discoveries
        /\ probing' = probing /\ assets' = assets \cup {c}
        /\ child' = [child EXCEPT ![c] = [child[c] EXCEPT !.status = "ready", !.assets = {c}]]
    BY DEF FinishChild, ChildWrite, MarkedWrite
  <1>m. Marks(input, c[1])
    <2>1. input' = Marked(input, main', child', link', c[1])
      BY Zenon DEF FinishChild, ChildWrite, MarkedWrite
    <2> QED BY <2>1, Zenon DEF Marks
  <1>0. MarkDone(input, c[1])
    BY <1>c, <1>t, <1>m, MarkedStep, Zenon
  <1>1. /\ input' \in [Inputs -> InputType]
        /\ \A j \in Inputs : SameFields(input[j], input'[j])
    BY <1>0, Zenon DEF MarkDone
  <1>2. /\ child' \in [Children -> ChildType]
        /\ \A d \in Children : d # c => child'[d] = child[d]
        /\ child'[c].status = "ready" /\ child'[c].gen = child[c].gen
        /\ child'[c].reused = child[c].reused /\ child'[c].assets = {c}
    <2> DEFINE new == [child[c] EXCEPT !.status = "ready", !.assets = {c}]
    <2>1. child[c] \in ChildType /\ {c} \subseteq Children
      BY <1>t
    <2>2. /\ new \in ChildType /\ new.status = "ready" /\ new.gen = child[c].gen
          /\ new.reused = child[c].reused /\ new.assets = {c}
      BY <2>1 DEF ChildType, Ended
    <2>3. child' = [child EXCEPT ![c] = new]
      BY <1>u
    <2> HIDE DEF new
    <2> QED BY <1>t, <2>2, <2>3
  <1>s. child[c].status = "active" /\ ~KeyTaken(c)
    BY DEF FinishChild
  <1>3. GraphTypeOK'
    BY <1>t, <1>u, <1>1, <1>2 DEF GraphTypeOK, InputType, MainType, ChildType, LinkType
  <1>4. KindInv'
    BY <1>u, <1>1 DEF GraphInv, KindInv, SameFields
  <1>5. LinkInv'
    <2>1. ASSUME NEW l \in link
          PROVE  /\ child'[<<l.input, l.target>>].status # "none"
                 /\ child'[<<l.input, l.target>>].gen = child[<<l.input, l.target>>].gen
                 /\ input'[l.input].gen = input[l.input].gen
                 /\ input'[l.input].disc = input[l.input].disc
      BY <1>t, <1>s, <1>1, <1>2, <2>1 DEF GraphInv, LinkInv, LinkType, Children, SameFields
    <2> QED BY <1>u, <2>1 DEF GraphInv, LinkInv
  <1>6. MemberInv'
    BY <1>t, <1>s, <1>u, <1>1, <1>2 DEF GraphInv, MemberInv, SameFields, CurrentLink
  <1>7. ReuseInv'
    BY <1>2 DEF GraphInv, ReuseInv
  <1>8. AuditAssets'
    <2>1. ASSUME NEW d \in Children
          PROVE  /\ (child[d].status = "ready") =
                       (\E e \in assets : e[2] = d[2] /\ child[d].assets = {e})
                 /\ child[d].status /= "ready" => child[d].assets = {}
                 /\ \A j \in child[d].reused :
                       /\ j /= d[1]
                       /\ child[<<j, d[2]>>].status = "ready"
                       /\ child[<<j, d[2]>>].assets = child[d].assets
      BY DEF GraphInv, AuditAssets
    <2>2. ASSUME NEW d \in Children, d # c
          PROVE  (child'[d].status = "ready") =
                       (\E e \in assets' : e[2] = d[2] /\ child'[d].assets = {e})
      <3>1. child'[d] = child[d]
        BY <1>2, <2>2
      <3>2. CASE child[d].status = "ready"
        BY <2>1, <3>1, <3>2, <1>u
      <3>3. CASE child[d].status # "ready"
        BY <2>1, <3>1, <3>3, <1>u
      <3> QED BY <3>2, <3>3
    <2>3. ASSUME NEW d \in Children, NEW j \in child'[d].reused
          PROVE  /\ j /= d[1]
                 /\ child'[<<j, d[2]>>].status = "ready"
                 /\ child'[<<j, d[2]>>].assets = child'[d].assets
      <3>1. d # c /\ child'[d] = child[d] /\ j \in Inputs /\ <<j, d[2]>> \in Children
        BY <1>t, <1>s, <1>2, <2>3 DEF GraphInv, ReuseInv, ChildType, Children
      <3>2. <<j, d[2]>> # c
        BY <2>1, <3>1, <1>s
      <3>3. child'[<<j, d[2]>>] = child[<<j, d[2]>>] /\ j \in child[d].reused
        BY <3>1, <3>2, <1>2, <2>3
      <3>4. /\ j /= d[1]
            /\ child[<<j, d[2]>>].status = "ready"
            /\ child[<<j, d[2]>>].assets = child[d].assets
        BY <2>1, <3>3
      <3> QED BY <3>1, <3>3, <3>4
    <2>4. ASSUME NEW d \in Children
          PROVE  child'[d].status /= "ready" => child'[d].assets = {}
      BY <1>2, <2>1
    <2>5. (child'[c].status = "ready") =
              (\E e \in assets' : e[2] = c[2] /\ child'[c].assets = {e})
      BY <1>u, <1>2
    <2>6. ASSUME NEW d \in Children
          PROVE  (child'[d].status = "ready") =
                    (\E e \in assets' : e[2] = d[2] /\ child'[d].assets = {e})
      <3>1. CASE d = c
        BY <2>5, <3>1, Zenon
      <3>2. CASE d # c
        BY <2>2, <3>2, Zenon
      <3> QED BY <3>1, <3>2, Zenon
    <2>7. ASSUME NEW d \in Children
          PROVE  /\ (child'[d].status = "ready") =
                       (\E e \in assets' : e[2] = d[2] /\ child'[d].assets = {e})
                 /\ child'[d].status /= "ready" => child'[d].assets = {}
                 /\ \A j \in child'[d].reused :
                       /\ j /= d[1]
                       /\ child'[<<j, d[2]>>].status = "ready"
                       /\ child'[<<j, d[2]>>].assets = child'[d].assets
      BY <2>3, <2>4, <2>6, Zenon
    <2> QED BY <2>7, Zenon DEF AuditAssets
  <1>9. KeyInv' /\ OneFlatDownload'
    BY <1>s, <1>u, <1>1 DEF GraphInv, KeyInv, KeyTaken, OneFlatDownload, SameFields
  <1>10. CancelInv'
    <2>1. ASSUME NEW i \in Inputs, input'[i].cancel, NEW t \in Targets
          PROVE  child'[<<i, t>>].status \notin {"queued", "active"}
      <3>1. input[i].cancel /\ child[<<i, t>>].status \notin {"queued", "active"}
        BY <1>1, <2>1 DEF GraphInv, CancelInv, SameFields
      <3> QED BY <3>1, <1>2 DEF Children
    <2> QED BY <2>1, <1>u, <1>1 DEF GraphInv, CancelInv, SameFields
  <1>11. AgreeInv'
    <2>1. Local(input, c[1])
      BY <1>t, <1>m, <1>u, <1>2 DEF Local, OthersKept
    <2> QED BY <1>c, <1>5, <1>6, <2>1, AgreeAfter, Zenon DEF GraphInv
  <1> QED
    BY <1>3, <1>4, <1>5, <1>6, <1>7, <1>8, <1>9, <1>10, <1>11 DEF GraphInv

\* The job a fan-out leaves at each pair: the one that was there, a queued
\* one, or one made ready by the ready job of another input.
Fanned(i, S, c) ==
    \/ child'[c] = child[c] /\ ~(c[1] = i /\ c[2] \in S /\ child[c].status = "none")
    \/ /\ c[1] = i /\ c[2] \in S /\ child[c].status = "none"
       /\ child'[c].gen = main[i].gen /\ child'[c] \in ChildType
       /\ \/ child'[c].status = "queued" /\ child'[c].reused = {} /\ child'[c].assets = {}
          \/ /\ child'[c].status = "ready"
             /\ \E j \in Inputs \ {i} :
                  /\ child[<<j, c[2]>>].status = "ready" /\ child'[c].reused = {j}
                  /\ child'[c].assets = child[<<j, c[2]>>].assets

LEMMA FanOut ==
    ASSUME GraphTypeOK, NEW i \in Inputs, NEW S,
           child' = [c \in Children |-> FannedOut(i, S, c)]
    PROVE  /\ child' \in [Children -> ChildType]
           /\ \A c \in Children : Fanned(i, S, c)
  <1>t. child \in [Children -> ChildType] /\ main[i].gen \in 0..MaxGeneration
    BY GraphTypes, GraphAssumption DEF MainType
  <1>1. ASSUME NEW c \in Children
        PROVE  child'[c] \in ChildType /\ Fanned(i, S, c)
    <2>0. child'[c] = FannedOut(i, S, c) /\ c[2] \in Targets /\ child[c] \in ChildType
      BY <1>t, ChildPairs
    <2>1. CASE c[1] # i \/ c[2] \notin S \/ child[c].status # "none"
      <3>1. child'[c] = child[c]
        BY <2>0, <2>1 DEF FannedOut
      <3> QED BY <2>0, <2>1, <3>1 DEF Fanned
    <2>2. CASE c[1] = i /\ c[2] \in S /\ child[c].status = "none" /\ Donors(i, c[2]) = {}
      <3>1. child'[c] = [status |-> "queued", gen |-> main[i].gen, reused |-> {}, assets |-> {}]
        BY <2>0, <2>2 DEF FannedOut, NoChild
      <3>2. child'[c] \in ChildType
        BY <1>t, <3>1 DEF ChildType, Live
      <3> QED BY <2>2, <3>1, <3>2 DEF Fanned
    <2>3. CASE c[1] = i /\ c[2] \in S /\ child[c].status = "none" /\ Donors(i, c[2]) # {}
      <3> DEFINE j == CHOOSE x \in Donors(i, c[2]) : TRUE
      <3>1. j \in Donors(i, c[2])
        BY <2>3
      <3>2. child'[c] = [status |-> "ready", gen |-> main[i].gen, reused |-> {j},
                        assets |-> child[<<j, c[2]>>].assets]
        BY <2>0, <2>3 DEF FannedOut
      <3> HIDE DEF j
      <3>3. j \in Inputs \ {i} /\ child[<<j, c[2]>>].status = "ready"
        BY <3>1 DEF Donors
      <3>4. child[<<j, c[2]>>] \in ChildType
        BY <1>t, <2>0, <3>3 DEF Children
      <3>5. child'[c] \in ChildType
        BY <1>t, <3>2, <3>3, <3>4 DEF ChildType, Ended
      <3> QED BY <2>3, <3>2, <3>3, <3>5 DEF Fanned
    <2> QED BY <2>1, <2>2, <2>3
  <1> QED
    BY <1>1

\* What a job that was there keeps in a fan-out.
LEMMA FanKeeps ==
    ASSUME GraphTypeOK, NEW i \in Inputs, NEW S, NEW c \in Children, Fanned(i, S, c)
    PROVE  /\ child[c].status # "none" => child'[c] = child[c]
           /\ c[1] # i => child'[c] = child[c]
           /\ c[1] = i /\ c[2] \in S => child'[c].status # "none"
           /\ child'[c].status # "none" => child[c].status # "none" \/ (c[1] = i /\ c[2] \in S)
  BY DEF Fanned

CommitsTo(i, S) ==
    /\ main[i].status = "active" /\ main[i].lease # 0 /\ ~input[i].cancel
    /\ S \in Snapshots
    /\ discoveries' = discoveries \cup {S}
    /\ main' = MainEnded(i, "ready")
    /\ child' = [c \in Children |-> FannedOut(i, S, c)]
    /\ link' = link \cup {[input |-> i, gen |-> main[i].gen, disc |-> S, target |-> t] : t \in S}
    /\ Marks([input EXCEPT ![i].disc = S], i)
    /\ assets' = assets /\ probing' \subseteq probing

LEMMA CommitInv ==
    ASSUME GraphInv, NEW i \in Inputs, NEW S, CommitsTo(i, S)
    PROVE  GraphInv'
  <1>t. /\ input \in [Inputs -> InputType] /\ main \in [Inputs -> MainType]
        /\ child \in [Children -> ChildType] /\ link \subseteq LinkType
        /\ discoveries \subseteq Snapshots /\ assets \subseteq Children
        /\ probing \subseteq Inputs \X (1..MaxProbes)
    BY Types
  <1>s. /\ S \in Snapshots /\ S \subseteq Targets /\ S # {}
        /\ \A t \in S : t \in Targets /\ <<i, t>> \in Children
                        /\ <<i, t>>[1] = i /\ <<i, t>>[2] = t
    BY GraphAssumption DEF CommitsTo, Children
  <1>g. /\ main[i].status = "active" /\ ~input[i].cancel /\ input[i].kind = "graph"
        /\ input[i].disc = {} /\ main[i].gen = input[i].gen
    BY DEF CommitsTo, GraphInv, KindInv
  <1>n. /\ input[i].gen \in Nat /\ \A l \in link : l.gen \in Nat /\ l.input \in Inputs
                                            /\ <<l.input, l.target>> \in Children
        /\ \A c \in Children : child[c].gen \in Nat
    BY <1>t, GraphAssumption DEF InputType, LinkType, ChildType, Children
  <1> DEFINE inp == [input EXCEPT ![i].disc = S]
             new == {[input |-> i, gen |-> main[i].gen, disc |-> S, target |-> t] : t \in S}
  <1>u. /\ assets' = assets /\ link' = link \cup new
        /\ discoveries' = discoveries \cup {S} /\ probing' \subseteq probing
    BY DEF CommitsTo
  <1>i. /\ inp \in [Inputs -> InputType] /\ OthersKept(i, input, inp)
        /\ inp[i].disc = S /\ inp[i].kind = input[i].kind /\ inp[i].gen = input[i].gen
        /\ inp[i].cancel = input[i].cancel
    <2>1. [input[i] EXCEPT !.disc = S] \in InputType
      BY <1>t, <1>s DEF InputType
    <2> QED BY <1>t, <2>1 DEF OthersKept, InputType
  <1>w. \A l \in new : /\ l \in LinkType /\ l.input = i /\ l.gen = input[i].gen
                       /\ l.disc = S /\ l.target \in S
    BY <1>t, <1>s, <1>g DEF LinkType, MainType
  <1>x. \A t \in S : [input |-> i, gen |-> input[i].gen, disc |-> S, target |-> t] \in new
    BY <1>g
  <1>k. Marks(inp, i)
    BY Zenon DEF CommitsTo
  <1> HIDE DEF inp, new
  <1>0. MarkDone(inp, i)
    BY <1>i, <1>k, MarkedStep, Zenon
  <1>1. /\ input' \in [Inputs -> InputType]
        /\ input'[i].disc = S /\ input'[i].kind = input[i].kind
        /\ input'[i].gen = input[i].gen /\ input'[i].cancel = input[i].cancel
        /\ \A j \in Inputs : j # i => input'[j] = input[j]
    BY <1>0, <1>i DEF MarkDone, SameFields, OthersKept
  <1>2. /\ main' \in [Inputs -> MainType] /\ main'[i].status = "ready"
        /\ main'[i].gen = main[i].gen /\ main'[i].lease = 0
        /\ \A j \in Inputs : j # i => main'[j] = main[j]
    <2>1. main' = [main EXCEPT ![i] = [main[i] EXCEPT !.status = "ready", !.lease = 0]]
      BY <1>t DEF CommitsTo, MainEnded
    <2>2. [main[i] EXCEPT !.status = "ready", !.lease = 0] \in MainType
      <3>1. main[i] \in MainType /\ 0 \in 0..MaxProbes
        BY <1>t, GraphAssumption
      <3> QED BY <3>1 DEF MainType, Ended
    <2> QED BY <1>t, <2>1, <2>2 DEF MainType
  <1>3. child' \in [Children -> ChildType] /\ \A c \in Children : Fanned(i, S, c)
    <2>1. child' = [c \in Children |-> FannedOut(i, S, c)]
      BY DEF CommitsTo
    <2> QED BY <2>1, FanOut DEF GraphInv
  <1>4. \A c \in Children :
           /\ child[c].status # "none" => child'[c] = child[c]
           /\ c[1] # i => child'[c] = child[c]
           /\ c[1] = i /\ c[2] \in S => child'[c].status # "none"
           /\ child'[c].status # "none" => child[c].status # "none" \/ (c[1] = i /\ c[2] \in S)
    BY <1>3, FanKeeps DEF GraphInv
  <1>5. GraphTypeOK'
    <2>1. link' \subseteq LinkType /\ discoveries' \subseteq Snapshots
          /\ probing' \subseteq Inputs \X (1..MaxProbes)
      BY <1>t, <1>s, <1>u, <1>w
    <2> QED BY <1>t, <1>u, <1>1, <1>2, <1>3, <2>1
            DEF GraphTypeOK, InputType, MainType, ChildType, LinkType
  <1>6. KindInv'
    BY <1>1, <1>2, <1>g, <1>s DEF GraphInv, KindInv
  <1>7. \A c \in Children : child[c].status # "none" => child[c].gen <= input[c[1]].gen
    <2>1. ASSUME NEW c \in Children, child[c].status # "none"
          PROVE  child[c].gen <= input[c[1]].gen
      <3>1. PICK l \in link : l.input = c[1] /\ l.target = c[2]
        BY <2>1 DEF GraphInv, MemberInv
      <3>2. <<l.input, l.target>> = c
        BY <3>1, ChildPairs
      <3>3. child[c].gen <= l.gen /\ l.gen <= input[c[1]].gen
        BY <3>1, <3>2 DEF GraphInv, LinkInv
      <3>4. c[1] \in Inputs /\ input[c[1]].gen \in Nat
        BY <1>t, ChildPairs, GraphAssumption DEF InputType
      <3>5. child[c].gen \in Nat /\ l.gen \in Nat
        BY <1>n
      <3> QED BY <3>3, <3>4, <3>5
    <2> QED BY <2>1
  <1>8. LinkInv'
    <2>1. ASSUME NEW l \in link
          PROVE  /\ child'[<<l.input, l.target>>].status # "none"
                 /\ l.target \in l.disc
                 /\ l.disc \in discoveries'
                 /\ child'[<<l.input, l.target>>].gen <= l.gen
                 /\ l.gen <= input'[l.input].gen
                 /\ l.gen = input'[l.input].gen => l.disc = input'[l.input].disc
      <3>1. /\ child[<<l.input, l.target>>].status # "none"
            /\ l.target \in l.disc
            /\ l.disc \in discoveries
            /\ child[<<l.input, l.target>>].gen <= l.gen
            /\ l.gen <= input[l.input].gen
            /\ l.gen = input[l.input].gen => l.disc = input[l.input].disc
        BY DEF GraphInv, LinkInv
      <3>2. child'[<<l.input, l.target>>] = child[<<l.input, l.target>>]
        BY <1>n, <1>4, <3>1
      <3>3. input'[l.input].gen = input[l.input].gen
        BY <1>n, <1>1
      <3>4. l.gen = input[l.input].gen => l.input # i
        BY <3>1, <1>g
      <3> QED BY <1>n, <1>u, <1>1, <3>1, <3>2, <3>3, <3>4
    <2>2. ASSUME NEW l \in new
          PROVE  /\ child'[<<l.input, l.target>>].status # "none"
                 /\ l.target \in l.disc
                 /\ l.disc \in discoveries'
                 /\ child'[<<l.input, l.target>>].gen <= l.gen
                 /\ l.gen <= input'[l.input].gen
                 /\ l.gen = input'[l.input].gen => l.disc = input'[l.input].disc
      <3>1. l.input = i /\ l.gen = input[i].gen /\ l.disc = S /\ l.target \in S
        BY <1>w
      <3> DEFINE c == <<i, l.target>>
      <3>2. c \in Children /\ c[1] = i /\ c[2] = l.target
        BY <1>s, <3>1
      <3>3. child'[c].status # "none"
        BY <1>4, <3>1, <3>2
      <3>4. child'[c].gen <= input[i].gen
        <4>1. CASE child[c].status # "none"
          BY <4>1, <1>4, <1>7, <3>2
        <4>2. CASE child[c].status = "none"
          BY <4>2, <1>3, <1>g, <1>n, <3>1, <3>2 DEF Fanned
        <4> QED BY <4>1, <4>2
      <3> QED BY <1>u, <1>n, <1>1, <3>1, <3>3, <3>4
    <2> QED BY <1>u, <2>1, <2>2 DEF LinkInv
  <1>9. MemberInv'
    <2>1. ASSUME NEW j \in Inputs, NEW t \in input'[j].disc
          PROVE  CurrentLink(j, t)' \in link'
      <3>1. CASE j = i
        BY <3>1, <2>1, <1>1, <1>u, <1>x DEF CurrentLink
      <3>2. CASE j # i
        BY <3>2, <2>1, <1>1, <1>u DEF CurrentLink, GraphInv, MemberInv
      <3> QED BY <3>1, <3>2
    <2>2. ASSUME NEW c \in Children, child'[c].status # "none"
          PROVE  \E l \in link' : l.input = c[1] /\ l.target = c[2]
      <3>1. CASE child[c].status # "none"
        BY <3>1, <1>u DEF GraphInv, MemberInv
      <3>2. CASE c[1] = i /\ c[2] \in S
        <4>1. [input |-> i, gen |-> input[i].gen, disc |-> S, target |-> c[2]] \in link'
          BY <3>2, <1>x, <1>u
        <4> QED BY <3>2, <4>1
      <3> QED BY <3>1, <3>2, <2>2, <1>4
    <2> QED BY <2>1, <2>2 DEF MemberInv
  <1>10. ReuseInv'
    <2>1. ASSUME NEW c \in Children, child'[c].status # "ready"
          PROVE  child'[c].reused = {}
      <3>1. Fanned(i, S, c)
        BY <1>3
      <3> QED BY <2>1, <3>1 DEF Fanned, GraphInv, ReuseInv
    <2> QED BY <2>1 DEF ReuseInv
  <1>11. ASSUME NEW c \in Children
         PROVE  /\ (child'[c].status = "ready") =
                       (\E d \in assets' : d[2] = c[2] /\ child'[c].assets = {d})
                /\ child'[c].status /= "ready" => child'[c].assets = {}
                /\ \A j \in child'[c].reused :
                      /\ j /= c[1]
                      /\ child'[<<j, c[2]>>].status = "ready"
                      /\ child'[<<j, c[2]>>].assets = child'[c].assets
    <2>0. \A d \in Children :
            /\ (child[d].status = "ready") =
                   (\E e \in assets : e[2] = d[2] /\ child[d].assets = {e})
            /\ child[d].status /= "ready" => child[d].assets = {}
            /\ \A j \in child[d].reused :
                  /\ j /= d[1]
                  /\ child[<<j, d[2]>>].status = "ready"
                  /\ child[<<j, d[2]>>].assets = child[d].assets
      BY Zenon DEF GraphInv, AuditAssets
    <2>c. c[1] \in Inputs /\ c[2] \in Targets /\ assets' = assets
          /\ \A j \in Inputs : <<j, c[2]>> \in Children /\ <<j, c[2]>>[2] = c[2]
      BY ChildPairs, <1>u
    <2>1. CASE child'[c] = child[c]
      <3>1. ASSUME NEW j \in child'[c].reused
            PROVE  /\ j /= c[1]
                   /\ child'[<<j, c[2]>>].status = "ready"
                   /\ child'[<<j, c[2]>>].assets = child'[c].assets
        <4>1. j \in child[c].reused /\ j \in Inputs
          BY <1>t, <2>1, <3>1 DEF ChildType
        <4>2. /\ j /= c[1]
              /\ child[<<j, c[2]>>].status = "ready"
              /\ child[<<j, c[2]>>].assets = child[c].assets
          BY <2>0, <4>1
        <4>3. child'[<<j, c[2]>>] = child[<<j, c[2]>>]
          BY <1>4, <2>c, <4>1, <4>2
        <4> QED BY <2>1, <4>2, <4>3
      <3>2. /\ (child[c].status = "ready") =
                   (\E e \in assets : e[2] = c[2] /\ child[c].assets = {e})
            /\ child[c].status /= "ready" => child[c].assets = {}
        BY <2>0, Zenon
      <3>3. /\ (child'[c].status = "ready") =
                   (\E e \in assets' : e[2] = c[2] /\ child'[c].assets = {e})
            /\ child'[c].status /= "ready" => child'[c].assets = {}
        BY <2>1, <2>c, <3>2, Zenon
      <3> QED BY <3>1, <3>3, Zenon
    <2>2. CASE child'[c].status = "queued" /\ child'[c].reused = {} /\ child'[c].assets = {}
      BY <2>2
    <2>3. CASE /\ c[1] = i /\ child'[c].status = "ready"
               /\ \E j \in Inputs \ {i} :
                    /\ child[<<j, c[2]>>].status = "ready" /\ child'[c].reused = {j}
                    /\ child'[c].assets = child[<<j, c[2]>>].assets
      <3>1. PICK j \in Inputs \ {i} :
                    /\ child[<<j, c[2]>>].status = "ready" /\ child'[c].reused = {j}
                    /\ child'[c].assets = child[<<j, c[2]>>].assets
        BY <2>3, Zenon
      <3>2. child'[<<j, c[2]>>] = child[<<j, c[2]>>]
        BY <1>4, <2>c, <3>1
      <3>3. \E d \in assets : d[2] = c[2] /\ child[<<j, c[2]>>].assets = {d}
        BY <2>0, <2>c, <3>1
      <3>4. child'[c].status = "ready" /\ c[1] = i
        BY <2>3
      <3>5. \E d \in assets' : d[2] = c[2] /\ child'[c].assets = {d}
        BY <2>c, <3>1, <3>3
      <3> QED BY <3>1, <3>2, <3>4, <3>5
    <2> QED BY <2>1, <2>2, <2>3, <1>3 DEF Fanned
  <1>12. AuditAssets'
    BY <1>11, Zenon DEF AuditAssets
  <1>13. KeyInv' /\ OneFlatDownload'
    BY <1>u, <1>1, <1>2, <1>g DEF GraphInv, KeyInv, OneFlatDownload
  <1>14. CancelInv'
    <2>1. ASSUME NEW j \in Inputs, input'[j].cancel
          PROVE  j # i /\ main'[j] = main[j] /\ input[j].cancel
      BY <2>1, <1>1, <1>2, <1>g
    <2>2. ASSUME NEW j \in Inputs, input'[j].cancel, NEW t \in Targets
          PROVE  child'[<<j, t>>] = child[<<j, t>>]
      BY <2>1, <2>2, <1>4, ChildPairs
    <2> QED BY <2>1, <2>2 DEF CancelInv, GraphInv
  <1>15. AgreeInv'
    <2>1. Local(inp, i)
      BY <1>i, <1>k, <1>2, <1>4 DEF Local, OthersKept
    <2> QED BY <1>8, <1>9, <2>1, AgreeAfter, Zenon DEF GraphInv
  <1> QED
    BY <1>5, <1>6, <1>8, <1>9, <1>10, <1>12, <1>13, <1>14, <1>15 DEF GraphInv

\* What a cancellation makes of the jobs of an input.
LEMMA StoppedStatus ==
    ASSUME NEW st
    PROVE  /\ st \in {"none"} \cup Live \cup Ended => Stopped(st) \in {"none"} \cup Live \cup Ended
           /\ Stopped(st) \notin {"queued", "active"}
           /\ (Stopped(st) = "ready") = (st = "ready")
           /\ (Stopped(st) = "none") = (st = "none")
           /\ Stopped(st) \in Live => st \in Live
  BY DEF Stopped, Live, Claimed, Ended

LEMMA CancelInputInv ==
    ASSUME GraphInv, NEW i \in Inputs, CancelInput(i)
    PROVE  GraphInv'
  <1>t. /\ input \in [Inputs -> InputType] /\ main \in [Inputs -> MainType]
        /\ child \in [Children -> ChildType] /\ link \subseteq LinkType
        /\ discoveries \subseteq Snapshots /\ assets \subseteq Children
        /\ probing \subseteq Inputs \X (1..MaxProbes)
    BY Types
  <1> DEFINE inp == [input EXCEPT ![i].cancel = TRUE]
  <1>u. /\ link' = link /\ discoveries' = discoveries /\ assets' = assets
        /\ probing' = probing
        /\ main' = [main EXCEPT ![i].status = Stopped(@)]
        /\ child' = [c \in Children |-> IF c[1] = i
                        THEN [child[c] EXCEPT !.status = Stopped(@)] ELSE child[c]]
        /\ input[i].kind \in {"graph", "flat"}
    BY DEF CancelInput, MarkedWrite
  <1>i. /\ inp \in [Inputs -> InputType] /\ OthersKept(i, input, inp)
        /\ inp[i].disc = input[i].disc /\ inp[i].kind = input[i].kind
        /\ inp[i].gen = input[i].gen /\ inp[i].cancel = TRUE
    <2>1. [input[i] EXCEPT !.cancel = TRUE] \in InputType
      BY <1>t DEF InputType
    <2> QED BY <1>t, <2>1 DEF OthersKept, InputType
  <1>k. Marks(inp, i)
    <2>1. input' = Marked(inp, main', child', link', i)
      BY Zenon DEF CancelInput, MarkedWrite
    <2> QED BY <2>1, Zenon DEF Marks
  <1> HIDE DEF inp
  <1>0. MarkDone(inp, i)
    BY <1>i, <1>k, MarkedStep, Zenon
  <1>1. /\ input' \in [Inputs -> InputType]
        /\ input'[i].disc = input[i].disc /\ input'[i].kind = input[i].kind
        /\ input'[i].gen = input[i].gen
        /\ \A j \in Inputs : j # i => input'[j] = input[j]
    BY <1>0, <1>i DEF MarkDone, SameFields, OthersKept
  <1>2. /\ main' \in [Inputs -> MainType] /\ main'[i].status = Stopped(main[i].status)
        /\ main'[i].gen = main[i].gen /\ main'[i].lease = main[i].lease
        /\ \A j \in Inputs : j # i => main'[j] = main[j]
    <2> DEFINE st == Stopped(main[i].status)
    <2>1. main' = [main EXCEPT ![i] = [main[i] EXCEPT !.status = st]]
      BY <1>t, <1>u
    <2>2. st \in {"none"} \cup Live \cup Ended
      BY <1>t, StoppedStatus DEF MainType
    <2> HIDE DEF st
    <2>3. [main[i] EXCEPT !.status = st] \in MainType
      BY <1>t, <2>2 DEF MainType
    <2> QED BY <1>t, <2>1, <2>3 DEF MainType, st
  <1>3. \A c \in Children :
          /\ child'[c] \in ChildType
          /\ child'[c].gen = child[c].gen /\ child'[c].reused = child[c].reused
          /\ child'[c].assets = child[c].assets
          /\ child'[c].status = IF c[1] = i THEN Stopped(child[c].status) ELSE child[c].status
          /\ c[1] # i => child'[c] = child[c]
    <2>1. ASSUME NEW c \in Children
          PROVE  /\ child'[c] \in ChildType
                 /\ child'[c].gen = child[c].gen /\ child'[c].reused = child[c].reused
                 /\ child'[c].assets = child[c].assets
                 /\ child'[c].status = IF c[1] = i THEN Stopped(child[c].status) ELSE child[c].status
                 /\ c[1] # i => child'[c] = child[c]
      <3> DEFINE st == Stopped(child[c].status)
      <3>1. child'[c] = IF c[1] = i THEN [child[c] EXCEPT !.status = st] ELSE child[c]
        BY <1>u
      <3>2. st \in {"none"} \cup Live \cup Ended /\ child[c] \in ChildType
        BY <1>t, StoppedStatus DEF ChildType
      <3>3. st = Stopped(child[c].status)
        OBVIOUS
      <3> HIDE DEF st
      <3>4. [child[c] EXCEPT !.status = st] \in ChildType
        BY <3>2 DEF ChildType
      <3> QED BY <3>1, <3>2, <3>3, <3>4 DEF ChildType
    <2> QED BY <2>1
  <1>4. child' \in [Children -> ChildType]
    <2>1. child' = [c \in Children |-> child'[c]]
      BY <1>u
    <2> QED BY <2>1, <1>3
  <1>5. \A c \in Children :
           /\ (child'[c].status = "ready") = (child[c].status = "ready")
           /\ (child'[c].status = "none") = (child[c].status = "none")
    BY <1>3, StoppedStatus
  <1>6. GraphTypeOK'
    BY <1>t, <1>u, <1>1, <1>2, <1>4 DEF GraphTypeOK, InputType, MainType, ChildType, LinkType
  <1>7. KindInv'
    <2>1. /\ (main'[i].status = "ready") = (main[i].status = "ready")
          /\ (main'[i].status = "none") = (main[i].status = "none")
      BY <1>2, StoppedStatus
    <2>2. ASSUME NEW j \in Inputs
          PROVE  /\ input'[j].kind \in {"graph", "flat"} <=> main'[j].status # "none"
                 /\ main'[j].gen = input'[j].gen
                 /\ input'[j].kind # "graph" => input'[j].disc = {}
                 /\ input'[j].kind = "graph" => (main'[j].status = "ready" <=> input'[j].disc # {})
                 /\ main'[j].lease # 0 => input'[j].kind = "graph"
                 /\ input'[j].cancel => input'[j].kind \in {"graph", "flat"}
      <3>1. input'[j].cancel => input'[j].kind \in {"graph", "flat"}
        BY <1>1, <1>u DEF GraphInv, KindInv
      <3> QED BY <1>1, <1>2, <2>1, <3>1 DEF GraphInv, KindInv
    <2> QED BY <2>2 DEF KindInv
  <1>8. LinkInv'
    <2>1. ASSUME NEW l \in link
          PROVE  /\ child'[<<l.input, l.target>>].status # "none"
                 /\ child'[<<l.input, l.target>>].gen = child[<<l.input, l.target>>].gen
                 /\ input'[l.input].gen = input[l.input].gen
                 /\ input'[l.input].disc = input[l.input].disc
      <3>1. l.input \in Inputs /\ <<l.input, l.target>> \in Children
        BY <1>t DEF LinkType, Children
      <3>2. child[<<l.input, l.target>>].status # "none"
        BY DEF GraphInv, LinkInv
      <3> QED BY <1>1, <1>3, <1>5, <3>1, <3>2
    <2> QED BY <1>u, <2>1 DEF GraphInv, LinkInv
  <1>9. MemberInv'
    <2>1. \A j \in Inputs : input'[j].disc = input[j].disc /\ input'[j].gen = input[j].gen
      BY <1>1
    <2>2. ASSUME NEW j \in Inputs, NEW t \in input'[j].disc
          PROVE  CurrentLink(j, t)' \in link'
      BY <1>u, <2>1 DEF CurrentLink, GraphInv, MemberInv
    <2>3. ASSUME NEW c \in Children, child'[c].status # "none"
          PROVE  \E l \in link' : l.input = c[1] /\ l.target = c[2]
      BY <1>u, <1>5, <2>3 DEF GraphInv, MemberInv
    <2> QED BY <2>2, <2>3 DEF MemberInv
  <1>10. ReuseInv'
    BY <1>3, <1>5 DEF GraphInv, ReuseInv
  <1>11. AuditAssets'
    <2>1. ASSUME NEW c \in Children
          PROVE  /\ (child'[c].status = "ready") =
                       (\E d \in assets' : d[2] = c[2] /\ child'[c].assets = {d})
                 /\ child'[c].status /= "ready" => child'[c].assets = {}
                 /\ \A j \in child'[c].reused :
                       /\ j /= c[1]
                       /\ child'[<<j, c[2]>>].status = "ready"
                       /\ child'[<<j, c[2]>>].assets = child'[c].assets
      <3>1. /\ (child[c].status = "ready") =
                   (\E e \in assets : e[2] = c[2] /\ child[c].assets = {e})
            /\ child[c].status /= "ready" => child[c].assets = {}
            /\ \A j \in child[c].reused :
                  /\ j /= c[1]
                  /\ child[<<j, c[2]>>].status = "ready"
                  /\ child[<<j, c[2]>>].assets = child[c].assets
        BY Zenon DEF GraphInv, AuditAssets
      <3>2. /\ child'[c].assets = child[c].assets /\ child'[c].reused = child[c].reused
            /\ (child'[c].status = "ready") = (child[c].status = "ready") /\ assets' = assets
        BY <1>3, <1>5, <1>u
      <3>3. ASSUME NEW j \in child[c].reused
            PROVE  /\ (child'[<<j, c[2]>>].status = "ready") = (child[<<j, c[2]>>].status = "ready")
                   /\ child'[<<j, c[2]>>].assets = child[<<j, c[2]>>].assets
        <4>1. <<j, c[2]>> \in Children
          BY <1>t DEF ChildType, Children
        <4> QED BY <1>3, <1>5, <4>1
      <3>4. (child'[c].status = "ready") =
                   (\E d \in assets' : d[2] = c[2] /\ child'[c].assets = {d})
        BY <3>1, <3>2, Zenon
      <3>5. child'[c].status /= "ready" => child'[c].assets = {}
        BY <3>1, <3>2
      <3>6. ASSUME NEW j \in child'[c].reused
            PROVE  /\ j /= c[1]
                   /\ child'[<<j, c[2]>>].status = "ready"
                   /\ child'[<<j, c[2]>>].assets = child'[c].assets
        BY <3>1, <3>2, <3>3
      <3> QED BY <3>4, <3>5, <3>6, Zenon
    <2> QED BY <2>1, Zenon DEF AuditAssets
  <1>12. KeyInv'
    BY <1>u DEF GraphInv, KeyInv
  <1>13. OneFlatDownload'
    <2>1. ASSUME NEW j \in Inputs, input'[j].kind = "flat", main'[j].status \in Live \cup {"ready"}
          PROVE  input[j].kind = "flat" /\ main[j].status \in Live \cup {"ready"}
      <3>1. CASE j = i
        BY <2>1, <3>1, <1>1, <1>2, StoppedStatus DEF Live, Claimed
      <3>2. CASE j # i
        BY <2>1, <3>2, <1>1, <1>2
      <3> QED BY <3>1, <3>2
    <2> QED BY <2>1 DEF GraphInv, OneFlatDownload
  <1>14. CancelInv'
    <2>1. ASSUME NEW j \in Inputs, input'[j].cancel
          PROVE  /\ main'[j].status \notin {"queued", "active"}
                 /\ \A t \in Targets : child'[<<j, t>>].status \notin {"queued", "active"}
      <3>1. CASE j = i
        BY <3>1, <1>2, <1>3, ChildPairs, StoppedStatus
      <3>2. CASE j # i
        BY <2>1, <3>2, <1>1, <1>2, <1>3, ChildPairs DEF GraphInv, CancelInv
      <3> QED BY <3>1, <3>2
    <2> QED BY <2>1 DEF CancelInv
  <1>15. AgreeInv'
    <2>1. Local(inp, i)
      BY <1>i, <1>k, <1>2, <1>3 DEF Local, OthersKept
    <2> QED BY <1>8, <1>9, <2>1, AgreeAfter, Zenon DEF GraphInv
  <1> QED
    BY <1>6, <1>7, <1>8, <1>9, <1>10, <1>11, <1>12, <1>13, <1>14, <1>15 DEF GraphInv

\* A claimed or queued main job ends, or goes back to the queue.
LEMMA MainEnds ==
    ASSUME GraphInv, NEW i \in Inputs, NEW st \in Live \cup Ended,
           main[i].status \in Live, st = "ready" => input[i].kind = "flat",
           input[i].cancel => st \notin {"queued", "active"},
           main' = MainEnded(i, st), UNCHANGED <<child, link, discoveries, assets>>,
           probing' \subseteq probing,
           \/ input' = input /\ st \in Live
           \/ Marks(input, i)
    PROVE  GraphInv'
  <1> DEFINE new == [main[i] EXCEPT !.status = st, !.lease = 0]
  <1>1. /\ new \in MainType /\ new.status = st /\ new.lease = 0
        /\ new.gen = main[i].gen
    <2>1. main[i] \in MainType /\ 0 \in 0..MaxProbes
      BY Types, GraphAssumption
    <2> QED BY <2>1 DEF MainType
  <1>2. main' = [main EXCEPT ![i] = new]
    <2>1. main \in [Inputs -> MainType]
      BY Types
    <2> QED BY <2>1 DEF MainEnded
  <1>3. probing' \subseteq Inputs \X (1..MaxProbes)
    BY Types
  <1> HIDE DEF new
  <1>4. MainMove(i, new)
    BY <1>1, <1>2, <1>3, Zenon DEF MainMove
  <1> QED BY <1>4, MainMoves

LEMMA MainUnfinishedInv ==
    ASSUME GraphInv, NEW i \in Inputs, main[i].status \in Claimed, MainUnfinished(i),
           UNCHANGED <<discoveries, assets>>, probing' \subseteq probing
    PROVE  GraphInv'
  <1>1. PICK st \in Unfinished(main[i].status) :
          IF st = "queued"
          THEN /\ main' = MainEnded(i, st)
               /\ UNCHANGED <<input, child, link>>
          ELSE MarkedWrite(input, MainEnded(i, st), child, link, i)
    BY Zenon DEF MainUnfinished
  <1>2. /\ main' = MainEnded(i, st) /\ child' = child /\ link' = link
        /\ (input' = input /\ st \in Live) \/ Marks(input, i)
    <2>1. CASE st = "queued"
      BY <1>1, <2>1 DEF Live
    <2>2. CASE st # "queued"
      <3>1. MarkedWrite(input, MainEnded(i, st), child, link, i)
        BY <1>1, <2>2, Zenon
      <3>2. main' = MainEnded(i, st) /\ child' = child /\ link' = link
        BY <3>1, Zenon DEF MarkedWrite
      <3>3. Marks(input, i)
        BY <3>1, <3>2, Zenon DEF MarkedWrite, Marks
      <3> QED BY <3>2, <3>3
    <2> QED BY <2>1, <2>2
  <1>3. /\ st \in {"queued", "failed", "canceled"} /\ main[i].status \in Live
        /\ input[i].cancel => st # "queued"
    BY <1>1 DEF Unfinished, Live, Claimed, GraphInv, CancelInv
  <1>4. st \in Live \cup Ended
    BY <1>3 DEF Live, Ended
  <1> QED BY <1>2, <1>3, <1>4, MainEnds

LEMMA NothingInv ==
    ASSUME GraphInv, UNCHANGED <<input, main, child, link, discoveries, assets>>,
           probing' \subseteq probing
    PROVE  GraphInv'
  <1>1. GraphTypeOK'
    BY DEF GraphInv, GraphTypeOK
  <1>2. KindInv' /\ LinkInv' /\ MemberInv'
    BY DEF GraphInv, KindInv, LinkInv, MemberInv, CurrentLink
  <1>4. AuditAssets' /\ ReuseInv' /\ KeyInv' /\ OneFlatDownload' /\ CancelInv'
    BY DEF GraphInv, AuditAssets, ReuseInv, KeyInv, OneFlatDownload, CancelInv
  <1>3. AgreeInv'
    <2>1. \A i \in Inputs : Counted(i)' = Counted(i)
      BY DEF Counted
    <2> QED BY <2>1 DEF GraphInv, AgreeInv
  <1> QED BY <1>1, <1>2, <1>3, <1>4 DEF GraphInv

LEMMA CommitStep ==
    ASSUME GraphInv, NEW i \in Inputs, NEW n \in 1..MaxProbes, NEW S \in Snapshots,
           CommitDiscovery(i, n, S)
    PROVE  GraphInv'
  <1>0. probing' \subseteq probing /\ assets' = assets
    BY DEF CommitDiscovery
  <1>1. CASE ~HoldsProbe(i, n) /\ UNCHANGED <<input, main, child, link, discoveries>>
    BY <1>0, <1>1, NothingInv
  <1>2. CASE /\ HoldsProbe(i, n) /\ StopsProbe(i)
             /\ MarkedWrite(input, MainEnded(i, "canceled"), child, link, i)
             /\ UNCHANGED discoveries
    <2>1. main' = MainEnded(i, "canceled") /\ child' = child /\ link' = link /\ Marks(input, i)
      <3>1. MarkedWrite(input, MainEnded(i, "canceled"), child, link, i)
        BY <1>2
      <3>2. main' = MainEnded(i, "canceled") /\ child' = child /\ link' = link
        BY <3>1, Zenon DEF MarkedWrite
      <3> QED BY <3>1, <3>2, Zenon DEF MarkedWrite, Marks
    <2>2. main[i].status \in Live /\ "canceled" \in Live \cup Ended
      BY <1>2 DEF HoldsProbe, Live, Ended
    <2> QED BY <1>0, <1>2, <2>1, <2>2, MainEnds
  <1>3. CASE /\ HoldsProbe(i, n) /\ ~StopsProbe(i)
             /\ discoveries' = discoveries \cup {S}
             /\ MarkedWrite([input EXCEPT ![i].disc = S],
                         MainEnded(i, "ready"),
                         [c \in Children |-> FannedOut(i, S, c)],
                         link \cup {[input |-> i, gen |-> main[i].gen,
                                     disc |-> S, target |-> t] : t \in S},
                         i)
    <2> DEFINE inp == [input EXCEPT ![i].disc = S]
               fan == [c \in Children |-> FannedOut(i, S, c)]
               all == link \cup {[input |-> i, gen |-> main[i].gen,
                                     disc |-> S, target |-> t] : t \in S}
    <2>1. MarkedWrite(inp, MainEnded(i, "ready"), fan, all, i)
      BY <1>3, Zenon
    <2> HIDE DEF inp, fan, all
    <2>2. main' = MainEnded(i, "ready") /\ child' = fan /\ link' = all
      BY <2>1, Zenon DEF MarkedWrite
    <2>3. Marks(inp, i)
      BY <2>1, <2>2, Zenon DEF MarkedWrite, Marks
    <2>4. main[i].status = "active" /\ main[i].lease # 0 /\ ~input[i].cancel
      BY <1>3 DEF HoldsProbe, StopsProbe, Claimed
    <2>5. discoveries' = discoveries \cup {S}
      BY <1>3
    <2>6. CommitsTo(i, S)
      BY <1>0, <2>2, <2>3, <2>4, <2>5, Zenon DEF CommitsTo, inp, fan, all
    <2> QED BY <2>6, CommitInv
  <1> QED BY <1>1, <1>2, <1>3, Zenon DEF CommitDiscovery

LEMMA ClaimInv ==
    ASSUME GraphInv, NEW i \in Inputs, ClaimDiscovery(i)
    PROVE  GraphInv'
  <1> DEFINE new == [main[i] EXCEPT !.status = "active", !.tries = @ + 1,
                                    !.lease = main[i].tries + 1]
  <1>t. main \in [Inputs -> MainType] /\ main[i] \in MainType
        /\ probing \subseteq Inputs \X (1..MaxProbes)
    BY Types
  <1>1. /\ main[i].status = "queued" /\ input[i].kind = "graph"
        /\ main[i].tries \in Nat /\ main[i].tries < MaxProbes /\ MaxProbes \in Nat
    BY <1>t, GraphAssumption DEF ClaimDiscovery, MainType
  <1>2. /\ new \in MainType /\ new.status = "active" /\ new.gen = main[i].gen
    <2> DEFINE n == main[i].tries + 1
    <2>1. n \in 0..MaxProbes
      BY <1>1
    <2>2. new = [main[i] EXCEPT !.status = "active", !.tries = n, !.lease = n]
      BY <1>t
    <2> HIDE DEF n, new
    <2> QED BY <1>t, <2>1, <2>2 DEF MainType, Live, Claimed
  <1>3. main' = [main EXCEPT ![i] = new]
    BY <1>t DEF ClaimDiscovery
  <1>4. probing' \subseteq Inputs \X (1..MaxProbes)
    <2>1. main[i].tries + 1 \in 1..MaxProbes
      BY <1>1
    <2> QED BY <1>t, <2>1 DEF ClaimDiscovery
  <1>5. ~input[i].cancel /\ main[i].status \in Live /\ "active" \in Live \cup Ended
    BY <1>1 DEF GraphInv, CancelInv, Live, Claimed
  <1>6. UNCHANGED <<input, child, link, discoveries, assets>>
    BY DEF ClaimDiscovery
  <1> HIDE DEF new
  <1>7. MainMove(i, new)
    BY <1>1, <1>2, <1>3, <1>4, <1>5, <1>6 DEF MainMove, Live, Claimed
  <1> QED BY <1>7, MainMoves

LEMMA ClaimFlatInv ==
    ASSUME GraphInv, NEW i \in Inputs, ClaimFlat(i)
    PROVE  GraphInv'
  <1> DEFINE new == [main[i] EXCEPT !.status = "active"]
  <1>t. main \in [Inputs -> MainType] /\ main[i] \in MainType
        /\ probing \subseteq Inputs \X (1..MaxProbes)
    BY Types
  <1>1. /\ new \in MainType /\ new.status = "active" /\ new.gen = main[i].gen
        /\ new.lease = main[i].lease
    BY <1>t DEF MainType, Live, Claimed
  <1>2. main' = [main EXCEPT ![i] = new]
    BY <1>t DEF ClaimFlat
  <1>3. ~input[i].cancel /\ main[i].status = "queued" /\ main[i].status \in Live
        /\ (main[i].lease # 0 => input[i].kind = "graph")
    BY DEF ClaimFlat, GraphInv, CancelInv, KindInv, Live
  <1>4. UNCHANGED <<input, child, link, discoveries, assets, probing>>
    BY DEF ClaimFlat
  <1> HIDE DEF new
  <1>5. MainMove(i, new)
    BY <1>t, <1>1, <1>2, <1>3, <1>4 DEF MainMove, Live, Claimed
  <1> QED BY <1>5, MainMoves

LEMMA CancelMainInv ==
    ASSUME GraphInv, NEW i \in Inputs, CancelMain(i)
    PROVE  GraphInv'
  <1> DEFINE st  == Stopped(main[i].status)
             new == [main[i] EXCEPT !.status = st]
  <1>t. main \in [Inputs -> MainType] /\ main[i] \in MainType
        /\ probing \subseteq Inputs \X (1..MaxProbes)
    BY Types
  <1>0. /\ main[i].status \in {"queued", "active"}
        /\ st \in {"canceled", "stopping"} /\ (main[i].status # "queued" => st = "stopping")
        /\ (main[i].lease # 0 => input[i].kind = "graph")
    BY DEF CancelMain, Stopped, GraphInv, KindInv
  <1>1. /\ new \in MainType /\ new.status = st /\ new.gen = main[i].gen
        /\ new.lease = main[i].lease
    BY <1>t, <1>0 DEF MainType, Live, Claimed, Ended
  <1>2. [main EXCEPT ![i].status = Stopped(@)] = [main EXCEPT ![i] = new]
    BY <1>t
  <1> HIDE DEF new, st
  <1>3. /\ main' = [main EXCEPT ![i] = new] /\ child' = child /\ link' = link
        /\ (input' = input /\ st \in Live) \/ Marks(input, i)
    <2>1. CASE main[i].status = "queued"
      <3>1. MarkedWrite(input, [main EXCEPT ![i] = new], child, link, i)
        BY <2>1, <1>2 DEF CancelMain
      <3>2. main' = [main EXCEPT ![i] = new] /\ child' = child /\ link' = link
        BY <3>1, Zenon DEF MarkedWrite
      <3> QED BY <3>1, <3>2, Zenon DEF MarkedWrite, Marks
    <2>2. CASE main[i].status # "queued"
      BY <2>2, <1>0, <1>2 DEF CancelMain, Live, Claimed
    <2> QED BY <2>1, <2>2
  <1>4. UNCHANGED <<discoveries, assets, probing>>
    BY DEF CancelMain
  <1>5. MainMove(i, new)
    BY <1>t, <1>0, <1>1, <1>3, <1>4 DEF MainMove, Live, Claimed, Ended
  <1> QED BY <1>5, MainMoves

\* A claimed flat job that finishes, or a queued job that is refused.
LEMMA MainClosesInv ==
    ASSUME GraphInv, NEW i \in Inputs, FinishFlat(i) \/ RefuseMain(i)
    PROVE  GraphInv'
  <1>1. CASE FinishFlat(i)
    <2>1. MarkedWrite(input, MainEnded(i, "ready"), child, link, i)
      BY <1>1, Zenon DEF FinishFlat
    <2>2. main' = MainEnded(i, "ready") /\ child' = child /\ link' = link
      BY <2>1, Zenon DEF MarkedWrite
    <2>3. Marks(input, i)
      BY <2>1, <2>2, Zenon DEF MarkedWrite, Marks
    <2>4. /\ input[i].kind = "flat" /\ main[i].status \in Live
          /\ UNCHANGED <<discoveries, assets, probing>> /\ "ready" \in Live \cup Ended
      BY <1>1 DEF FinishFlat, Live, Claimed, Ended
    <2> QED BY <2>2, <2>3, <2>4, MainEnds
  <1>2. CASE RefuseMain(i)
    <2>1. MarkedWrite(input, MainEnded(i, "failed"), child, link, i)
      BY <1>2, Zenon DEF RefuseMain
    <2>2. main' = MainEnded(i, "failed") /\ child' = child /\ link' = link
      BY <2>1, Zenon DEF MarkedWrite
    <2>3. Marks(input, i)
      BY <2>1, <2>2, Zenon DEF MarkedWrite, Marks
    <2>4. /\ main[i].status \in Live
          /\ UNCHANGED <<discoveries, assets, probing>> /\ "failed" \in Live \cup Ended
      BY <1>2 DEF RefuseMain, Live, Ended
    <2> QED BY <2>2, <2>3, <2>4, MainEnds
  <1> QED BY <1>1, <1>2

LEMMA ProbeEndsInv ==
    ASSUME GraphInv, NEW i \in Inputs,
           RecoverMain(i) \/ \E n \in 1..MaxProbes : FailDiscovery(i, n)
    PROVE  GraphInv'
  <1>1. CASE RecoverMain(i)
    <2>1. main[i].status \in Claimed /\ MainUnfinished(i)
          /\ UNCHANGED <<discoveries, assets>> /\ probing' \subseteq probing
      BY <1>1 DEF RecoverMain
    <2> QED BY <2>1, MainUnfinishedInv
  <1>2. ASSUME NEW n \in 1..MaxProbes, FailDiscovery(i, n)
        PROVE  GraphInv'
    <2>0. UNCHANGED <<discoveries, assets>> /\ probing' \subseteq probing
      BY <1>2 DEF FailDiscovery
    <2>1. CASE HoldsProbe(i, n) /\ MainUnfinished(i)
      <3>1. main[i].status \in Claimed /\ MainUnfinished(i)
        BY <2>1, Zenon DEF HoldsProbe
      <3> QED BY <2>0, <3>1, MainUnfinishedInv
    <2>2. CASE UNCHANGED <<input, main, child, link>>
      BY <2>0, <2>2, NothingInv
    <2> QED BY <1>2, <2>1, <2>2, Zenon DEF FailDiscovery
  <1> QED BY <1>1, <1>2

LEMMA ChildStepInv ==
    ASSUME GraphInv, NEW c \in Children, ChildStep(c)
    PROVE  GraphInv'
  <1>t. child \in [Children -> ChildType] /\ c[1] \in Inputs /\ c[2] \in Targets
        /\ c = <<c[1], c[2]>>
    BY Types, ChildPairs
  <1>c. input[c[1]].cancel => child[c].status \notin {"queued", "active"}
    BY <1>t DEF GraphInv, CancelInv
  <1>w. ASSUME NEW st \in {"failed", "canceled"}, child[c].status \in Live,
               ChildWrite(c, [child[c] EXCEPT !.status = st]),
               UNCHANGED <<discoveries, assets, probing>>
        PROVE  GraphInv'
    <2>1. MarkedWrite(input, main, [child EXCEPT ![c] = [child[c] EXCEPT !.status = st]], link, c[1])
      BY <1>w, Zenon DEF ChildWrite
    <2>2. main' = main /\ link' = link
          /\ child' = [child EXCEPT ![c] = [child[c] EXCEPT !.status = st]]
      BY <2>1, Zenon DEF MarkedWrite
    <2>3. Marks(input, c[1])
      BY <2>1, <2>2, Zenon DEF MarkedWrite, Marks
    <2>4. child' = [child EXCEPT ![c].status = st]
      BY <1>t, <2>2
    <2>5. ChildMove(c, st)
      BY <1>w, <2>2, <2>3, <2>4 DEF ChildMove
    <2> QED BY <2>5, ChildMoves
  <1>1. CASE ClaimChild(c)
    <2>1. ChildMove(c, "active")
      BY <1>1, <1>c DEF ClaimChild, ChildMove, Live, Claimed
    <2> QED BY <2>1, ChildMoves
  <1>2. CASE FinishChild(c)
    BY <1>2, FinishChildInv
  <1>3. CASE ChildUnfinished(c)
    <2>1. PICK st \in Unfinished(child[c].status) :
            IF st = "queued"
            THEN /\ child' = [child EXCEPT ![c].status = st]
                 /\ UNCHANGED <<input, main, link>>
            ELSE ChildWrite(c, [child[c] EXCEPT !.status = st])
      BY <1>3, Zenon DEF ChildUnfinished
    <2>2. child[c].status \in Claimed /\ UNCHANGED <<discoveries, assets, probing>>
      BY <1>3 DEF ChildUnfinished
    <2>3. st \in {"queued", "failed", "canceled"}
          /\ (st = "queued" => child[c].status = "active") /\ child[c].status \in Live
      BY <2>1, <2>2 DEF Unfinished, Live, Claimed
    <2>4. CASE st = "queued"
      <3>1. ChildMove(c, st)
        BY <2>1, <2>2, <2>3, <2>4, <1>c DEF ChildMove, Live
      <3> QED BY <3>1, ChildMoves
    <2>5. CASE st # "queued"
      <3>1. ChildWrite(c, [child[c] EXCEPT !.status = st]) /\ st \in {"failed", "canceled"}
        BY <2>1, <2>3, <2>5, Zenon
      <3> QED BY <2>2, <2>3, <3>1, <1>w, Zenon
    <2> QED BY <2>4, <2>5
  <1>4. CASE RefuseChild(c)
    <2>1. ChildWrite(c, [child[c] EXCEPT !.status = "failed"]) /\ child[c].status = "queued"
          /\ UNCHANGED <<discoveries, assets, probing>>
      BY <1>4, Zenon DEF RefuseChild
    <2>2. child[c].status \in Live /\ "failed" \in {"failed", "canceled"}
      BY <2>1 DEF Live
    <2> QED BY <2>1, <2>2, <1>w, Zenon
  <1>5. CASE CancelChild(c)
    <2>1. CASE child[c].status = "queued"
      <3>1. ChildWrite(c, [child[c] EXCEPT !.status = "canceled"])
            /\ UNCHANGED <<discoveries, assets, probing>>
        BY <1>5, <2>1, Zenon DEF CancelChild
      <3>2. child[c].status \in Live /\ "canceled" \in {"failed", "canceled"}
        BY <2>1 DEF Live
      <3> QED BY <3>1, <3>2, <1>w, Zenon
    <2>2. CASE child[c].status # "queued"
      <3>1. ChildMove(c, "stopping")
        BY <1>5, <2>2 DEF CancelChild, ChildMove, Live, Claimed
      <3> QED BY <3>1, ChildMoves
    <2> QED BY <2>1, <2>2
  <1> QED BY <1>1, <1>2, <1>3, <1>4, <1>5 DEF ChildStep

\* A submission or retry of a flat download, or a rediscovery, writes one
\* input and queues its main job.
Restart(inp, m, i) ==
    /\ input' = [input EXCEPT ![i] = inp] /\ main' = [main EXCEPT ![i] = m]
    /\ UNCHANGED <<child, link, discoveries, assets, probing>>
    /\ inp \in InputType /\ m \in MainType
    /\ inp.disc = {} /\ m.gen = inp.gen /\ (m.lease # 0 => inp.kind = "graph")
    /\ inp.kind \in {"graph", "flat"} /\ m.status = "queued"
    /\ inp.status = "queued" /\ inp.batch = BatchStatus({"queued"} \cup Others[i])
    /\ \/ input[i].gen < inp.gen
       \/ input[i].gen = inp.gen /\ input[i].disc = {}
    /\ ~inp.cancel
    /\ inp.kind = "flat" =>
         \A j \in Inputs : main[j].status \in Live \cup {"ready"} => j = i

LEMMA RestartInv ==
    ASSUME GraphInv, NEW i \in Inputs, NEW inp, NEW m, Restart(inp, m, i)
    PROVE  GraphInv'
  <1>t. /\ input \in [Inputs -> InputType] /\ main \in [Inputs -> MainType]
        /\ child \in [Children -> ChildType] /\ link \subseteq LinkType
        /\ discoveries \subseteq Snapshots /\ assets \subseteq Children
        /\ probing \subseteq Inputs \X (1..MaxProbes)
    BY Types
  <1>u. /\ child' = child /\ link' = link /\ discoveries' = discoveries
        /\ assets' = assets /\ probing' = probing
    BY DEF Restart
  <1>s. /\ inp \in InputType /\ m \in MainType
        /\ inp.disc = {} /\ m.gen = inp.gen /\ (m.lease # 0 => inp.kind = "graph")
        /\ inp.kind \in {"graph", "flat"} /\ m.status = "queued" /\ ~inp.cancel
        /\ inp.status = "queued" /\ inp.batch = BatchStatus({"queued"} \cup Others[i])
    BY DEF Restart
  <1>g. /\ input[i].gen \in Nat /\ inp.gen \in Nat
        /\ \/ input[i].gen < inp.gen
           \/ input[i].gen = inp.gen /\ input[i].disc = {}
    BY <1>t, <1>s, GraphAssumption DEF InputType, Restart
  <1>1. /\ input' \in [Inputs -> InputType] /\ main' \in [Inputs -> MainType]
        /\ input'[i] = inp /\ main'[i] = m
        /\ \A j \in Inputs : j # i => input'[j] = input[j] /\ main'[j] = main[j]
    BY <1>t, <1>s DEF Restart
  <1>2. GraphTypeOK'
    BY <1>t, <1>u, <1>1 DEF GraphTypeOK, InputType, MainType, ChildType, LinkType
  <1>3. KindInv'
    BY <1>1, <1>s DEF GraphInv, KindInv
  <1>4. LinkInv'
    <2>1. ASSUME NEW l \in link
          PROVE  /\ l.gen <= input'[l.input].gen
                 /\ l.gen = input'[l.input].gen => l.disc = input'[l.input].disc
      <3>1. /\ l.target \in l.disc /\ l.gen <= input[l.input].gen
            /\ l.gen = input[l.input].gen => l.disc = input[l.input].disc
        BY DEF GraphInv, LinkInv
      <3>2. l.gen \in Nat /\ l.input \in Inputs
        BY <1>t, GraphAssumption DEF LinkType
      <3>3. CASE l.input = i
        BY <1>g, <1>1, <3>1, <3>2, <3>3
      <3>4. CASE l.input # i
        BY <1>1, <3>1, <3>2, <3>4
      <3> QED BY <3>3, <3>4
    <2> QED BY <2>1, <1>u DEF GraphInv, LinkInv
  <1>5. MemberInv'
    <2>1. ASSUME NEW j \in Inputs, NEW t \in input'[j].disc
          PROVE  CurrentLink(j, t)' \in link'
      <3>1. j # i
        BY <2>1, <1>1, <1>s
      <3> QED BY <3>1, <2>1, <1>1, <1>u DEF CurrentLink, GraphInv, MemberInv
    <2> QED BY <2>1, <1>u DEF GraphInv, MemberInv
  <1>6. AuditAssets' /\ ReuseInv' /\ KeyInv'
    BY <1>u DEF GraphInv, AuditAssets, ReuseInv, KeyInv
  <1>7. OneFlatDownload'
    <2>1. inp.kind = "flat" =>
             \A j \in Inputs : main[j].status \in Live \cup {"ready"} => j = i
      BY DEF Restart
    <2> QED BY <2>1, <1>1 DEF GraphInv, OneFlatDownload
  <1>8. CancelInv'
    BY <1>u, <1>1, <1>s DEF GraphInv, CancelInv
  <1>9. AgreeInv'
    <2>1. ASSUME NEW j \in Inputs, input'[j].kind \in {"graph", "flat"}
          PROVE  Agrees(j)'
      <3>1. CASE j = i
        <4>1. Counted(j)' = {"queued"}
          BY <3>1, <1>1, <1>s DEF Counted
        <4>2. Aggregate({"queued"}) = "queued"
          BY DEF Aggregate, Live
        <4>3. input'[j].status = "queued" /\ input'[j].batch = BatchStatus({"queued"} \cup Others[j])
          BY <3>1, <1>1, <1>s
        <4> QED BY <4>1, <4>2, <4>3, Zenon DEF Agrees
      <3>2. CASE j # i
        <4>1. Agrees(j) /\ input'[j] = input[j] /\ main'[j] = main[j]
          BY <2>1, <3>2, <1>1 DEF GraphInv, AgreeInv, Agrees
        <4> QED BY <4>1, <1>u, AgreesKept
      <3> QED BY <3>1, <3>2
    <2> QED BY <2>1, Zenon DEF AgreeInv, Agrees
  <1> QED
    BY <1>2, <1>3, <1>4, <1>5, <1>6, <1>7, <1>8, <1>9 DEF GraphInv

LEMMA InputRestartInv ==
    ASSUME GraphInv, NEW i \in Inputs,
           (\E kind \in {"graph", "flat"} : CreateBatch(i, kind)) \/ RetryFlat(i) \/ Rediscover(i)
    PROVE  GraphInv'
  <1>t. /\ input \in [Inputs -> InputType] /\ main \in [Inputs -> MainType]
        /\ input[i] \in InputType /\ main[i] \in MainType
        /\ child \in [Children -> ChildType] /\ link \subseteq LinkType
        /\ discoveries \subseteq Snapshots /\ assets \subseteq Children
        /\ probing \subseteq Inputs \X (1..MaxProbes)
    BY Types
  <1>k. /\ input[i].kind \in {"graph", "flat"} <=> main[i].status # "none"
        /\ main[i].gen = input[i].gen
        /\ input[i].kind # "graph" => input[i].disc = {}
        /\ (main[i].lease # 0 => input[i].kind = "graph")
    BY DEF GraphInv, KindInv
  <1>q. BatchStatus({"queued"} \cup Others[i]) = "queued"
    BY DEF BatchStatus
  <1>c. ASSUME NEW kind \in {"graph", "flat"}, CreateBatch(i, kind)
        PROVE  GraphInv'
    <2>k. input[i].kind = "none" /\ input[i].disc = {} /\ main[i].lease = 0 /\ main[i].status = "none"
      BY <1>c, <1>k DEF CreateBatch
    <2>1. CASE kind = "flat" /\ Occupied
      <3> DEFINE inp == [input[i] EXCEPT !.kind = "duplicate", !.status = "duplicate",
                           !.batch = IF "failed" \in Others[i] THEN "failed" ELSE "duplicate"]
      <3>1. input' = [input EXCEPT ![i] = inp]
        BY <1>t, <1>c, <2>1 DEF CreateBatch
      <3>2. UNCHANGED <<main, child, link, discoveries, assets, probing>>
        BY <1>c, <2>1 DEF CreateBatch
      <3>3. /\ inp \in InputType /\ inp.kind = "duplicate" /\ inp.gen = input[i].gen
            /\ inp.disc = input[i].disc /\ inp.cancel = input[i].cancel
        BY <1>t DEF InputType, InputStatuses
      <3> HIDE DEF inp
      <3>4. /\ input' \in [Inputs -> InputType] /\ input'[i].kind = "duplicate"
            /\ input'[i].gen = input[i].gen /\ input'[i].disc = input[i].disc
            /\ input'[i].cancel = input[i].cancel
            /\ \A j \in Inputs : j # i => input'[j] = input[j]
        BY <1>t, <3>1, <3>3
      <3>5. \A j \in Inputs : /\ input'[j].gen = input[j].gen /\ input'[j].disc = input[j].disc
                              /\ input'[j].cancel = input[j].cancel
        BY <3>4
      <3>6. GraphTypeOK'
        BY <1>t, <3>2, <3>4 DEF GraphTypeOK, InputType, MainType, ChildType, LinkType
      <3>7. KindInv'
        BY <2>k, <3>2, <3>4 DEF GraphInv, KindInv
      <3>8. LinkInv'
        <4>1. \A l \in link : l.input \in Inputs
          BY <1>t DEF LinkType
        <4> QED BY <4>1, <3>2, <3>5 DEF GraphInv, LinkInv
      <3>9. MemberInv'
        BY <3>2, <3>5 DEF GraphInv, MemberInv, CurrentLink
      <3>10. AuditAssets' /\ ReuseInv' /\ KeyInv'
        BY <3>2 DEF GraphInv, AuditAssets, ReuseInv, KeyInv
      <3>12. OneFlatDownload' /\ CancelInv'
        BY <3>2, <3>4, <3>5 DEF GraphInv, OneFlatDownload, CancelInv
      <3>11. AgreeInv'
        <4>1. ASSUME NEW j \in Inputs, input'[j].kind \in {"graph", "flat"}
              PROVE  Agrees(j)'
          <5>1. Agrees(j) /\ input'[j] = input[j]
            BY <4>1, <3>4 DEF GraphInv, AgreeInv, Agrees
          <5> QED BY <5>1, <3>2, AgreesKept
        <4> QED BY <4>1, Zenon DEF AgreeInv, Agrees
      <3> QED BY <3>6, <3>7, <3>8, <3>9, <3>10, <3>11, <3>12 DEF GraphInv
    <2>2. CASE ~(kind = "flat" /\ Occupied)
      <3> DEFINE inp == [input[i] EXCEPT !.kind = kind, !.status = "queued", !.batch = "queued"]
                 m   == [main[i] EXCEPT !.status = "queued"]
      <3>1. input' = [input EXCEPT ![i] = inp] /\ main' = [main EXCEPT ![i] = m]
        BY <1>t, <1>c, <2>2 DEF CreateBatch
      <3>2. UNCHANGED <<child, link, discoveries, assets, probing>>
        BY <1>c DEF CreateBatch
      <3>3. /\ inp \in InputType /\ inp.kind = kind /\ inp.gen = input[i].gen
            /\ inp.disc = input[i].disc /\ inp.cancel = input[i].cancel
            /\ inp.status = "queued" /\ inp.batch = "queued"
            /\ m \in MainType /\ m.status = "queued" /\ m.lease = main[i].lease
            /\ m.gen = main[i].gen
        BY <1>t DEF InputType, InputStatuses, MainType, Live
      <3> HIDE DEF inp, m
      <3>4. kind = "flat" =>
              \A j \in Inputs : main[j].status \in Live \cup {"ready"} => j = i
        BY <2>2 DEF Occupied
      <3>5. ~input[i].cancel
        BY <2>k DEF GraphInv, KindInv
      <3>6. Restart(inp, m, i)
        BY <1>k, <1>q, <2>k, <3>1, <3>2, <3>3, <3>4, <3>5 DEF Restart
      <3> QED BY <3>6, RestartInv
    <2> QED BY <2>1, <2>2
  <1>r. CASE RetryFlat(i)
    <2> DEFINE inp == [input[i] EXCEPT !.gen = @ + 1, !.cancel = FALSE, !.status = "queued",
                                       !.batch = "queued"]
               m   == [main[i] EXCEPT !.status = "queued", !.gen = @ + 1]
               n   == input[i].gen + 1
    <2>1. input' = [input EXCEPT ![i] = inp] /\ main' = [main EXCEPT ![i] = m]
      BY <1>t, <1>r, <1>q DEF RetryFlat
    <2>2. UNCHANGED <<child, link, discoveries, assets, probing>>
      BY <1>r DEF RetryFlat
    <2>3. n \in 1..MaxGeneration /\ input[i].gen < n
      BY <1>t, <1>r, <1>k, GraphAssumption DEF RetryFlat, InputType
    <2>4. /\ inp = [input[i] EXCEPT !.gen = n, !.cancel = FALSE, !.status = "queued",
                                     !.batch = "queued"]
          /\ m = [main[i] EXCEPT !.status = "queued", !.gen = n]
      BY <1>t, <1>k DEF InputType, MainType
    <2> HIDE DEF inp, m, n
    <2>5. /\ inp \in InputType /\ inp.kind = input[i].kind /\ inp.gen = n
          /\ inp.disc = input[i].disc /\ inp.cancel = FALSE
          /\ inp.status = "queued" /\ inp.batch = "queued"
      BY <1>t, <2>3, <2>4 DEF InputType, InputStatuses
    <2>6. /\ m \in MainType /\ m.status = "queued" /\ m.lease = main[i].lease /\ m.gen = n
      BY <1>t, <2>3, <2>4 DEF MainType, Live
    <2>7. \A j \in Inputs : main[j].status \in Live \cup {"ready"} => j = i
      BY <1>r DEF RetryFlat, Conflicts
    <2>8. input[i].kind = "flat"
      BY <1>r DEF RetryFlat
    <2>9. Restart(inp, m, i)
      BY <1>k, <1>q, <2>1, <2>2, <2>3, <2>5, <2>6, <2>7, <2>8 DEF Restart
    <2> QED BY <2>9, RestartInv
  <1>d. CASE Rediscover(i)
    <2> DEFINE inp == [input[i] EXCEPT !.gen = @ + 1, !.disc = {}, !.cancel = FALSE]
               m   == [main[i] EXCEPT !.status = "queued", !.gen = @ + 1, !.lease = 0]
               n   == input[i].gen + 1
               inps == [input EXCEPT ![i].gen = @ + 1, ![i].disc = {}, ![i].cancel = FALSE]
    <2>1. MarkedWrite(inps, [main EXCEPT ![i].status = "queued", ![i].gen = @ + 1, ![i].lease = 0],
                      child, link, i)
      BY <1>d, Zenon DEF Rediscover
    <2>2. /\ inps = [input EXCEPT ![i] = inp]
          /\ [main EXCEPT ![i].status = "queued", ![i].gen = @ + 1, ![i].lease = 0]
                = [main EXCEPT ![i] = m]
      BY <1>t
    <2>3. n \in 1..MaxGeneration /\ input[i].gen < n /\ input[i].kind = "graph"
          /\ UNCHANGED <<discoveries, assets, probing>>
      BY <1>t, <1>d, <1>k, GraphAssumption DEF Rediscover, InputType
    <2>4. /\ inp = [input[i] EXCEPT !.gen = n, !.disc = {}, !.cancel = FALSE]
          /\ m = [main[i] EXCEPT !.status = "queued", !.gen = n, !.lease = 0]
      BY <1>t, <1>k DEF InputType, MainType
    <2> HIDE DEF inp, m, n, inps
    <2>5. /\ inp \in InputType /\ inp.kind = input[i].kind /\ inp.gen = n
          /\ inp.disc = {} /\ inp.cancel = FALSE
      BY <1>t, <2>3, <2>4 DEF InputType, InputStatuses
    <2>6. /\ m \in MainType /\ m.status = "queued" /\ m.lease = 0 /\ m.gen = n
      <3>1. 0 \in 0..MaxProbes
        BY GraphAssumption
      <3> QED BY <1>t, <2>3, <2>4, <3>1 DEF MainType, Live
    <2>7. main' = [main EXCEPT ![i] = m] /\ child' = child /\ link' = link
      BY <2>1, <2>2, Zenon DEF MarkedWrite
    <2>8. Marks(inps, i)
      BY <2>1, <2>7, Zenon DEF MarkedWrite, Marks
    <2>9. inps \in [Inputs -> InputType] /\ inps[i] = inp /\ OthersKept(i, input, inps)
      BY <1>t, <2>2, <2>5 DEF OthersKept
    <2> DEFINE out == input'[i]
    <2>10. /\ input' \in [Inputs -> InputType] /\ SameFields(inp, out)
           /\ \A j \in Inputs : j # i => input'[j] = input[j]
      <3>1. MarkDone(inps, i)
        BY <2>8, <2>9, MarkedStep, Zenon
      <3> QED BY <3>1, <2>9 DEF MarkDone, OthersKept
    <2>11. out.status = "queued" /\ out.batch = BatchStatus({"queued"} \cup Others[i])
      <3>1. input' = Marked(inps, main', child', link', i)
        BY <2>8, Zenon DEF Marks
      <3>2. Scope(inps, main', child', link', i) = {"queued"}
        BY <1>t, <2>5, <2>6, <2>7, <2>9 DEF Scope
      <3>3. Aggregate(Scope(inps, main', child', link', i)) = "queued"
        BY <3>2 DEF Aggregate, Live
      <3>4. input' = [inps EXCEPT ![i].status = "queued",
                                  ![i].batch = BatchStatus({"queued"} \cup Others[i])]
        BY <3>1, <3>3, Zenon DEF Marked
      <3> QED BY <1>q, <2>9, <3>4 DEF InputType
    <2>12. input' = [input EXCEPT ![i] = out] /\ out \in InputType
      BY <1>t, <2>10
    <2> HIDE DEF out
    <2>13. Restart(out, m, i)
      <3>1. /\ out.kind = "graph" /\ out.disc = {} /\ ~out.cancel /\ out.gen = n
        BY <2>3, <2>5, <2>10 DEF SameFields
      <3> QED BY <2>3, <2>6, <2>7, <2>11, <2>12, <3>1 DEF Restart
    <2> QED BY <2>13, RestartInv
  <1> QED BY <1>c, <1>r, <1>d
-----------------------------------------------------------------------------
LEMMA InitInv == GraphInit => GraphInv
  <1> SUFFICES ASSUME GraphInit PROVE GraphInv
    OBVIOUS
  <1>0. 1 \in 1..MaxGeneration /\ 0 \in 0..MaxProbes /\ 0 \in 0..MaxGeneration
    BY GraphAssumption
  <1>1. GraphTypeOK
    <2>1. /\ input \in [Inputs -> InputType] /\ main \in [Inputs -> MainType]
          /\ child \in [Children -> ChildType]
      BY <1>0 DEF GraphInit, NoChild, InputType, MainType, ChildType, InputStatuses
    <2>2. link = {} /\ discoveries = {} /\ assets = {} /\ probing = {}
      BY DEF GraphInit
    <2> QED BY <2>1, <2>2 DEF GraphTypeOK, InputType, MainType, ChildType
  <1>2. \A i \in Inputs : input[i].kind = "none" /\ main[i].status = "none"
                         /\ input[i].gen = main[i].gen /\ input[i].disc = {}
                         /\ ~input[i].cancel /\ main[i].lease = 0
    BY DEF GraphInit
  <1>3. \A c \in Children : child[c].status = "none" /\ child[c].reused = {}
                           /\ child[c].assets = {}
    BY DEF GraphInit, NoChild
  <1>4. link = {} /\ assets = {}
    BY DEF GraphInit
  <1>5. KindInv /\ LinkInv /\ MemberInv /\ ReuseInv /\ KeyInv /\ OneFlatDownload
    BY <1>2, <1>3, <1>4
       DEF KindInv, LinkInv, MemberInv, ReuseInv, KeyInv, OneFlatDownload
  <1>6. AuditAssets
    BY <1>3, <1>4 DEF AuditAssets
  <1>7. AgreeInv /\ CancelInv
    BY <1>2 DEF AgreeInv, CancelInv
  <1> QED BY <1>1, <1>5, <1>6, <1>7 DEF GraphInv

LEMMA InputStepInv ==
    ASSUME GraphInv, NEW i \in Inputs, InputStep(i)
    PROVE  GraphInv'
  <1>1. CASE \E kind \in {"graph", "flat"} : CreateBatch(i, kind)
    BY <1>1, InputRestartInv
  <1>2. CASE ClaimDiscovery(i)
    BY <1>2, ClaimInv
  <1>3. CASE RecoverMain(i) \/ \E n \in 1..MaxProbes : FailDiscovery(i, n)
    BY <1>3, ProbeEndsInv
  <1>4. CASE RefuseMain(i) \/ FinishFlat(i)
    BY <1>4, MainClosesInv
  <1>5. CASE \E n \in 1..MaxProbes : \E S \in Snapshots : CommitDiscovery(i, n, S)
    BY <1>5, CommitStep
  <1>6. CASE ClaimFlat(i)
    BY <1>6, ClaimFlatInv
  <1>7. CASE CancelMain(i)
    BY <1>7, CancelMainInv
  <1>8. CASE CancelInput(i)
    BY <1>8, CancelInputInv
  <1>9. CASE RetryFlat(i) \/ Rediscover(i)
    BY <1>9, InputRestartInv
  <1> QED
    BY <1>1, <1>2, <1>3, <1>4, <1>5, <1>6, <1>7, <1>8, <1>9, Zenon DEF InputStep

LEMMA NextInv == GraphInv /\ [GraphNext]_graphVars => GraphInv'
  <1> SUFFICES ASSUME GraphInv, [GraphNext]_graphVars PROVE GraphInv'
    OBVIOUS
  <1>1. CASE \E i \in Inputs : InputStep(i)
    BY <1>1, InputStepInv
  <1>2. CASE \E c \in Children : ChildStep(c)
    BY <1>2, ChildStepInv
  <1>3. CASE UNCHANGED graphVars
    <2>1. UNCHANGED <<input, main, child, link, discoveries, assets>> /\ probing' \subseteq probing
      BY <1>3 DEF graphVars
    <2> QED BY <2>1, NothingInv
  <1> QED BY <1>1, <1>2, <1>3, Zenon DEF GraphNext

\* The tables stay in the relation that the handlers of repository.py and
\* worker_repository.py keep, one transaction at a time.
THEOREM GraphInvariance == GraphSpec => []GraphInv
  <1>1. GraphInit => GraphInv
    BY InitInv
  <1>2. GraphInv /\ [GraphNext]_graphVars => GraphInv'
    BY NextInv
  <1> QED BY <1>1, <1>2, PTL DEF GraphSpec

\* The active snapshot of an input is linked whole, and nothing but it.
LEMMA Audited == GraphInv => GraphAudited
  <1> SUFFICES ASSUME GraphInv PROVE GraphAudited
    OBVIOUS
  <1>t. link \subseteq LinkType /\ input \in [Inputs -> InputType]
    BY Types
  <1>1. AuditLinks
    <2>1. \A l \in link :
            LET job == child[<<l.input, l.target>>]
            IN  /\ job.status /= "none" /\ l.target \in l.disc
                /\ l.disc \in discoveries
                /\ job.gen <= l.gen /\ l.gen <= input[l.input].gen
      BY DEF GraphInv, LinkInv
    <2>2. ASSUME NEW i \in Inputs
          PROVE  {<<l.disc, l.target>> : l \in {k \in link : /\ k.input = i
                                                            /\ k.gen = input[i].gen}}
                     = {input[i].disc} \X input[i].disc
      <3> DEFINE K == {k \in link : k.input = i /\ k.gen = input[i].gen}
                 d == input[i].disc
      <3>1. \A l \in K : l.disc = d /\ l.target \in d
        BY DEF GraphInv, LinkInv
      <3>2. \A t \in d : \E l \in K : l.disc = d /\ l.target = t
        <4>1. ASSUME NEW t \in d
              PROVE  \E l \in K : l.disc = d /\ l.target = t
          <5>1. CurrentLink(i, t) \in link
            BY DEF GraphInv, MemberInv
          <5>2. CurrentLink(i, t) \in K /\ CurrentLink(i, t).disc = d /\ CurrentLink(i, t).target = t
            BY <5>1 DEF CurrentLink
          <5> QED BY <5>2
        <4> QED BY <4>1
      <3> HIDE DEF K, d
      <3>3. {<<l.disc, l.target>> : l \in K} \subseteq {d} \X d
        BY <3>1
      <3>4. ASSUME NEW p \in {d} \X d
            PROVE  p \in {<<l.disc, l.target>> : l \in K}
        <4>1. p[2] \in d /\ p = <<d, p[2]>>
          OBVIOUS
        <4>2. PICK l \in K : l.disc = d /\ l.target = p[2]
          BY <3>2, <4>1
        <4>3. p = <<l.disc, l.target>>
          BY <4>1, <4>2
        <4> QED BY <4>3
      <3> QED BY <3>3, <3>4 DEF K, d
    <2>3. \A c \in Children :
            child[c].status /= "none" =>
                \E l \in link : l.input = c[1] /\ l.target = c[2]
      BY DEF GraphInv, MemberInv
    <2> QED BY <2>1, <2>2, <2>3 DEF AuditLinks
  <1>2. AuditGenerations
    BY DEF GraphInv, KindInv, AuditGenerations
  <1>3. \A c, d \in assets : c[2] = d[2] => c = d
    BY DEF GraphInv, KeyInv
  <1> QED BY <1>1, <1>2, <1>3 DEF GraphInv, GraphAudited

\* An aggregate tells the jobs of the active snapshot and generation.
LEMMA Agreed == GraphInv => InputsAgree
  <1> SUFFICES ASSUME GraphInv PROVE InputsAgree
    OBVIOUS
  <1>t. /\ input \in [Inputs -> InputType] /\ main \in [Inputs -> MainType]
        /\ child \in [Children -> ChildType] /\ link \subseteq LinkType
    BY Types
  <1>1. ASSUME NEW i \in Inputs, input[i].kind \in {"graph", "flat"}
        PROVE  LET Of(t)   == child[<<i, t>>].status
                   members == input[i].disc
                   live    == IF members = {} THEN main[i].status \in Live
                              ELSE \E t \in members : Of(t) \in Live
               IN  /\ (input[i].status = "queued") = live
                   /\ input[i].kind = "graph" /\ members = {} /\ ~live =>
                          input[i].status \in {"failed", "canceled"}
                   /\ members /= {} /\ ~live =>
                          input[i].status =
                              IF \A t \in members : Of(t) = "ready" THEN "ready"
                              ELSE IF \E t \in members : Of(t) = "ready" THEN "partial_success"
                              ELSE IF \A t \in members : Of(t) = "canceled" THEN "canceled"
                              ELSE "failed"
                   /\ input[i].batch = BatchStatus({input[i].status} \cup Others[i])
    <2> DEFINE Of(t)   == child[<<i, t>>].status
               members == input[i].disc
               S       == Counted(i)
    <2>a. /\ input[i].status = Aggregate(S)
          /\ input[i].batch = BatchStatus({input[i].status} \cup Others[i])
      BY <1>1 DEF GraphInv, AgreeInv
    <2>m. /\ main[i].status \in Live \cup Ended
          /\ input[i].kind = "graph" /\ members = {} => main[i].status # "ready"
      <3>1. main[i].status \in {"none"} \cup Live \cup Ended
        BY <1>t DEF MainType
      <3>2. main[i].status # "none"
        BY <1>1 DEF GraphInv, KindInv
      <3> QED BY <3>1, <3>2 DEF GraphInv, KindInv
    <2>1. CASE members = {}
      <3>1. S = {main[i].status}
        BY <2>1 DEF Counted
      <3> HIDE DEF S
      <3>2. (Aggregate(S) = "queued") = (main[i].status \in Live)
        <4>1. CASE main[i].status \in Live
          BY <3>1, <4>1 DEF Aggregate
        <4>2. CASE main[i].status \notin Live
          BY <3>1, <4>2 DEF Aggregate
        <4> QED BY <4>1, <4>2
      <3>3. input[i].kind = "graph" /\ main[i].status \notin Live =>
                Aggregate(S) \in {"failed", "canceled"}
        BY <3>1, <2>1, <2>m DEF Aggregate, Live, Claimed, Ended
      <3> QED BY <2>a, <2>1, <3>2, <3>3
    <2>2. CASE members # {}
      <3>1. S = {Of(t) : t \in members}
        BY <2>2 DEF Counted
      <3>2. \A t \in members : Of(t) \in Live \cup Ended
        <4>1. ASSUME NEW t \in members
              PROVE  Of(t) \in Live \cup Ended
          <5>1. CurrentLink(i, t) \in link
            BY DEF GraphInv, MemberInv
          <5>2. t \in Targets
            BY <5>1, <1>t DEF CurrentLink, LinkType
          <5>3. Of(t) # "none"
            BY <5>1 DEF CurrentLink, GraphInv, LinkInv
          <5>4. <<i, t>> \in Children
            BY <5>2 DEF Children
          <5> QED BY <5>3, <5>4, <1>t DEF ChildType
        <4> QED BY <4>1
      <3> HIDE DEF S, Of, members
      <3>3. /\ (S \cap Live # {}) <=> (\E t \in members : Of(t) \in Live)
            /\ ("ready" \in S) <=> (\E t \in members : Of(t) = "ready")
            /\ ("failed" \in S) <=> (\E t \in members : Of(t) = "failed")
            /\ (S = {"ready"}) <=> (\A t \in members : Of(t) = "ready")
        BY <3>1, <2>2
      <3>4. (Aggregate(S) = "queued") = (\E t \in members : Of(t) \in Live)
        <4>1. CASE \E t \in members : Of(t) \in Live
          BY <3>3, <4>1 DEF Aggregate
        <4>2. CASE ~ \E t \in members : Of(t) \in Live
          BY <3>3, <4>2 DEF Aggregate
        <4> QED BY <4>1, <4>2
      <3>5. ASSUME ~ \E t \in members : Of(t) \in Live
            PROVE  Aggregate(S) =
                       IF \A t \in members : Of(t) = "ready" THEN "ready"
                       ELSE IF \E t \in members : Of(t) = "ready" THEN "partial_success"
                       ELSE IF \A t \in members : Of(t) = "canceled" THEN "canceled"
                       ELSE "failed"
        <4>1. \A t \in members : Of(t) \in {"ready", "failed", "canceled"}
          BY <3>2, <3>5 DEF Ended
        <4>2. CASE \E t \in members : Of(t) = "ready"
          BY <3>3, <3>5, <4>2 DEF Aggregate
        <4>3. CASE ~ \E t \in members : Of(t) = "ready"
          BY <2>2, <3>3, <3>5, <4>1, <4>3 DEF Aggregate
        <4> QED BY <4>2, <4>3
      <3> QED BY <2>a, <2>2, <3>4, <3>5 DEF Of, members
    <2> QED BY <2>1, <2>2
  <1> QED BY <1>1, Zenon DEF InputsAgree, StatusesAgree, GraphInv

\* After any sequence of submissions, probes, late commits, downloads,
\* cancellations, retries and rediscoveries, create_backup finds a graph that
\* passes its audit (_audit_graph_state), and the status of each input and batch
\* is the one of its current jobs, also after steps that aggregate nothing
\* (a job that goes back to the queue, a claimed job asked to stop).
THEOREM GraphIsSound == GraphSpec => []GraphSound
  <1>1. GraphInv => GraphSound
    BY Audited, Agreed DEF GraphSound
  <1> QED BY <1>1, GraphInvariance, PTL

\* Of an input that stays canceled, no job becomes ready by a step of an input.
LEMMA ReadyOfInput ==
    ASSUME GraphInv, NEW i \in Inputs, NEW j \in Inputs, InputStep(j),
           input[i].cancel, input'[i].cancel
    PROVE  /\ main'[i].status = "ready" => main[i].status = "ready"
           /\ \A t \in Targets :
                 child'[<<i, t>>].status = "ready" => child[<<i, t>>].status = "ready"
  <1>t. /\ input \in [Inputs -> InputType] /\ main \in [Inputs -> MainType]
        /\ child \in [Children -> ChildType]
    BY Types
  <1>m. ASSUME NEW st, st # "ready", main' = MainEnded(j, st), child' = child
        PROVE  /\ main'[i].status = "ready" => main[i].status = "ready"
               /\ \A t \in Targets :
                     child'[<<i, t>>].status = "ready" => child[<<i, t>>].status = "ready"
    <2>1. main'[i].status \in {st, main[i].status}
      BY <1>t, <1>m DEF MainEnded, MainType
    <2> QED BY <1>m, <2>1
  <1>w. ASSUME NEW st, MarkedWrite(input, MainEnded(j, st), child, link, j)
        PROVE  main' = MainEnded(j, st) /\ child' = child
    BY <1>w, Zenon DEF MarkedWrite
  <1>n. ASSUME UNCHANGED child, main'[i].status # "ready" \/ main'[i] = main[i]
        PROVE  /\ main'[i].status = "ready" => main[i].status = "ready"
               /\ \A t \in Targets :
                     child'[<<i, t>>].status = "ready" => child[<<i, t>>].status = "ready"
    BY <1>n
  <1>f. ASSUME MainUnfinished(j)
        PROVE  \E st : st # "ready" /\ main' = MainEnded(j, st) /\ child' = child
    <2>1. PICK st \in Unfinished(main[j].status) :
            IF st = "queued"
            THEN /\ main' = MainEnded(j, st)
                 /\ UNCHANGED <<input, child, link>>
            ELSE MarkedWrite(input, MainEnded(j, st), child, link, j)
      BY <1>f, Zenon DEF MainUnfinished
    <2>2. st # "ready"
      BY <2>1 DEF Unfinished
    <2>3. main' = MainEnded(j, st) /\ child' = child
      BY <2>1, <1>w
    <2> QED BY <2>2, <2>3
  <1>1. ASSUME NEW kind \in {"graph", "flat"}, CreateBatch(j, kind)
        PROVE  UNCHANGED child /\ (main'[i].status # "ready" \/ main'[i] = main[i])
    <2>1. main' = main \/ main' = [main EXCEPT ![j].status = "queued"]
      BY <1>1 DEF CreateBatch
    <2> QED BY <1>t, <1>1, <2>1 DEF CreateBatch, MainType
  <1>2. CASE ClaimDiscovery(j) \/ ClaimFlat(j) \/ RetryFlat(j)
    <2>1. UNCHANGED child /\ (main'[i].status # "ready" \/ main'[i] = main[i])
      BY <1>t, <1>2 DEF ClaimDiscovery, ClaimFlat, RetryFlat, MainType
    <2> QED BY <2>1, <1>n
  <1>3. CASE RecoverMain(j)
    BY <1>3, <1>f, <1>m, Zenon DEF RecoverMain
  <1>4. CASE RefuseMain(j)
    BY <1>4, <1>w, <1>m DEF RefuseMain
  <1>5. ASSUME NEW n \in 1..MaxProbes, FailDiscovery(j, n)
        PROVE  /\ main'[i].status = "ready" => main[i].status = "ready"
               /\ \A t \in Targets :
                     child'[<<i, t>>].status = "ready" => child[<<i, t>>].status = "ready"
    <2>1. CASE MainUnfinished(j)
      BY <2>1, <1>f, <1>m, Zenon
    <2>2. CASE UNCHANGED <<input, main, child, link>>
      BY <2>2
    <2> QED BY <1>5, <2>1, <2>2, Zenon DEF FailDiscovery
  <1>6. ASSUME NEW n \in 1..MaxProbes, NEW S \in Snapshots, CommitDiscovery(j, n, S)
        PROVE  /\ main'[i].status = "ready" => main[i].status = "ready"
               /\ \A t \in Targets :
                     child'[<<i, t>>].status = "ready" => child[<<i, t>>].status = "ready"
    <2> DEFINE fan == [c \in Children |-> FannedOut(j, S, c)]
    <2>1. CASE UNCHANGED <<input, main, child, link, discoveries>>
      BY <2>1
    <2>2. CASE MarkedWrite(input, MainEnded(j, "canceled"), child, link, j)
      BY <2>2, <1>w, <1>m
    <2>3. CASE /\ ~StopsProbe(j)
               /\ MarkedWrite([input EXCEPT ![j].disc = S], MainEnded(j, "ready"), fan,
                      link \cup {[input |-> j, gen |-> main[j].gen,
                                  disc |-> S, target |-> t] : t \in S}, j)
      <3>1. i # j
        BY <2>3 DEF StopsProbe
      <3>2. main' = MainEnded(j, "ready") /\ child' = fan
        BY <2>3, Zenon DEF MarkedWrite
      <3>3. main'[i] = main[i]
        BY <1>t, <3>1, <3>2 DEF MainEnded
      <3>4. ASSUME NEW t \in Targets
            PROVE  child'[<<i, t>>] = child[<<i, t>>]
        <4>1. <<i, t>> \in Children /\ <<i, t>>[1] = i
          BY ChildPairs
        <4>2. child'[<<i, t>>] = FannedOut(j, S, <<i, t>>)
          BY <3>2, <4>1
        <4> QED BY <3>1, <4>1, <4>2 DEF FannedOut
      <3> QED BY <3>3, <3>4
    <2> QED BY <1>6, <2>1, <2>2, <2>3, Zenon DEF CommitDiscovery
  <1>7. CASE FinishFlat(j)
    <2>1. main' = MainEnded(j, "ready") /\ child' = child /\ main[j].status = "active"
      BY <1>7, <1>w DEF FinishFlat
    <2>2. i # j
      BY <2>1 DEF GraphInv, CancelInv
    <2> QED BY <1>t, <2>1, <2>2 DEF MainEnded
  <1>8. CASE CancelMain(j)
    <2>1. main' = [main EXCEPT ![j].status = Stopped(@)] /\ child' = child
      <3>1. \/ MarkedWrite(input, [main EXCEPT ![j].status = Stopped(@)], child, link, j)
            \/ main' = [main EXCEPT ![j].status = Stopped(@)] /\ child' = child
        <4>1. CASE main[j].status = "queued"
          BY <1>8, <4>1, Zenon DEF CancelMain
        <4>2. CASE main[j].status # "queued"
          BY <1>8, <4>2 DEF CancelMain
        <4> QED BY <4>1, <4>2
      <3> QED BY <3>1, Zenon DEF MarkedWrite
    <2>2. main'[i].status \in {main[i].status, Stopped(main[i].status)}
      BY <1>t, <2>1 DEF MainType
    <2> QED BY <1>t, <2>1, <2>2, StoppedStatus DEF MainType
  <1>9. CASE CancelInput(j)
    <2>1. /\ main' = [main EXCEPT ![j].status = Stopped(@)]
          /\ child' = [c \in Children |-> IF c[1] = j
                        THEN [child[c] EXCEPT !.status = Stopped(@)] ELSE child[c]]
      BY <1>9, Zenon DEF CancelInput, MarkedWrite
    <2>2. main'[i].status \in {main[i].status, Stopped(main[i].status)}
      BY <1>t, <2>1 DEF MainType
    <2>3. ASSUME NEW t \in Targets
          PROVE  child'[<<i, t>>].status \in {child[<<i, t>>].status, Stopped(child[<<i, t>>].status)}
      <3>1. <<i, t>> \in Children
        BY ChildPairs
      <3> QED BY <1>t, <2>1, <3>1 DEF ChildType
    <2>4. main[i].status \in {"none"} \cup Live \cup Ended
      BY <1>t DEF MainType
    <2>5. \A t \in Targets : child[<<i, t>>].status \in {"none"} \cup Live \cup Ended
      BY <1>t, ChildPairs DEF ChildType
    <2> QED BY <2>2, <2>3, <2>4, <2>5, StoppedStatus
  <1>10. CASE Rediscover(j)
    <2>1. /\ main' = [main EXCEPT ![j].status = "queued", ![j].gen = @ + 1, ![j].lease = 0]
          /\ child' = child
      BY <1>10, Zenon DEF Rediscover, MarkedWrite
    <2>2. main'[i].status = "queued" \/ main'[i] = main[i]
      BY <1>t, <2>1 DEF MainType
    <2> QED BY <2>1, <2>2
  <1> QED
    BY <1>1, <1>n, <1>2, <1>3, <1>4, <1>5, <1>6, <1>7, <1>8, <1>9, <1>10, Zenon DEF InputStep

\* Nor by a step of a child job.
LEMMA ReadyOfChild ==
    ASSUME GraphInv, NEW i \in Inputs, NEW c \in Children, ChildStep(c), input[i].cancel
    PROVE  /\ main' = main
           /\ \A t \in Targets :
                 child'[<<i, t>>].status = "ready" => child[<<i, t>>].status = "ready"
  <1>t. child \in [Children -> ChildType] /\ c[1] \in Inputs /\ c = <<c[1], c[2]>>
        /\ c[2] \in Targets
    BY Types, ChildPairs
  <1>1. main' = main /\ \E new : child' = [child EXCEPT ![c] = new]
                                /\ (new.status = "ready" => child[c].status = "active")
    <2>s. ASSUME NEW st, st # "ready", child' = [child EXCEPT ![c].status = st]
          PROVE  \E new : child' = [child EXCEPT ![c] = new]
                         /\ (new.status = "ready" => child[c].status = "active")
      <3>1. /\ child' = [child EXCEPT ![c] = [child[c] EXCEPT !.status = st]]
            /\ [child[c] EXCEPT !.status = st].status = st
        BY <1>t, <2>s DEF ChildType
      <3> QED BY <3>1, <2>s
    <2>w. ASSUME NEW new, ChildWrite(c, new)
          PROVE  main' = main /\ child' = [child EXCEPT ![c] = new]
      BY <2>w, Zenon DEF ChildWrite, MarkedWrite
    <2>v. ASSUME NEW st, st # "ready", ChildWrite(c, [child[c] EXCEPT !.status = st])
          PROVE  main' = main /\ child' = [child EXCEPT ![c].status = st]
      <3>1. main' = main /\ child' = [child EXCEPT ![c] = [child[c] EXCEPT !.status = st]]
        BY <2>v, <2>w
      <3> QED BY <1>t, <3>1
    <2>1. CASE ClaimChild(c)
      BY <2>1, <2>s DEF ClaimChild
    <2>2. CASE FinishChild(c)
      BY <2>2, <2>w DEF FinishChild
    <2>3. CASE ChildUnfinished(c)
      <3>1. PICK st \in Unfinished(child[c].status) :
              IF st = "queued"
              THEN /\ child' = [child EXCEPT ![c].status = st]
                   /\ UNCHANGED <<input, main, link>>
              ELSE ChildWrite(c, [child[c] EXCEPT !.status = st])
        BY <2>3, Zenon DEF ChildUnfinished
      <3>2. st # "ready"
        BY <3>1 DEF Unfinished
      <3>3. main' = main /\ child' = [child EXCEPT ![c].status = st]
        BY <3>1, <3>2, <2>v
      <3> QED BY <3>2, <3>3, <2>s
    <2>4. CASE RefuseChild(c)
      BY <2>4, <2>v, <2>s DEF RefuseChild
    <2>5. CASE CancelChild(c)
      <3>1. \/ ChildWrite(c, [child[c] EXCEPT !.status = "canceled"])
            \/ child' = [child EXCEPT ![c].status = "stopping"] /\ main' = main
        <4>1. CASE child[c].status = "queued"
          BY <2>5, <4>1, Zenon DEF CancelChild
        <4>2. CASE child[c].status # "queued"
          BY <2>5, <4>2 DEF CancelChild
        <4> QED BY <4>1, <4>2
      <3> QED BY <3>1, <2>v, <2>s
    <2> QED BY <2>1, <2>2, <2>3, <2>4, <2>5, Zenon DEF ChildStep
  <1>2. PICK new : child' = [child EXCEPT ![c] = new]
                   /\ (new.status = "ready" => child[c].status = "active")
    BY <1>1
  <1>3. ASSUME NEW t \in Targets, child'[<<i, t>>].status = "ready"
        PROVE  child[<<i, t>>].status = "ready"
    <2>1. <<i, t>> \in Children
      BY ChildPairs
    <2>2. CASE <<i, t>> = c
      <3>1. child[<<i, t>>].status = "active"
        BY <1>t, <1>2, <1>3, <2>1, <2>2
      <3> QED BY <3>1 DEF GraphInv, CancelInv
    <2>3. CASE <<i, t>> # c
      BY <1>t, <1>2, <1>3, <2>1, <2>3
    <2> QED BY <2>2, <2>3
  <1> QED BY <1>1, <1>3

LEMMA SticksStep ==
    ASSUME GraphInv, GraphInv', GraphNext, NEW i \in Inputs, input[i].cancel, input'[i].cancel
    PROVE  /\ main'[i].status \notin {"queued", "active", "ready"}
                 \/ main'[i].status = main[i].status
           /\ \A t \in Targets :
                child'[<<i, t>>].status \notin {"queued", "active", "ready"}
                   \/ child'[<<i, t>>].status = child[<<i, t>>].status
  <1>1. /\ main'[i].status \notin {"queued", "active"}
        /\ \A t \in Targets : child'[<<i, t>>].status \notin {"queued", "active"}
    BY DEF GraphInv, CancelInv
  <1>2. /\ main'[i].status = "ready" => main[i].status = "ready"
        /\ \A t \in Targets :
              child'[<<i, t>>].status = "ready" => child[<<i, t>>].status = "ready"
    <2>1. CASE \E j \in Inputs : InputStep(j)
      BY <2>1, ReadyOfInput
    <2>2. CASE \E c \in Children : ChildStep(c)
      BY <2>2, ReadyOfChild
    <2> QED BY <2>1, <2>2, Zenon DEF GraphNext
  <1> QED BY <1>1, <1>2

\* Nothing of a canceled input starts, is created or becomes ready until it is
\* rediscovered or retried (request_cancel_input, commit_discovery, the end of
\* an attempt without a result).
THEOREM CancellationSticks == GraphSpec => CancelSticks
  <1> DEFINE Sticks ==
        \A i \in Inputs :
          input[i].cancel /\ input'[i].cancel =>
              /\ main'[i].status \notin {"queued", "active", "ready"}
                     \/ main'[i].status = main[i].status
              /\ \A t \in Targets :
                    child'[<<i, t>>].status \notin {"queued", "active", "ready"}
                       \/ child'[<<i, t>>].status = child[<<i, t>>].status
  <1>1. GraphInv /\ GraphInv' /\ [GraphNext]_graphVars => [Sticks]_graphVars
    BY SticksStep
  <1>2. CancelSticks <=> [][Sticks]_graphVars
    BY DEF CancelSticks
  <1> QED BY <1>1, <1>2, GraphInvariance, PTL DEF GraphSpec
=============================================================================
