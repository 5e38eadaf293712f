------------------------- MODULE ServerConnectProofs -------------------------
(***************************************************************************)
(* That ServerInv is an invariant of ServerConnect, for every list of      *)
(* servers and every number of attempts and sockets, and the properties    *)
(* that follow.  The calls under way are a stack; the first lemmas say     *)
(* what an action does to it.                                              *)
(***************************************************************************)
EXTENDS ServerConnect, ListLemmas, FiniteSetTheorems

------------------------------------------------------------------------------
(* The stack of calls. *)

\* An innermost call.
GoodCall(c) ==
  /\ c \in Calls /\ c.op \in Ops
  /\ c.op \in {"Failed", "Destroy", "Insert"} => c.s \in Sockets

\* Calls that may be put on n others.
GoodCalls(a, n) ==
  \A i \in 1..Len(a) :
    /\ GoodCall(a[i])
    /\ i > 1 => a[i].op \in Later
    /\ a[i].op \in {"Check", "Scan"} => i = Len(a) /\ n = 0

\* Calls that are not innermost.
Below(b) == \A i \in 1..Len(b) : b[i].op \in Later

\* What holds of a stack, of the calls it is made of and of what lies below.
Shape(t) ==
  /\ t \in Seq(Calls) /\ Len(t) \in Nat /\ DOMAIN t = 1..Len(t)
  /\ \A i \in 1..Len(t) :
       /\ t[i] \in Calls /\ t[i].op \in Ops
       /\ i > 1 => t[i].op \in Later
       /\ t[i].op \in {"Check", "Scan"} => i = Len(t)
       /\ t[i].op \in {"Failed", "Destroy", "Insert"} => t[i].s \in Sockets
  /\ t # <<>> <=> Len(t) > 0
  /\ t # <<>> => Head(t) = t[1]

\* A stack is a sequence.
LEMMA ShapeSeq ==
  ASSUME NEW t, Shape(t)
  PROVE  t \in Seq(Calls) /\ Len(t) \in Nat /\ DOMAIN t = 1..Len(t)
  BY DEF Shape

\* The innermost call.
LEMMA HeadIs ==
  ASSUME NEW t, Shape(t), t # <<>>
  PROVE  Len(t) \in Nat /\ Len(t) > 0 /\ 1 \in 1..Len(t) /\ Head(t) = t[1]
  <1>1. Len(t) \in Nat /\ Len(t) > 0 /\ Head(t) = t[1] BY DEF Shape
  <1> QED BY <1>1

\* The shape of a stack is its type and StackInv.
LEMMA ShapeIs ==
  /\ todo \in Seq(Calls) /\ StackInv <=> Shape(todo)
  /\ (todo \in Seq(Calls) /\ StackInv)' <=> Shape(todo')
  <1>1. ASSUME NEW t, t \in Seq(Calls)
        PROVE  /\ Len(t) \in Nat /\ DOMAIN t = 1..Len(t)
               /\ \A i \in 1..Len(t) : t[i] \in Calls /\ t[i].op \in Ops
               /\ t # <<>> <=> Len(t) > 0
               /\ t # <<>> => Head(t) = t[1]
    <2>1. \A c \in Calls : c.op \in Ops BY DEF Calls
    <2> QED BY <1>1, <2>1, LenProperties, ElementOfSeq, EmptySeq, ToSetTail
  <1>2. todo \in Seq(Calls) /\ StackInv <=> Shape(todo)
    BY <1>1 DEF Shape, StackInv
  <1>3. (todo \in Seq(Calls) /\ StackInv)' <=> Shape(todo')
    BY <1>1 DEF Shape, StackInv
  <1> QED BY <1>2, <1>3

\* The stack t is a on top of b.
Stacked(t, a, b) ==
  /\ Shape(t) /\ Len(t) = Len(a) + Len(b) /\ Len(a) \in Nat
  /\ \A i \in 1..Len(a) : t[i] = a[i]
  /\ \A i \in (Len(a) + 1)..Len(t) : t[i] = b[i - Len(a)]

\* Good calls on top of what may stay below them.
LEMMA OnTop ==
  ASSUME NEW a \in Seq(Calls), NEW b, Shape(b), NEW t, t = a \o b,
         Below(b), GoodCalls(a, Len(b))
  PROVE  Stacked(t, a, b)
  <1>1. b \in Seq(Calls) /\ Len(b) \in Nat BY DEF Shape
  <1>2. Len(a) \in Nat BY LenProperties
  <1>3. /\ t \in Seq(Calls) /\ Len(t) = Len(a) + Len(b)
        /\ \A i \in 1..(Len(a) + Len(b)) : t[i] = IF i <= Len(a) THEN a[i] ELSE b[i - Len(a)]
    BY <1>1, ConcatProperties
  <1>4. /\ \A i \in 1..Len(a) : t[i] = a[i]
        /\ \A i \in (Len(a) + 1)..Len(t) : t[i] = b[i - Len(a)] /\ i - Len(a) \in 1..Len(b)
    BY <1>1, <1>2, <1>3
  <1>6. ASSUME NEW i \in 1..Len(t)
        PROVE  /\ t[i] \in Calls /\ t[i].op \in Ops
               /\ i > 1 => t[i].op \in Later
               /\ t[i].op \in {"Check", "Scan"} => i = Len(t)
               /\ t[i].op \in {"Failed", "Destroy", "Insert"} => t[i].s \in Sockets
    <2>1. CASE i \in 1..Len(a)
      <3>2. /\ GoodCall(a[i]) /\ t[i] = a[i]
            /\ i > 1 => a[i].op \in Later
            /\ a[i].op \in {"Check", "Scan"} => i = Len(a) /\ Len(b) = 0
        BY <2>1, <1>4 DEF GoodCalls
      <3>3. Len(b) = 0 => Len(a) = Len(t) BY <1>2, <1>3
      <3> QED BY <3>2, <3>3 DEF GoodCall
    <2>2. CASE i \in (Len(a) + 1)..Len(t)
      <3>1. PICK j : j = i - Len(a) OBVIOUS
      <3>2. j \in 1..Len(b) /\ t[i] = b[j] /\ i = j + Len(a) BY <1>1, <1>2, <1>4, <2>2, <3>1
      <3>3. /\ b[j] \in Calls /\ b[j].op \in Ops
            /\ j > 1 => b[j].op \in Later
            /\ b[j].op \in {"Check", "Scan"} => j = Len(b)
            /\ b[j].op \in {"Failed", "Destroy", "Insert"} => b[j].s \in Sockets
        BY <3>2 DEF Shape
      <3>4. b[j].op \in Later BY <3>2 DEF Below
      <3>5. j = Len(b) => i = Len(t) BY <3>2, <1>1, <1>2, <1>3
      <3> QED BY <3>2, <3>3, <3>4, <3>5
    <2> QED BY <2>1, <2>2, <1>1, <1>2, <1>3
  <1>7. t # <<>> <=> Len(t) > 0 BY <1>3, EmptySeq
  <1>8. t # <<>> => Head(t) = t[1] BY <1>3, ToSetTail
  <1>9. DOMAIN t = 1..Len(t) /\ Len(t) \in Nat BY <1>3, LenProperties
  <1>10. Shape(t) BY <1>3, <1>6, <1>7, <1>8, <1>9 DEF Shape
  <1> QED BY <1>2, <1>3, <1>4, <1>10 DEF Stacked

\* What is left when the innermost call returns.
LEMMA TailIs ==
  ASSUME NEW t, Shape(t), t # <<>>
  PROVE  /\ Shape(Tail(t)) /\ Len(Tail(t)) = Len(t) - 1 /\ Len(t) \in Nat /\ Len(t) > 0
         /\ \A i \in 1..(Len(t) - 1) : Tail(t)[i] = t[i + 1] /\ Tail(t)[i].op \in Later
  <1>1. t \in Seq(Calls) /\ Len(t) \in Nat /\ Len(t) > 0 BY DEF Shape
  <1>2. /\ Tail(t) \in Seq(Calls) /\ Len(Tail(t)) = Len(t) - 1
        /\ \A i \in 1..(Len(t) - 1) : Tail(t)[i] = t[i + 1]
    BY <1>1, HeadTailProperties
  <1>3. \A i \in 1..(Len(t) - 1) : i + 1 \in 1..Len(t) /\ i + 1 > 1 BY <1>1
  <1>4. DOMAIN Tail(t) = 1..Len(Tail(t)) /\ Len(Tail(t)) \in Nat BY <1>2, LenProperties
  <1>5. /\ Tail(t) # <<>> <=> Len(Tail(t)) > 0
        /\ Tail(t) # <<>> => Head(Tail(t)) = Tail(t)[1]
    BY <1>2, EmptySeq, ToSetTail
  <1>6. \A i \in 1..Len(Tail(t)) :
          /\ Tail(t)[i] \in Calls /\ Tail(t)[i].op \in Later /\ Tail(t)[i].op \in Ops
          /\ Tail(t)[i].op \in {"Check", "Scan"} => i = Len(Tail(t))
          /\ Tail(t)[i].op \in {"Failed", "Destroy", "Insert"} => Tail(t)[i].s \in Sockets
    <2> SUFFICES ASSUME NEW i \in 1..(Len(t) - 1)
                 PROVE  /\ t[i + 1] \in Calls /\ t[i + 1].op \in Later /\ t[i + 1].op \in Ops
                        /\ t[i + 1].op \in {"Check", "Scan"} => i = Len(t) - 1
                        /\ t[i + 1].op \in {"Failed", "Destroy", "Insert"} => t[i + 1].s \in Sockets
      BY <1>2
    <2>1. i + 1 \in 1..Len(t) /\ i + 1 > 1 BY <1>1
    <2>2. /\ t[i + 1] \in Calls /\ t[i + 1].op \in Later /\ t[i + 1].op \in Ops
          /\ t[i + 1].op \in {"Check", "Scan"} => i + 1 = Len(t)
          /\ t[i + 1].op \in {"Failed", "Destroy", "Insert"} => t[i + 1].s \in Sockets
      BY <2>1 DEF Shape
    <2> QED BY <1>1, <2>2
  <1>7. Shape(Tail(t)) BY <1>2, <1>4, <1>5, <1>6 DEF Shape
  <1> QED BY <1>1, <1>2, <1>6, <1>7

\* A method returns.
LEMMA PopIs ==
  ASSUME Shape(todo), todo # <<>>, Run(<<>>)
  PROVE  /\ Shape(todo') /\ Len(todo') = Len(todo) - 1
         /\ \A i \in 1..Len(todo') : /\ i + 1 \in 1..Len(todo) /\ todo'[i] = todo[i + 1]
                                     /\ todo'[i].op \in Later
  <1>1. Shape(Tail(todo)) BY TailIs
  <1>2. todo' = Tail(todo) BY <1>1, ConcatEmptySeq DEF Shape, Run
  <1>3. Len(todo) \in Nat /\ Len(todo) > 0 /\ Len(Tail(todo)) = Len(todo) - 1 BY TailIs
  <1>4. \A i \in 1..(Len(todo) - 1) : i + 1 \in 1..Len(todo) BY <1>3
  <1> QED BY <1>1, <1>2, <1>3, <1>4, TailIs

\* A method has calls left, or makes them.
LEMMA RunIs ==
  ASSUME Shape(todo), todo # <<>>, NEW calls \in Seq(Calls), Run(calls), calls # <<>>,
         GoodCalls(calls, Len(todo) - 1)
  PROVE  /\ Shape(todo') /\ Len(todo') = Len(calls) + Len(todo) - 1
         /\ \A i \in 1..Len(calls) : todo'[i] = calls[i]
         /\ \A i \in (Len(calls) + 1)..Len(todo') :
              todo'[i] = todo[i - Len(calls) + 1] /\ todo'[i].op \in Later
  <1> DEFINE b == Tail(todo)
  <1>1. /\ Shape(b) /\ Len(b) = Len(todo) - 1 /\ Len(todo) \in Nat /\ Len(todo) > 0
        /\ \A i \in 1..(Len(todo) - 1) : b[i] = todo[i + 1] /\ b[i].op \in Later
    BY TailIs
  <1>2. todo' = calls \o b BY DEF Run
  <1>3a. GoodCalls(calls, Len(b)) BY <1>1
  <1>3b. Below(b) BY <1>1 DEF Below
  <1> HIDE DEF b
  <1>4. /\ Shape(todo') /\ Len(todo') = Len(calls) + Len(b) /\ Len(calls) \in Nat
        /\ \A i \in 1..Len(calls) : todo'[i] = calls[i]
        /\ \A i \in (Len(calls) + 1)..Len(todo') : todo'[i] = b[i - Len(calls)]
    <2>1. Stacked(todo', calls, b) BY <1>1, <1>2, <1>3a, <1>3b, OnTop
    <2> QED BY <2>1 DEF Stacked
  <1>5. \A i \in (Len(calls) + 1)..Len(todo') :
          /\ i - Len(calls) \in 1..(Len(todo) - 1)
          /\ (i - Len(calls)) + 1 = i - Len(calls) + 1
    BY <1>1, <1>4
  <1>6. Len(todo') = Len(calls) + Len(todo) - 1 BY <1>1, <1>4
  <1> QED BY <1>1, <1>4, <1>5, <1>6

\* One call takes the place of the innermost.
LEMMA OneIs ==
  ASSUME Shape(todo), todo # <<>>, NEW c, GoodCall(c), Run(<<c>>),
         c.op \in {"Check", "Scan"} => Len(todo) = 1
  PROVE  /\ Shape(todo') /\ Len(todo') = Len(todo) /\ todo'[1] = c /\ 1 \in 1..Len(todo)
         /\ \A i \in 2..Len(todo) : todo'[i] = todo[i] /\ todo'[i].op \in Later
  <1>0. Len(todo) \in Nat /\ Len(todo) > 0 BY DEF Shape
  <1> DEFINE calls == <<c>>
  <1>1. calls \in Seq(Calls) /\ Len(calls) = 1 /\ calls[1] = c /\ calls # <<>> BY DEF GoodCall
  <1>2. \A i \in 1..Len(calls) : i = 1 BY <1>1
  <1> HIDE DEF calls
  <1>3. Run(calls) BY DEF calls
  <1>3a. GoodCalls(calls, Len(todo) - 1) BY <1>0, <1>1, <1>2 DEF GoodCalls
  <1>4. /\ Shape(todo') /\ Len(todo') = Len(calls) + Len(todo) - 1
        /\ \A i \in 1..Len(calls) : todo'[i] = calls[i]
        /\ \A i \in (Len(calls) + 1)..Len(todo') :
             todo'[i] = todo[i - Len(calls) + 1] /\ todo'[i].op \in Later
    BY <1>1, <1>3, <1>3a, RunIs
  <1>5. \A i \in 2..Len(todo) : i \in (Len(calls) + 1)..Len(todo') /\ i - Len(calls) + 1 = i
    BY <1>0, <1>1, <1>4
  <1> QED BY <1>0, <1>1, <1>4, <1>5

\* Two calls do.
LEMMA TwoIs ==
  ASSUME Shape(todo), todo # <<>>, NEW c, NEW d, GoodCall(c), GoodCall(d), Run(<<c, d>>),
         c.op \notin {"Check", "Scan"}, d.op \in Later \ {"Check", "Scan"}
  PROVE  /\ Shape(todo') /\ Len(todo') = Len(todo) + 1 /\ todo'[1] = c /\ todo'[2] = d
         /\ Len(todo) \in Nat /\ Len(todo) > 0
         /\ \A i \in 3..Len(todo') : /\ i - 1 \in 2..Len(todo) /\ todo'[i] = todo[i - 1]
                                     /\ todo'[i].op \in Later
  <1>0. Len(todo) \in Nat /\ Len(todo) > 0 BY DEF Shape
  <1> DEFINE calls == <<c, d>>
  <1>1. calls \in Seq(Calls) /\ Len(calls) = 2 /\ calls[1] = c /\ calls[2] = d /\ calls # <<>>
    BY DEF GoodCall
  <1>2. \A i \in 1..Len(calls) : i = 1 \/ i = 2 BY <1>1
  <1> HIDE DEF calls
  <1>3. Run(calls) BY DEF calls
  <1>3a. GoodCalls(calls, Len(todo) - 1) BY <1>0, <1>1, <1>2 DEF GoodCalls
  <1>4. /\ Shape(todo') /\ Len(todo') = Len(calls) + Len(todo) - 1
        /\ \A i \in 1..Len(calls) : todo'[i] = calls[i]
        /\ \A i \in (Len(calls) + 1)..Len(todo') :
             todo'[i] = todo[i - Len(calls) + 1] /\ todo'[i].op \in Later
    BY <1>1, <1>3, <1>3a, RunIs
  <1>5. \A i \in 3..Len(todo') : /\ i \in (Len(calls) + 1)..Len(todo')
                                /\ i - Len(calls) + 1 = i - 1 /\ i - 1 \in 2..Len(todo)
    BY <1>0, <1>1, <1>4
  <1>6. Len(todo') = Len(todo) + 1 /\ 1 \in 1..Len(calls) /\ 2 \in 1..Len(calls) BY <1>0, <1>1, <1>4
  <1> QED BY <1>0, <1>1, <1>4, <1>5, <1>6

\* And three.
LEMMA ThreeIs ==
  ASSUME Shape(todo), todo # <<>>, NEW c, NEW d, NEW e,
         GoodCall(c), GoodCall(d), GoodCall(e), Run(<<c, d, e>>),
         c.op \notin {"Check", "Scan"}, {d.op, e.op} \subseteq Later \ {"Check", "Scan"}
  PROVE  /\ Shape(todo') /\ Len(todo') = Len(todo) + 2
         /\ todo'[1] = c /\ todo'[2] = d /\ todo'[3] = e
         /\ Len(todo) \in Nat /\ Len(todo) > 0
         /\ \A i \in 4..Len(todo') : /\ i - 2 \in 2..Len(todo) /\ todo'[i] = todo[i - 2]
                                     /\ todo'[i].op \in Later
  <1>0. Len(todo) \in Nat /\ Len(todo) > 0 BY DEF Shape
  <1> DEFINE calls == <<c, d, e>>
  <1>1. /\ calls \in Seq(Calls) /\ Len(calls) = 3 /\ calls # <<>>
        /\ calls[1] = c /\ calls[2] = d /\ calls[3] = e
    BY DEF GoodCall
  <1>2. \A i \in 1..Len(calls) : i = 1 \/ i = 2 \/ i = 3 BY <1>1
  <1> HIDE DEF calls
  <1>3. Run(calls) BY DEF calls
  <1>3a. GoodCalls(calls, Len(todo) - 1) BY <1>0, <1>1, <1>2 DEF GoodCalls
  <1>4. /\ Shape(todo') /\ Len(todo') = Len(calls) + Len(todo) - 1
        /\ \A i \in 1..Len(calls) : todo'[i] = calls[i]
        /\ \A i \in (Len(calls) + 1)..Len(todo') :
             todo'[i] = todo[i - Len(calls) + 1] /\ todo'[i].op \in Later
    BY <1>1, <1>3, <1>3a, RunIs
  <1>5. \A i \in 4..Len(todo') : /\ i \in (Len(calls) + 1)..Len(todo')
                                /\ i - Len(calls) + 1 = i - 2 /\ i - 2 \in 2..Len(todo)
    BY <1>0, <1>1, <1>4
  <1>6. /\ Len(todo') = Len(todo) + 2
        /\ 1 \in 1..Len(calls) /\ 2 \in 1..Len(calls) /\ 3 \in 1..Len(calls)
    BY <1>0, <1>1, <1>4
  <1> QED BY <1>0, <1>1, <1>4, <1>5, <1>6

\* The loop of CheckForTimeout makes two calls and goes on.
LEMMA LoopIs ==
  ASSUME Shape(todo), todo # <<>>, NEW c, NEW d, GoodCall(c), GoodCall(d),
         todo' = <<c, d>> \o todo, At("Scan"),
         c.op \notin {"Check", "Scan"}, d.op \in Later \ {"Check", "Scan"}
  PROVE  /\ Shape(todo') /\ Len(todo') = 3 /\ Len(todo) = 1
         /\ todo'[1] = c /\ todo'[2] = d /\ todo'[3] = todo[1] /\ todo[1].op = "Scan"
  <1>0. Len(todo) = 1 /\ todo[1].op = "Scan"
    <2>1. Head(todo) = todo[1] /\ 1 \in 1..Len(todo) BY HeadIs
    <2>2. todo[1].op = "Scan" BY <2>1 DEF At
    <2> QED BY <2>1, <2>2 DEF Shape
  <1> DEFINE calls == <<c, d>>
  <1>1. calls \in Seq(Calls) /\ Len(calls) = 2 /\ calls[1] = c /\ calls[2] = d /\ calls # <<>>
    BY DEF GoodCall
  <1>2. \A i \in 1..Len(calls) : i = 1 \/ i = 2 BY <1>1
  <1> HIDE DEF calls
  <1>3. todo' = calls \o todo BY DEF calls
  <1>4. Below(todo) BY <1>0 DEF Later, Below
  <1>4a. GoodCalls(calls, Len(todo)) BY <1>1, <1>2 DEF GoodCalls
  <1>5. /\ Shape(todo') /\ Len(todo') = Len(calls) + Len(todo)
        /\ \A i \in 1..Len(calls) : todo'[i] = calls[i]
        /\ \A i \in (Len(calls) + 1)..Len(todo') : todo'[i] = todo[i - Len(calls)]
    <2>1. Stacked(todo', calls, todo) BY <1>1, <1>3, <1>4, <1>4a, OnTop
    <2> QED BY <2>1 DEF Stacked
  <1>6. Len(todo') = 3 BY <1>0, <1>1, <1>5
  <1>7. todo'[1] = c /\ todo'[2] = d BY <1>1, <1>5
  <1>8. todo'[3] = todo[1] BY <1>1, <1>5, <1>6
  <1> QED BY <1>0, <1>5, <1>6, <1>7, <1>8

\* The calls an event begins with.
LEMMA EventIs ==
  /\ Shape(<<>>) /\ Len(<<>>) = 0
  /\ \A c : GoodCall(c) => Shape(<<c>>) /\ Len(<<c>>) = 1 /\ <<c>>[1] = c
  /\ \A c, d : GoodCall(c) /\ GoodCall(d) /\ d.op \in Later /\ c.op \notin {"Check", "Scan"}
       => Shape(<<c, d>>) /\ Len(<<c, d>>) = 2 /\ <<c, d>>[1] = c /\ <<c, d>>[2] = d
  <1>1. Shape(<<>>) /\ Len(<<>>) = 0 BY EmptySeq DEF Shape
  <1>2. ASSUME NEW c, GoodCall(c) PROVE Shape(<<c>>) /\ Len(<<c>>) = 1 /\ <<c>>[1] = c
    <2> DEFINE t == <<c>>
    <2>1. t \in Seq(Calls) /\ Len(t) = 1 /\ t[1] = c /\ t # <<>> /\ Head(t) = t[1] /\ DOMAIN t = 1..1
      BY <1>2 DEF GoodCall
    <2> HIDE DEF t
    <2>2. Shape(t) BY <1>2, <2>1 DEF Shape, GoodCall
    <2> QED BY <2>1, <2>2 DEF t
  <1>3. ASSUME NEW c, NEW d, GoodCall(c), GoodCall(d), d.op \in Later, c.op \notin {"Check", "Scan"}
        PROVE  Shape(<<c, d>>) /\ Len(<<c, d>>) = 2 /\ <<c, d>>[1] = c /\ <<c, d>>[2] = d
    <2> DEFINE t == <<c, d>>
    <2>1. /\ t \in Seq(Calls) /\ Len(t) = 2 /\ t[1] = c /\ t[2] = d /\ t # <<>>
          /\ Head(t) = t[1] /\ DOMAIN t = 1..2
      BY <1>3 DEF GoodCall
    <2> HIDE DEF t
    <2>2. \A i \in 1..Len(t) : i = 1 \/ i = 2 BY <2>1
    <2>3. Shape(t) BY <1>3, <2>1, <2>2 DEF Shape, GoodCall
    <2> QED BY <2>1, <2>3 DEF t
  <1> QED BY <1>1, <1>2, <1>3

------------------------------------------------------------------------------
(* The values the variables take. *)

\* The constants, as the steps below use them.
LEMMA Basics ==
  /\ Servers[1] \in ServerSet
  /\ Sockets \subseteq Nat /\ NoSocket \notin Sockets /\ 0 \notin Sockets
  /\ DeadRetries \in Nat /\ MaxSim \in Nat
  /\ {Reconnect, StaticOnly, CryptRequested, CryptRequired, AddressReuse} \subseteq BOOLEAN
  /\ Chosen \subseteq ServerSet
  <1>1. Servers \in Seq(ServerSet) /\ Servers # <<>> BY ServerConnectConstants
  <1>2. DOMAIN Servers = 1..Len(Servers) /\ Len(Servers) \in Nat /\ Len(Servers) # 0
    BY <1>1, LenProperties, EmptySeq
  <1>3. 1 \in DOMAIN Servers BY <1>2
  <1>4. MaxSockets \in Nat BY ServerConnectConstants
  <1>5. Servers[1] \in ServerSet BY <1>3 DEF ServerSet
  <1>6. Sockets \subseteq Nat /\ NoSocket \notin Sockets /\ 0 \notin Sockets
    BY <1>4 DEF Sockets, NoSocket
  <1>8. /\ DeadRetries \in Nat /\ MaxSim \in Nat /\ Chosen \subseteq ServerSet
        /\ {Reconnect, StaticOnly, CryptRequested, CryptRequired, AddressReuse} \subseteq BOOLEAN
    BY ServerConnectConstants
  <1> QED BY <1>5, <1>6, <1>8

\* What a socket object can be.
LEMMA ObjectsAre ==
  /\ Deleted \in Objects
  /\ ~Deleted.m_IsSolving /\ Deleted.tcp = "closed"
  /\ \A v \in ServerSet, b \in BOOLEAN : NewSocket(v, b) \in Objects
  /\ \A v \in ServerSet, k \in Objects : Resolved(k, v) \in Objects
  /\ \A v \in ServerSet, k \in Objects : ~Resolved(k, v).m_IsSolving
  /\ \A v \in ServerSet, b \in BOOLEAN :
       /\ NewSocket(v, b).m_IsSolving => NewSocket(v, b).tcp = "closed" /\ NewSocket(v, b).state = "CONNECTING"
       /\ ~NewSocket(v, b).m_bIsDeleting
  <1>1. Deleted \in Objects /\ ~Deleted.m_IsSolving /\ Deleted.tcp = "closed" /\ Deleted.m_bIsDeleting = FALSE
    BY Basics DEF Deleted, Objects, States
  <1>2. \A v \in ServerSet, b \in BOOLEAN : NewSocket(v, b) \in Objects
    <2> SUFFICES ASSUME NEW v \in ServerSet, NEW b \in BOOLEAN PROVE NewSocket(v, b) \in Objects
      OBVIOUS
    <2>1. CASE v \in DynIP BY <2>1, Basics DEF Deleted, Objects, NewSocket, States
    <2>2. CASE v \notin DynIP
      <3>1. (v \in DynIP) = FALSE BY <2>2
      <3> QED BY <3>1, Basics DEF Deleted, Objects, NewSocket, States
    <2> QED BY <2>1, <2>2
  <1>3. \A v \in ServerSet, k \in Objects : Resolved(k, v) \in Objects
    <2> SUFFICES ASSUME NEW v \in ServerSet, NEW k \in Objects PROVE Resolved(k, v) \in Objects
      OBVIOUS
    <2>1. CASE v \in Filtered BY <2>1 DEF Objects, Resolved, States
    <2>2. CASE v \notin Filtered
      <3>1. PICK b \in BOOLEAN : b = (~k.m_bNoCrypt /\ CryptRequested /\ k.server \in Obfuscated)
        BY Zenon
      <3>2. Resolved(k, v) = [k EXCEPT !.m_IsSolving = FALSE, !.addr = v, !.tcp = "asked", !.m_bServerCrypt = b]
        BY <2>2, <3>1, Zenon DEF Resolved
      <3> QED BY <3>2 DEF Objects
    <2> QED BY <2>1, <2>2
  <1>4. \A v \in ServerSet, k \in Objects : ~Resolved(k, v).m_IsSolving
    BY Basics DEF Objects, Resolved
  <1>5. \A v \in ServerSet, b \in BOOLEAN :
       /\ NewSocket(v, b).m_IsSolving => NewSocket(v, b).tcp = "closed" /\ NewSocket(v, b).state = "CONNECTING"
       /\ ~NewSocket(v, b).m_bIsDeleting
    BY DEF Deleted, NewSocket
  <1> QED BY <1>1, <1>2, <1>3, <1>4, <1>5

\* The calls that the actions make.
LEMMA CallsAre ==
  /\ \A op \in Ops \ {"Failed", "Destroy", "Insert"} : GoodCall(Call(op)) /\ Call(op).op = op
  /\ \A op \in Ops, s \in Sockets : GoodCall(On(op, s)) /\ On(op, s).op = op /\ On(op, s).s = s
  /\ \A op \in Ops \ {"Failed", "Destroy", "Insert"}, v \in ServerSet :
       GoodCall(To(op, v)) /\ To(op, v).op = op /\ To(op, v).v = v
  <1>1. \A op \in Ops \ {"Failed", "Destroy", "Insert"} : GoodCall(Call(op)) /\ Call(op).op = op
    BY Basics DEF GoodCall, Call, Calls
  <1>2. \A op \in Ops, s \in Sockets : GoodCall(On(op, s)) /\ On(op, s).op = op /\ On(op, s).s = s
    BY Basics DEF GoodCall, Call, On, Calls
  <1>3. \A op \in Ops \ {"Failed", "Destroy", "Insert"}, v \in ServerSet :
       GoodCall(To(op, v)) /\ To(op, v).op = op /\ To(op, v).v = v
    BY Basics DEF GoodCall, Call, To, Calls
  <1> QED BY <1>1, <1>2, <1>3

\* The innermost call is made on a socket.
LEMMA MeIs ==
  ASSUME Shape(todo), NEW op \in {"Failed", "Destroy", "Insert"}, At(op)
  PROVE  Me \in Sockets /\ Me = todo[1].s /\ todo[1].op = op /\ 1 \in 1..Len(todo)
  <1>1. todo # <<>> /\ Head(todo).op = op BY DEF At
  <1>2. 1 \in 1..Len(todo) /\ Head(todo) = todo[1] BY <1>1, HeadIs
  <1>3. todo[1].op = op BY <1>1, <1>2
  <1>4. todo[1].s \in Sockets
    <2>1. todo[1].op \in {"Failed", "Destroy", "Insert"} BY <1>3
    <2> QED BY <1>2, <2>1 DEF Shape
  <1> QED BY <1>2, <1>3, <1>4 DEF Me

\* Open makes a socket of a free address and one of two series of calls.
Opened(s, v, noCrypt, gone) ==
  /\ s \in Free /\ s \in Sockets
  /\ m_lstOpenSockets' = (m_lstOpenSockets \ gone) \cup {s}
  /\ sock' = [x \in Sockets |-> IF x = s THEN (IF v \in DynIP THEN NewSocket(v, noCrypt)
                                               ELSE Resolved(NewSocket(v, noCrypt), v))
                                ELSE IF x \in gone THEN Deleted ELSE sock[x]]
  /\ lookups' = lookups \/ (v \in DynIP /\ lookups' = lookups \cup {[s |-> s, v |-> v]})
  /\ IF v \in Filtered \ DynIP
       THEN Run(<<On("Failed", s), On("Destroy", s), On("Insert", s)>>)
       ELSE Run(<<On("Insert", s)>>)

\* Open is Opened for some socket.
LEMMA OpenIs ==
  ASSUME NEW v, NEW multi, NEW noCrypt, NEW gone, Open(v, multi, noCrypt, gone)
  PROVE  \E s : Opened(s, v, noCrypt, gone)
  <1> DEFINE s == CHOOSE x \in Free : \A y \in Free : x <= y
  <1>1. Free \in SUBSET Nat /\ Free # {} /\ Free \subseteq Sockets
    BY Basics DEF Free, Open
  <1>2. s \in Free /\ s \in Sockets BY <1>1, LeastNat
  <1>3. \A c : <<>> \o <<c>> = <<c>> OBVIOUS
  <1>4. ASSUME NEW c, NEW d, NEW e PROVE <<c, d>> \o <<e>> = <<c, d, e>>
    <2> DEFINE a == <<c, d>>
               b == <<e>>
               t == <<c, d, e>>
               S == {c, d, e}
    <2>1. /\ a \in Seq(S) /\ Len(a) = 2 /\ a[1] = c /\ a[2] = d
          /\ b \in Seq(S) /\ Len(b) = 1 /\ b[1] = e
          /\ t \in Seq(S) /\ Len(t) = 3 /\ t[1] = c /\ t[2] = d /\ t[3] = e
      OBVIOUS
    <2> HIDE DEF a, b, t, S
    <2>2. /\ a \o b \in Seq(S) /\ Len(a \o b) = 3
          /\ \A i \in 1..3 : (a \o b)[i] = IF i <= 2 THEN a[i] ELSE b[i - 2]
      <3>1. /\ a \o b \in Seq(S) /\ Len(a \o b) = Len(a) + Len(b)
            /\ \A i \in 1..Len(a) + Len(b) : (a \o b)[i] = IF i <= Len(a) THEN a[i] ELSE b[i - Len(a)]
        BY <2>1, ConcatProperties
      <3>2. Len(a) + Len(b) = 3 BY <2>1
      <3> QED BY <2>1, <3>1, <3>2
    <2>3. \A i \in 1..3 : (a \o b)[i] = t[i] BY <2>1, <2>2
    <2>4. a \o b = t BY <2>1, <2>2, <2>3, SeqEqual
    <2> QED BY <2>4 DEF a, b, t
  <1>5. /\ m_lstOpenSockets' = (m_lstOpenSockets \ gone) \cup {s}
        /\ sock' = [x \in Sockets |-> IF x = s THEN (IF v \in DynIP THEN NewSocket(v, noCrypt)
                                                     ELSE Resolved(NewSocket(v, noCrypt), v))
                                      ELSE IF x \in gone THEN Deleted ELSE sock[x]]
        /\ lookups' = lookups \/ (v \in DynIP /\ lookups' = lookups \cup {[s |-> s, v |-> v]})
        /\ \/ v \in DynIP /\ Run(<<On("Insert", s)>>)
           \/ v \notin DynIP /\ Run(ResolvedCalls(s, v) \o <<On("Insert", s)>>)
    BY DEF Open
  <1> HIDE DEF s
  <1>6. IF v \in Filtered \ DynIP
          THEN Run(<<On("Failed", s), On("Destroy", s), On("Insert", s)>>)
          ELSE Run(<<On("Insert", s)>>)
    <2>1. CASE v \in DynIP BY <1>5, <2>1
    <2>2. CASE v \notin DynIP /\ v \in Filtered
      <3>1. ResolvedCalls(s, v) \o <<On("Insert", s)>>
              = <<On("Failed", s), On("Destroy", s), On("Insert", s)>>
        BY <2>2, <1>4, Zenon DEF ResolvedCalls
      <3> QED BY <1>5, <2>2, <3>1
    <2>3. CASE v \notin DynIP /\ v \notin Filtered
      <3>1. ResolvedCalls(s, v) \o <<On("Insert", s)>> = <<On("Insert", s)>>
        BY <2>3, <1>3, Zenon DEF ResolvedCalls
      <3> QED BY <1>5, <2>3, <3>1
    <2> QED BY <2>1, <2>2, <2>3
  <1> QED BY <1>2, <1>5, <1>6, Zenon DEF Opened

------------------------------------------------------------------------------
(* The cursor of the server list. *)

\* Filter keeps as many elements as there are places that qualify.
LEMMA CountFilter ==
  ASSUME NEW A, NEW S, NEW s \in Seq(A)
  PROVE  /\ IsFiniteSet({i \in 1..Len(s) : s[i] \in S})
         /\ Len(Filter(s, S)) = Cardinality({i \in 1..Len(s) : s[i] \in S})
  <1>1. PICK g : Filter(s, S) = g[Len(s)] /\ FilterStep(s, S, g, Len(s))
    BY FilterDef
  <1>2. Len(s) \in Nat /\ s \in [1..Len(s) -> A] BY LenProperties
  <1> DEFINE Places(k) == {i \in 1..k : s[i] \in S}
             Good(k) == g[k] \in Seq(A) /\ IsFiniteSet(Places(k)) /\ Len(g[k]) = Cardinality(Places(k))
             T == {k \in 0..Len(s) : ~Good(k)}
  <1>3. T = {}
    <2> SUFFICES ASSUME T # {} PROVE FALSE OBVIOUS
    <2>1. T \in SUBSET Nat BY <1>2
    <2>2. PICK m \in T : \A k \in T : m <= k BY <2>1, LeastNat
    <2>3. CASE m = 0
      <3>1. Places(0) = {} BY <1>2
      <3>2. g[0] = <<>> BY <1>1, <1>2 DEF FilterStep
      <3> QED BY <2>2, <2>3, <3>1, <3>2, FS_EmptySet, EmptySeq
    <2>4. CASE m # 0
      <3>1. m \in 1..Len(s) /\ m - 1 \in 0..Len(s)
        <4>1. m \in 0..Len(s) BY <2>2
        <4> QED BY <4>1, <1>2, <2>4
      <3>2. Good(m - 1)
        <4>1. ~(m <= m - 1) BY <3>1
        <4>2. m - 1 \notin T
          <5> HIDE DEF T
          <5> QED BY <4>1, <2>2
        <4> HIDE DEF Good
        <4> QED BY <3>1, <4>2
      <3>3. g[m] = IF s[m] \in S THEN Append(g[m - 1], s[m]) ELSE g[m - 1]
        BY <1>1, <1>2, <3>1 DEF FilterStep
      <3>4. CASE s[m] \in S
        <4>1. Places(m) = Places(m - 1) \cup {m} /\ m \notin Places(m - 1) BY <3>1, <3>4
        <4>2. IsFiniteSet(Places(m)) /\ Cardinality(Places(m)) = Cardinality(Places(m - 1)) + 1
          <5>1. IsFiniteSet(Places(m - 1)) BY <3>2
          <5> HIDE DEF Places
          <5>2. Cardinality(Places(m - 1) \cup {m}) = Cardinality(Places(m - 1)) + 1
            BY <5>1, <4>1, FS_AddElement
          <5> QED BY <4>1, <5>1, <5>2, FS_AddElement
        <4>3. g[m] \in Seq(A) /\ Len(g[m]) = Len(g[m - 1]) + 1
          BY <3>1, <3>2, <3>3, <3>4, <1>2, AppendProperties
        <4> QED BY <2>2, <3>2, <4>2, <4>3
      <3>5. CASE s[m] \notin S
        <4>1. Places(m) = Places(m - 1) BY <3>1, <3>5
        <4> QED BY <2>2, <3>2, <3>3, <3>5, <4>1
      <3> QED BY <3>4, <3>5
    <2> QED BY <2>3, <2>4
  <1>4. Good(Len(s))
    <2>1. Len(s) \in 0..Len(s) BY <1>2
    <2> HIDE DEF Good
    <2> QED BY <2>1, <1>3
  <1> QED BY <1>1, <1>4

\* Without some servers, the cursor still stands in the list or at its end.
LEMMA CursorStays ==
  ASSUME TypeOK, NEW gone
  PROVE  /\ Filter(m_servers, ServerSet \ gone) \in Seq(ServerSet)
         /\ MovedCursor(gone) \in 1..(Len(Filter(m_servers, ServerSet \ gone)) + 1)
  <1> DEFINE l == Filter(m_servers, ServerSet \ gone)
             p == m_serverpos
             all == {i \in 1..Len(m_servers) : m_servers[i] \in ServerSet \ gone}
             kept == {i \in 1..(p - 1) : m_servers[i] \notin gone}
             lost == {i \in DOMAIN m_servers : i < p /\ m_servers[i] \in gone}
  <1>1. m_servers \in Seq(ServerSet) /\ p \in 1..(Len(m_servers) + 1) BY DEF TypeOK
  <1>2. /\ Len(m_servers) \in Nat /\ DOMAIN m_servers = 1..Len(m_servers)
        /\ \A i \in 1..Len(m_servers) : m_servers[i] \in ServerSet
    BY <1>1, LenProperties, ElementOfSeq
  <1>3. l \in Seq(ServerSet) BY <1>1, FilterProperties
  <1>4. IsFiniteSet(all) /\ Len(l) = Cardinality(all) BY <1>1, CountFilter
  <1>5. kept \subseteq all /\ kept \cup lost = 1..(p - 1) /\ kept \cap lost = {}
    BY <1>1, <1>2
  <1>6. IsFiniteSet(1..(p - 1)) /\ Cardinality(1..(p - 1)) = p - 1
    <2>1. PICK n : n = p - 1 OBVIOUS
    <2>2. n \in Nat BY <1>1, <1>2, <2>1
    <2>3. IsFiniteSet(1..n) /\ Cardinality(1..n) = n
      <3>1. Cardinality(1..n) = IF 1 > n THEN 0 ELSE n - 1 + 1 BY <2>2, FS_Interval
      <3>2. (IF 1 > n THEN 0 ELSE n - 1 + 1) = n BY <2>2
      <3> QED BY <3>1, <3>2, <2>2, FS_Interval
    <2> QED BY <2>1, <2>3
  <1>7. IsFiniteSet(kept) /\ IsFiniteSet(lost)
    BY <1>5, <1>6, FS_Subset
  <1> HIDE DEF kept, lost, all, l, p
  <1>8. Cardinality(kept) + Cardinality(lost) = p - 1
    <2>1. Cardinality(kept \cap lost) = 0 BY <1>5, FS_EmptySet
    <2>2. Cardinality(kept \cup lost) = Cardinality(kept) + Cardinality(lost) - Cardinality(kept \cap lost)
      BY <1>7, FS_Union
    <2>3. Cardinality(kept) \in Nat /\ Cardinality(lost) \in Nat BY <1>7, FS_CardinalityType
    <2>4. Cardinality(kept \cup lost) = p - 1 BY <1>5, <1>6
    <2> QED BY <2>1, <2>2, <2>3, <2>4
  <1>9. Cardinality(kept) \in Nat /\ Cardinality(lost) \in Nat /\ Cardinality(all) \in Nat
    BY <1>4, <1>7, FS_CardinalityType
  <1>10. Cardinality(kept) <= Cardinality(all) BY <1>4, <1>5, FS_Subset
  <1>11. MovedCursor(gone) = p - Cardinality(lost) BY DEF MovedCursor, lost, p
  <1>12. p \in Nat BY <1>1, <1>2
  <1>13. MovedCursor(gone) \in 1..(Len(l) + 1) BY <1>4, <1>8, <1>9, <1>10, <1>11, <1>12
  <1> QED BY <1>3, <1>13 DEF l

------------------------------------------------------------------------------
(* CoreInv, action by action. *)

\* The parts of CoreInv, with the stack.
LEMMA Parts ==
  ASSUME CoreInv
  PROVE  /\ TypeOK /\ Shape(todo) /\ StackInv /\ FlagInv /\ CallsInv /\ OpenInv
         /\ SearchInv /\ SolvingInv
  BY ShapeIs DEF CoreInv, TypeOK

\* And back.
LEMMA PartsNext ==
  ASSUME TypeOK', Shape(todo'), FlagInv', CallsInv', OpenInv', SearchInv', SolvingInv'
  PROVE  CoreInv'
  BY ShapeIs DEF CoreInv

\* Where the flags and the list stay, what relates them stays too.
LEMMA FlagsStay ==
  ASSUME FlagInv, SearchInv, ~At("ConnectToAny"),
         UNCHANGED <<connVars, wanted, evidence, m_idRetryTimer, m_hostnameResolvedThisSweep,
                     m_servers>>
  PROVE  FlagInv' /\ SearchInv'
  <1>1. FlagInv' BY DEF FlagInv, connVars
  <1>2. AnyServer' <=> AnyServer BY DEF AnyServer
  <1>3. SearchInv' BY <1>2 DEF SearchInv, connVars
  <1> QED BY <1>1, <1>3

\* Where the sockets and connecting stay.
LEMMA SocketsStay ==
  ASSUME OpenInv, SolvingInv, UNCHANGED <<connecting, connectedsocket, m_lstOpenSockets, sock>>
  PROVE  OpenInv' /\ SolvingInv'
  BY DEF OpenInv, SolvingInv

\* Where a call returns.
LEMMA CallsPop ==
  ASSUME Shape(todo), todo # <<>>, CallsInv, Run(<<>>), connected' => connected
  PROVE  CallsInv' /\ ~At("ConnectToAny")'
  <1>1. /\ Shape(todo')
        /\ \A i \in 1..Len(todo') : i + 1 \in 1..Len(todo) /\ todo'[i] = todo[i + 1] /\ todo'[i].op \in Later
    BY PopIs
  <1>2. DOMAIN todo = 1..Len(todo) /\ DOMAIN todo' = 1..Len(todo') BY <1>1, ShapeSeq
  <1>3. CallsInv' BY <1>1, <1>2 DEF CallsInv
  <1>4. ~At("ConnectToAny")'
    <2> SUFFICES ASSUME todo' # <<>> PROVE Head(todo').op # "ConnectToAny" BY DEF At
    <2>1. 1 \in 1..Len(todo') /\ Head(todo') = todo'[1] BY <1>1, HeadIs
    <2> QED BY <1>1, <2>1 DEF Later
  <1> QED BY <1>3, <1>4

\* A call that leaves the connection alone is not made while there is one.
LEMMA NotConnected ==
  ASSUME Shape(todo), CallsInv, NEW op, At(op),
         op \notin {"ConnectToAny", "ConnectTo", "Failed", "Destroy"}
  PROVE  ~connected
  <1>1. todo # <<>> /\ Head(todo).op = op BY DEF At
  <1>2. 1 \in 1..Len(todo) /\ Head(todo) = todo[1] BY <1>1, HeadIs
  <1>3. 1 \in DOMAIN todo BY <1>2, ShapeSeq
  <1> QED BY <1>1, <1>2, <1>3 DEF CallsInv

\* CoreInv, action by action: TryAnotherConnectionrequest returns at once.
LEMMA TryRefusedKeeps ==
  ASSUME CoreInv, TryRefused
  PROVE  CoreInv'
  <1>0. /\ TypeOK /\ Shape(todo) /\ FlagInv /\ CallsInv /\ OpenInv /\ SearchInv /\ SolvingInv
        /\ todo # <<>> /\ ~At("ConnectToAny")
    BY Parts DEF TryRefused, At
  <1>1. Shape(todo') BY <1>0, PopIs DEF TryRefused
  <1>2. TypeOK' BY <1>0, <1>1, ShapeSeq DEF TypeOK, TryRefused, connVars, mapVars, listVars, flagVars,
                                  sockVars, histVars
  <1>3. FlagInv' /\ SearchInv'
    BY <1>0, FlagsStay DEF TryRefused, connVars, listVars, flagVars, histVars
  <1>4. OpenInv' /\ SolvingInv'
    BY <1>0, SocketsStay DEF TryRefused, connVars, sockVars
  <1>5. CallsInv' BY <1>0, CallsPop DEF TryRefused, connVars
  <1> QED BY <1>1, <1>2, <1>3, <1>4, <1>5, PartsNext

\* A socket is destroyed.
LEMMA DestroySocketKeeps ==
  ASSUME CoreInv, DestroySocket
  PROVE  CoreInv'
  <1>0. /\ TypeOK /\ Shape(todo) /\ FlagInv /\ CallsInv /\ OpenInv /\ SearchInv /\ SolvingInv
        /\ todo # <<>> /\ ~At("ConnectToAny")
    BY Parts DEF DestroySocket, At
  <1>1. Shape(todo') BY <1>0, PopIs DEF DestroySocket
  <1>2. TypeOK'
    BY <1>0, <1>1, ObjectsAre, ShapeSeq
    DEF TypeOK, DestroySocket, DestroySockets, connVars, mapVars, listVars, flagVars, histVars
  <1>3. FlagInv' /\ SearchInv'
    BY <1>0, FlagsStay DEF DestroySocket, connVars, listVars, flagVars, histVars
  <1>4. OpenInv' /\ SolvingInv'
    BY <1>0, ObjectsAre DEF DestroySocket, DestroySockets, connVars, TypeOK, OpenInv, SolvingInv
  <1>5. CallsInv' BY <1>0, CallsPop DEF DestroySocket, connVars
  <1> QED BY <1>1, <1>2, <1>3, <1>4, <1>5, PartsNext

\* An attempt enters the map, in a place of its own or in that of another.
LEMMA InsertKeeps ==
  ASSUME CoreInv, Insert
  PROVE  CoreInv'
  <1>0. /\ TypeOK /\ Shape(todo) /\ FlagInv /\ CallsInv /\ OpenInv /\ SearchInv /\ SolvingInv
        /\ todo # <<>> /\ ~At("ConnectToAny") /\ At("Insert")
    BY Parts DEF Insert, At
  <1>1. Shape(todo') BY <1>0, PopIs DEF Insert
  <1>2. TypeOK'
    <2>1. Me \in Sockets BY <1>0, MeIs
    <2>2. connectionattemps \in Seq(Sockets) /\ Len(connectionattemps) \in Nat
      BY <1>0, LenProperties DEF TypeOK
    <2>3. connectionattemps' \in Seq(Sockets)
      <3>1. Append(connectionattemps, Me) \in Seq(Sockets) BY <2>1, <2>2, AppendProperties
      <3>2. [connectionattemps EXCEPT ![lastKey] = Me] \in Seq(Sockets)
        <4> DEFINE n == Len(connectionattemps)
        <4>1. connectionattemps \in [1..n -> Sockets] BY <2>2, LenProperties
        <4>2. [connectionattemps EXCEPT ![lastKey] = Me] \in [1..n -> Sockets] BY <2>1, <4>1
        <4> HIDE DEF n
        <4> QED BY <2>2, <4>2, SeqDef DEF n
      <3> QED BY <3>1, <3>2 DEF Insert
    <2>4. {it', expired', aged', lastKey'} \subseteq Int
      BY <1>0, <2>2 DEF Insert, TypeOK
    <2> QED BY <1>0, <1>1, <2>3, <2>4, ShapeSeq
        DEF TypeOK, Insert, connVars, listVars, flagVars, sockVars, histVars
  <1>3. FlagInv' /\ SearchInv'
    BY <1>0, FlagsStay DEF Insert, connVars, listVars, flagVars, histVars
  <1>4. OpenInv' /\ SolvingInv'
    BY <1>0, SocketsStay DEF Insert, connVars, sockVars
  <1>5. CallsInv' BY <1>0, CallsPop DEF Insert, connVars
  <1> QED BY <1>1, <1>2, <1>3, <1>4, <1>5, PartsNext

\* A call that returns and leaves the flags and the sockets alone.
LEMMA PopKeeps ==
  ASSUME CoreInv, todo # <<>>, ~At("ConnectToAny"), Run(<<>>),
         UNCHANGED <<connVars, wanted, evidence, m_idRetryTimer, m_hostnameResolvedThisSweep,
                     m_servers, m_lstOpenSockets, sock>>,
         todo' \in Seq(Calls) => TypeOK'
  PROVE  CoreInv'
  <1>0. TypeOK /\ Shape(todo) /\ FlagInv /\ CallsInv /\ OpenInv /\ SearchInv /\ SolvingInv BY Parts
  <1>1. Shape(todo') BY <1>0, PopIs
  <1>2. TypeOK' BY <1>1, ShapeSeq
  <1>3. FlagInv' /\ SearchInv' BY <1>0, FlagsStay
  <1>4. OpenInv' /\ SolvingInv' BY <1>0, SocketsStay DEF connVars
  <1>5. CallsInv' BY <1>0, CallsPop DEF connVars
  <1> QED BY <1>1, <1>2, <1>3, <1>4, <1>5, PartsNext

\* The list is exhausted, attempts are under way.
LEMMA TryWaitKeeps ==
  ASSUME CoreInv, TryWait
  PROVE  CoreInv'
  <1>0. TypeOK /\ todo # <<>> /\ ~At("ConnectToAny") BY Parts DEF TryWait, Exhausted, MayTry, At
  <1>1. m_serverpos' \in 1..(Len(m_servers') + 1)
    <2>1. Len(m_servers) \in Nat BY <1>0, LenProperties DEF TypeOK
    <2> QED BY <2>1 DEF TryWait, Exhausted
  <1>2. todo' \in Seq(Calls) => TypeOK'
    BY <1>0, <1>1 DEF TypeOK, TryWait, connVars, mapVars, flagVars, sockVars, histVars
  <1> QED BY <1>0, <1>2, PopKeeps DEF TryWait, flagVars, sockVars, histVars

\* The second pass is over.
LEMMA UnrecurseKeeps ==
  ASSUME CoreInv, Unrecurse
  PROVE  CoreInv'
  <1>0. TypeOK /\ todo # <<>> /\ ~At("ConnectToAny") BY Parts DEF Unrecurse, At
  <1>2. todo' \in Seq(Calls) => TypeOK'
    BY <1>0 DEF TypeOK, Unrecurse, connVars, mapVars, listVars, sockVars, histVars
  <1> QED BY <1>0, <1>2, PopKeeps DEF Unrecurse, listVars, sockVars, histVars

\* The loop of CheckForTimeout ends.
LEMMA CheckEndKeeps ==
  ASSUME CoreInv, CheckEnd
  PROVE  CoreInv'
  <1>0. TypeOK /\ todo # <<>> /\ ~At("ConnectToAny") BY Parts DEF CheckEnd, At
  <1>1. {it', expired', aged', lastKey'} \subseteq Int
    <2>1. Len(connectionattemps) \in Nat BY <1>0, LenProperties DEF TypeOK
    <2> QED BY <1>0, <2>1 DEF CheckEnd, TypeOK
  <1>2. todo' \in Seq(Calls) => TypeOK'
    BY <1>0, <1>1 DEF TypeOK, CheckEnd, connVars, listVars, flagVars, sockVars, histVars
  <1> QED BY <1>0, <1>2, PopKeeps DEF CheckEnd, listVars, flagVars, sockVars, histVars

\* A call of CheckForTimeout is the last of the stack.
LEMMA CheckIsLast ==
  ASSUME Shape(todo), NEW op \in {"Check", "Scan"}, At(op)
  PROVE  Len(todo) = 1 /\ todo[1].op = op /\ 1 \in 1..Len(todo)
  <1>1. todo # <<>> /\ Head(todo).op = op BY DEF At
  <1>2. 1 \in 1..Len(todo) /\ Head(todo) = todo[1] BY <1>1, HeadIs
  <1>3. todo[1].op \in {"Check", "Scan"} BY <1>1, <1>2
  <1>4. 1 = Len(todo)
    <2>1. \A i \in 1..Len(todo) : todo[i].op \in {"Check", "Scan"} => i = Len(todo) BY Zenon DEF Shape
    <2> QED BY <1>2, <1>3, <2>1
  <1> QED BY <1>1, <1>2, <1>4

\* Blaming a server keeps its count within bounds.
LEMMA BlameIs ==
  ASSUME TypeOK, Me \in Sockets, Blame
  PROVE  failed' \in [ServerSet -> 0..(DeadRetries + 1)]
  <1>1. PICK v : v = sock[Me].server OBVIOUS
  <1>2. v \in ServerSet BY <1>1 DEF TypeOK, Objects
  <1>3. failed \in [ServerSet -> 0..(DeadRetries + 1)] BY DEF TypeOK
  <1>4. failed' = failed \/ (failed[v] <= DeadRetries /\ failed' = [failed EXCEPT ![v] = @ + 1])
    BY <1>1 DEF Blame
  <1>5. ASSUME failed[v] <= DeadRetries PROVE failed[v] + 1 \in 0..(DeadRetries + 1)
    BY <1>2, <1>3, <1>5, Basics
  <1> QED BY <1>2, <1>3, <1>4, <1>5

\* Marking a socket leaves the rest of it as it is.
LEMMA MarkedIs ==
  ASSUME TypeOK, Me \in Sockets
  PROVE  /\ MarkedSender \in [Sockets -> Objects] /\ MarkedSender[Me].m_bIsDeleting
         /\ \A s \in Sockets \ {Me} : MarkedSender[s] = sock[s]
         /\ \A s \in Sockets :
              /\ MarkedSender[s].m_IsSolving = sock[s].m_IsSolving
              /\ MarkedSender[s].tcp = sock[s].tcp /\ MarkedSender[s].state = sock[s].state
              /\ sock[s].m_bIsDeleting => MarkedSender[s].m_bIsDeleting
  <1>1. sock \in [Sockets -> Objects] BY DEF TypeOK
  <1>2. PICK k \in Objects : k = [sock[Me] EXCEPT !.m_bIsDeleting = TRUE]
    BY <1>1 DEF Objects
  <1>3. /\ k.m_bIsDeleting = TRUE /\ k.m_IsSolving = sock[Me].m_IsSolving
        /\ k.tcp = sock[Me].tcp /\ k.state = sock[Me].state
    BY <1>1, <1>2 DEF Objects
  <1>4. MarkedSender = [sock EXCEPT ![Me] = k] BY <1>1, <1>2 DEF MarkedSender
  <1>5. /\ MarkedSender \in [Sockets -> Objects] /\ MarkedSender[Me] = k
        /\ \A s \in Sockets \ {Me} : MarkedSender[s] = sock[s]
    BY <1>1, <1>4
  <1> QED BY <1>3, <1>5

\* The failure that is ignored, or marks the connected socket.
LEMMA FailedIgnoredKeeps ==
  ASSUME CoreInv, FailedIgnored
  PROVE  CoreInv'
  <1>0. /\ TypeOK /\ Shape(todo) /\ FlagInv /\ CallsInv /\ OpenInv /\ SearchInv /\ SolvingInv
        /\ todo # <<>> /\ ~At("ConnectToAny") /\ At("Failed")
    BY Parts DEF FailedIgnored, At
  <1>1. Shape(todo') BY <1>0, PopIs DEF FailedIgnored
  <1>2. Me \in Sockets BY <1>0, MeIs
  <1>3. failed' \in [ServerSet -> 0..(DeadRetries + 1)]
    BY <1>0, <1>2, BlameIs DEF FailedIgnored, TypeOK
  <1>4. /\ sock' \in [Sockets -> Objects]
        /\ \A s \in Sockets : /\ sock'[s].m_IsSolving = sock[s].m_IsSolving
                              /\ sock'[s].tcp = sock[s].tcp /\ sock'[s].state = sock[s].state
                              /\ sock[s].m_bIsDeleting => sock'[s].m_bIsDeleting
    <2>1. sock \in [Sockets -> Objects] BY <1>0 DEF TypeOK
    <2>2. sock' = sock \/ sock' = MarkedSender BY DEF FailedIgnored
    <2> QED BY <1>0, <1>2, <2>1, <2>2, MarkedIs
  <1>5. TypeOK'
    BY <1>0, <1>1, <1>3, <1>4, ShapeSeq DEF TypeOK, FailedIgnored, connVars, mapVars, flagVars, histVars
  <1>6. FlagInv' /\ SearchInv'
    BY <1>0, FlagsStay DEF FailedIgnored, connVars, flagVars, histVars
  <1>7. OpenInv' /\ SolvingInv'
    BY <1>0, <1>4 DEF FailedIgnored, connVars, TypeOK, OpenInv, SolvingInv
  <1>8. CallsInv' BY <1>0, CallsPop DEF FailedIgnored, connVars
  <1> QED BY <1>1, <1>5, <1>6, <1>7, <1>8, PartsNext

\* One call takes another's place, and the flags and the sockets stay.
LEMMA CheckBeginKeeps ==
  ASSUME CoreInv, CheckBegin
  PROVE  CoreInv'
  <1>0. /\ TypeOK /\ Shape(todo) /\ FlagInv /\ CallsInv /\ OpenInv /\ SearchInv /\ SolvingInv
        /\ todo # <<>> /\ ~At("ConnectToAny") /\ At("Check")
    BY Parts DEF CheckBegin, At
  <1>1. Shape(todo')
    <2>2. Len(todo) = 1 BY <1>0, CheckIsLast
    <2>3. GoodCall(Call("Scan")) /\ Call("Scan").op = "Scan" BY CallsAre DEF Ops, Later
    <2> QED BY <1>0, <2>2, <2>3, OneIs DEF CheckBegin
  <1>2. TypeOK'
    BY <1>0, <1>1, ShapeSeq
    DEF TypeOK, CheckBegin, connVars, listVars, flagVars, sockVars, histVars
  <1>3. FlagInv' /\ SearchInv'
    BY <1>0, FlagsStay DEF CheckBegin, connVars, listVars, flagVars, histVars
  <1>4. OpenInv' /\ SolvingInv'
    BY <1>0, SocketsStay DEF CheckBegin, connVars, sockVars
  <1>5. CallsInv' BY <1>0, NotConnected DEF CheckBegin, connVars, CallsInv
  <1> QED BY <1>1, <1>2, <1>3, <1>4, <1>5, PartsNext

\* The second pass begins, without obfuscation.
LEMMA TryPlainKeeps ==
  ASSUME CoreInv, TryPlain
  PROVE  CoreInv'
  <1>0. /\ TypeOK /\ Shape(todo) /\ FlagInv /\ CallsInv /\ OpenInv /\ SearchInv /\ SolvingInv
        /\ todo # <<>> /\ ~At("ConnectToAny") /\ At("TryAnother")
    BY Parts DEF TryPlain, NothingUnderWay, Exhausted, MayTry, At
  <1>1. Shape(todo')
    <2>1. /\ GoodCall(Call("ConnectToAnyPlain")) /\ Call("ConnectToAnyPlain").op = "ConnectToAnyPlain"
          /\ GoodCall(Call("Unrecurse")) /\ Call("Unrecurse").op = "Unrecurse"
      BY CallsAre DEF Ops, Later
    <2>2. "Unrecurse" \in Later \ {"Check", "Scan"} BY DEF Later
    <2> QED BY <1>0, <2>1, <2>2, TwoIs DEF TryPlain
  <1>2. TypeOK'
    <2>1. Len(m_servers) \in Nat BY <1>0, LenProperties DEF TypeOK
    <2>2. m_serverpos' \in 1..(Len(m_servers') + 1)
      BY <2>1 DEF TryPlain, NothingUnderWay, Exhausted
    <2> QED BY <1>0, <1>1, <2>2, ShapeSeq
        DEF TypeOK, TryPlain, connVars, mapVars, sockVars, histVars
  <1>3. FlagInv' /\ SearchInv'
    BY <1>0, FlagsStay DEF TryPlain, connVars, histVars
  <1>4. OpenInv' /\ SolvingInv'
    BY <1>0, SocketsStay DEF TryPlain, connVars, sockVars
  <1>5. CallsInv' BY <1>0, NotConnected DEF TryPlain, connVars, CallsInv
  <1> QED BY <1>1, <1>2, <1>3, <1>4, <1>5, PartsNext

\* Destroying leaves the others as they are.
LEMMA DestroyIs ==
  ASSUME TypeOK, SolvingInv, NEW gone, NEW sk \in [Sockets -> Objects], DestroySockets(gone, sk),
         \A s \in Sockets : sk[s].m_IsSolving = sock[s].m_IsSolving /\ sk[s].tcp = sock[s].tcp
                            /\ sk[s].state = sock[s].state
  PROVE  /\ sock' \in [Sockets -> Objects] /\ m_lstOpenSockets' \subseteq Sockets
         /\ SolvingInv'
         /\ \A s \in m_lstOpenSockets' : s \in m_lstOpenSockets /\ s \notin gone /\ sock'[s] = sk[s]
  BY ObjectsAre DEF DestroySockets, TypeOK, SolvingInv

\* The end of a try leaves marked sockets and the connected one.
LEMMA StopIs ==
  ASSUME TypeOK, NEW timer \in BOOLEAN, StopAnd(timer)
  PROVE  /\ {it', expired', aged', lastKey'} \subseteq Int
         /\ connectionattemps' = <<>> /\ connectionattemps' \in Seq(Sockets)
         /\ connecting' = FALSE /\ singleconnecting' = FALSE
         /\ m_idRetryTimer' = timer /\ m_hostnameResolvedThisSweep' = FALSE
  <1>1. Len(connectionattemps) \in Nat BY LenProperties DEF TypeOK
  <1> QED BY <1>1, EmptySeq DEF StopAnd, StopConnectionTry, TypeOK, Dangling

\* The list is exhausted: the try ends, the retry timer keeps the search alive.
LEMMA TryGiveUpKeeps ==
  ASSUME CoreInv, TryGiveUp
  PROVE  CoreInv'
  <1>0. /\ TypeOK /\ Shape(todo) /\ FlagInv /\ CallsInv /\ OpenInv /\ SearchInv /\ SolvingInv
        /\ todo # <<>> /\ ~At("ConnectToAny") /\ At("TryAnother")
    BY Parts DEF TryGiveUp, NothingUnderWay, Exhausted, MayTry, At
  <1>1. Shape(todo') BY <1>0, PopIs DEF TryGiveUp
  <1>2. /\ {it', expired', aged', lastKey'} \subseteq Int
        /\ connectionattemps' \in Seq(Sockets)
        /\ connecting' = FALSE /\ singleconnecting' = FALSE
        /\ m_idRetryTimer' = Reconnect /\ m_hostnameResolvedThisSweep' = FALSE
    BY <1>0, Basics, StopIs DEF TryGiveUp
  <1>3. /\ sock' \in [Sockets -> Objects] /\ m_lstOpenSockets' \subseteq Sockets
        /\ SolvingInv'
        /\ \A s \in m_lstOpenSockets' : /\ s \in m_lstOpenSockets
                                        /\ s \notin Unmarked \ {connectedsocket} /\ sock'[s] = sock[s]
    <2>1. sock \in [Sockets -> Objects] BY <1>0 DEF TypeOK
    <2> QED BY <1>0, <2>1, DestroyIs DEF TryGiveUp
  <1>4. TypeOK'
    <2>1. Len(m_servers) \in Nat BY <1>0, LenProperties DEF TypeOK
    <2>2. m_serverpos' \in 1..(Len(m_servers') + 1)
      BY <2>1 DEF TryGiveUp, NothingUnderWay, Exhausted
    <2> QED BY <1>0, <1>1, <1>2, <1>3, <2>2, Basics, ShapeSeq DEF TypeOK, TryGiveUp, histVars
  <1>5. FlagInv' BY <1>0, <1>2 DEF FlagInv, TryGiveUp, histVars
  <1>6. SearchInv' BY <1>2 DEF SearchInv
  <1>7. OpenInv' BY <1>3 DEF OpenInv, Unmarked, TryGiveUp
  <1>8. CallsInv' BY <1>0, CallsPop DEF TryGiveUp
  <1> QED BY <1>1, <1>3, <1>4, <1>5, <1>6, <1>7, <1>8, PartsNext

\* What Open leaves behind.
LEMMA OpenedIs ==
  ASSUME TypeOK, SolvingInv, Shape(todo), todo # <<>>, NEW v \in ServerSet, NEW noCrypt \in BOOLEAN,
         NEW s, NEW gone, Opened(s, v, noCrypt, gone)
  PROVE  /\ sock' \in [Sockets -> Objects] /\ m_lstOpenSockets' \subseteq Sockets
         /\ lookups' \subseteq [s: Sockets, v: ServerSet]
         /\ SolvingInv' /\ Shape(todo')
  <1>1. PICK k \in Objects :
          /\ k = (IF v \in DynIP THEN NewSocket(v, noCrypt) ELSE Resolved(NewSocket(v, noCrypt), v))
          /\ k.m_IsSolving => k.tcp = "closed" /\ k.state = "CONNECTING"
    BY ObjectsAre
  <1>2. sock \in [Sockets -> Objects] /\ s \in Sockets /\ Deleted \in Objects /\ ~Deleted.m_IsSolving
    BY ObjectsAre DEF TypeOK, Opened
  <1>3. sock' = [x \in Sockets |-> IF x = s THEN k ELSE IF x \in gone THEN Deleted ELSE sock[x]]
    BY <1>1 DEF Opened
  <1>4. sock' \in [Sockets -> Objects] BY <1>2, <1>3
  <1>5. SolvingInv' BY <1>1, <1>2, <1>3 DEF SolvingInv
  <1>6. m_lstOpenSockets' \subseteq Sockets BY <1>2 DEF Opened, TypeOK
  <1>7. lookups' \subseteq [s: Sockets, v: ServerSet] BY <1>2 DEF Opened, TypeOK
  <1>8. Shape(todo')
    <2>1. /\ GoodCall(On("Failed", s)) /\ On("Failed", s).op = "Failed"
          /\ GoodCall(On("Destroy", s)) /\ On("Destroy", s).op = "Destroy"
          /\ GoodCall(On("Insert", s)) /\ On("Insert", s).op = "Insert"
      BY <1>2, CallsAre DEF Ops, Later
    <2>2. {"Destroy", "Insert"} \subseteq Later \ {"Check", "Scan"} BY DEF Later
    <2>3. CASE Run(<<On("Insert", s)>>) BY <2>1, <2>3, OneIs
    <2>4. CASE Run(<<On("Failed", s), On("Destroy", s), On("Insert", s)>>)
      <3>1. {On("Destroy", s).op, On("Insert", s).op} \subseteq Later \ {"Check", "Scan"} BY <2>1, <2>2
      <3>2. On("Failed", s).op \notin {"Check", "Scan"} BY <2>1
      <3> QED BY <2>1, <2>4, <3>1, <3>2, ThreeIs
    <2> QED BY <2>3, <2>4 DEF Opened
  <1> QED BY <1>4, <1>5, <1>6, <1>7, <1>8

\* The next server to try is one of the list, if there is one.
LEMMA NextIs ==
  ASSUME TypeOK
  PROVE  /\ GetNextServer \in 1..(Len(m_servers) + 1) /\ Len(m_servers) \in Nat
         /\ GetNextServer <= Len(m_servers) => m_servers[GetNextServer] \in ServerSet
  <1> DEFINE ok == {j \in m_serverpos..Len(m_servers) :
                      /\ m_bTryObfuscated => m_servers[j] \in Obfuscated
                      /\ StaticOnly => m_servers[j] \in Static}
  <1>1. /\ m_servers \in Seq(ServerSet) /\ Len(m_servers) \in Nat
        /\ m_serverpos \in 1..(Len(m_servers) + 1)
    BY LenProperties DEF TypeOK
  <1>2. ok \subseteq 1..Len(m_servers) BY <1>1
  <1>3. ok # {} => (CHOOSE j \in ok : \A k \in ok : j <= k) \in ok
    <2>1. ok \in SUBSET Nat BY <1>1, <1>2
    <2> HIDE DEF ok
    <2> QED BY <2>1, LeastNat
  <1>4. GetNextServer = IF ok = {} THEN Len(m_servers) + 1 ELSE CHOOSE j \in ok : \A k \in ok : j <= k
    BY Zenon DEF GetNextServer
  <1> HIDE DEF ok
  <1>5. GetNextServer = Len(m_servers) + 1 \/ GetNextServer \in 1..Len(m_servers)
    BY <1>2, <1>3, <1>4
  <1>6. GetNextServer \in 1..(Len(m_servers) + 1) BY <1>1, <1>5
  <1>7. GetNextServer <= Len(m_servers) => GetNextServer \in 1..Len(m_servers) BY <1>1, <1>6
  <1> QED BY <1>1, <1>6, <1>7, ElementOfSeq

\* The next server of the list is tried.
LEMMA TryNextKeeps ==
  ASSUME CoreInv, TryNext
  PROVE  CoreInv'
  <1>0. /\ TypeOK /\ Shape(todo) /\ FlagInv /\ CallsInv /\ OpenInv /\ SearchInv /\ SolvingInv
        /\ todo # <<>> /\ At("TryAnother")
    BY Parts DEF TryNext, MayTry, At
  <1>1. ~connected BY <1>0, NotConnected
  <1>2. PICK v \in ServerSet : v = m_servers[GetNextServer] BY <1>0, NextIs DEF TryNext
  <1>3. PICK b \in BOOLEAN : b = ~m_bTryObfuscated OBVIOUS
  <1>4. Open(v, TRUE, b, {}) BY <1>2, <1>3 DEF TryNext
  <1>5. PICK s : Opened(s, v, b, {}) BY <1>4, OpenIs
  <1>6. /\ sock' \in [Sockets -> Objects] /\ m_lstOpenSockets' \subseteq Sockets
        /\ lookups' \subseteq [s: Sockets, v: ServerSet]
        /\ SolvingInv' /\ Shape(todo')
    BY <1>0, <1>5, OpenedIs
  <1>7. connecting' = TRUE /\ singleconnecting' = FALSE BY <1>4 DEF Open
  <1>8. m_serverpos' \in 1..(Len(m_servers') + 1) BY <1>0, NextIs DEF TryNext
  <1>9. TypeOK' BY <1>0, <1>6, <1>7, <1>8, ShapeSeq DEF TypeOK, TryNext, mapVars, flagVars
  <1>10. FlagInv' BY <1>0, <1>1, <1>7 DEF FlagInv, TryNext, flagVars
  <1>11. SearchInv' BY <1>7 DEF SearchInv
  <1>12. OpenInv' BY <1>7 DEF OpenInv
  <1>13. CallsInv' BY <1>1 DEF CallsInv, TryNext
  <1> QED BY <1>6, <1>9, <1>10, <1>11, <1>12, <1>13, PartsNext

\* An attempt is erased.
LEMMA EraseIs ==
  ASSUME TypeOK, NEW i \in DOMAIN connectionattemps, NEW j \in Int, Erase(i, j)
  PROVE  /\ connectionattemps' \in Seq(Sockets)
         /\ {it', expired', aged', lastKey'} \subseteq Int
  <1>1. /\ connectionattemps \in Seq(Sockets) /\ Len(connectionattemps) \in Nat
        /\ DOMAIN connectionattemps = 1..Len(connectionattemps)
    BY LenProperties DEF TypeOK
  <1>2. connectionattemps' \in Seq(Sockets) BY <1>1, ToSetRemoveAt DEF Erase
  <1>3. i \in Int /\ {it, expired, aged, lastKey} \subseteq Int BY <1>1 DEF TypeOK
  <1>4. it' \in Int BY <1>3 DEF Erase, Dangling
  <1>5. expired' \in Int /\ aged' \in Int BY <1>3 DEF Erase
  <1>6. lastKey' \in Int BY <1>3 DEF Erase
  <1> QED BY <1>2, <1>4, <1>5, <1>6

\* A pass of the loop of CheckForTimeout.
LEMMA CheckForTimeoutKeeps ==
  ASSUME CoreInv, CheckForTimeout
  PROVE  CoreInv'
  <1>0. /\ TypeOK /\ Shape(todo) /\ FlagInv /\ CallsInv /\ OpenInv /\ SearchInv /\ SolvingInv
        /\ todo # <<>> /\ At("Scan") /\ ~At("ConnectToAny")
    BY Parts DEF CheckForTimeout, At
  <1>1. ~connected BY <1>0, NotConnected
  <1>2. PICK s \in Sockets : s = connectionattemps[it]
    BY <1>0, LenProperties, ElementOfSeq DEF CheckForTimeout, TypeOK
  <1>3. \/ /\ it' = it + 1 /\ UNCHANGED <<connectionattemps, expired, aged, lastKey, todo>>
        \/ Erase(it, it + 1) /\ todo' = <<Call("TryAnother"), On("Destroy", s)>> \o todo
    BY <1>2, Zenon DEF CheckForTimeout
  <1>4. connectionattemps' \in Seq(Sockets) /\ {it', expired', aged', lastKey'} \subseteq Int
    <2>1. it \in Int /\ it + 1 \in Int /\ it \in DOMAIN connectionattemps
      BY <1>0 DEF TypeOK, CheckForTimeout
    <2>2. CASE Erase(it, it + 1) BY <1>0, <2>1, <2>2, EraseIs
    <2>3. CASE it' = it + 1 /\ UNCHANGED <<connectionattemps, expired, aged, lastKey, todo>>
      BY <1>0, <2>1, <2>3 DEF TypeOK
    <2> QED BY <1>3, <2>2, <2>3
  <1>5. Shape(todo')
    <2>1. /\ GoodCall(Call("TryAnother")) /\ Call("TryAnother").op = "TryAnother"
          /\ GoodCall(On("Destroy", s)) /\ On("Destroy", s).op = "Destroy"
      BY CallsAre DEF Ops, Later
    <2>2. "Destroy" \in Later \ {"Check", "Scan"} BY DEF Later
    <2>3. CASE todo' = <<Call("TryAnother"), On("Destroy", s)>> \o todo
      BY <1>0, <2>1, <2>2, <2>3, LoopIs
    <2> QED BY <1>0, <1>3, <2>3
  <1>6. TypeOK'
    BY <1>0, <1>4, <1>5, ShapeSeq
    DEF TypeOK, CheckForTimeout, connVars, listVars, flagVars, sockVars, histVars
  <1>7. FlagInv' /\ SearchInv'
    BY <1>0, FlagsStay DEF CheckForTimeout, connVars, listVars, flagVars, histVars
  <1>8. OpenInv' /\ SolvingInv'
    BY <1>0, SocketsStay DEF CheckForTimeout, connVars, sockVars
  <1>9. CallsInv' BY <1>1 DEF CallsInv, CheckForTimeout, connVars
  <1> QED BY <1>5, <1>6, <1>7, <1>8, <1>9, PartsNext

\* A new try begins with a clean slate.
LEMMA StartOverIs ==
  ASSUME TypeOK, FlagInv, StartOver
  PROVE  /\ {it', expired', aged', lastKey'} \subseteq Int
         /\ connectionattemps' = <<>> /\ connectionattemps' \in Seq(Sockets)
         /\ connected' = FALSE /\ connectedsocket' = NoSocket
         /\ m_idRetryTimer' = FALSE /\ m_hostnameResolvedThisSweep' = FALSE
  <1>1. Len(connectionattemps) \in Nat BY LenProperties DEF TypeOK
  <1>2. connectedsocket' = NoSocket BY DEF StartOver, FlagInv
  <1> QED BY <1>1, <1>2, EmptySeq DEF StartOver, StopConnectionTry, TypeOK, Dangling

\* A sweep begins: what was open is closed, and the search is the reason.
LEMMA ConnectToAnyServerKeeps ==
  ASSUME CoreInv, ConnectToAnyServer
  PROVE  CoreInv'
  <1>0. /\ TypeOK /\ Shape(todo) /\ FlagInv /\ CallsInv /\ OpenInv /\ SearchInv /\ SolvingInv
        /\ todo # <<>>
    BY Parts DEF ConnectToAnyServer, At
  <1>1. /\ {it', expired', aged', lastKey'} \subseteq Int
        /\ connectionattemps' \in Seq(Sockets)
        /\ connected' = FALSE /\ connectedsocket' = NoSocket
        /\ m_idRetryTimer' = FALSE /\ m_hostnameResolvedThisSweep' = FALSE
    BY <1>0, StartOverIs DEF ConnectToAnyServer
  <1>2. /\ sock' \in [Sockets -> Objects] /\ m_lstOpenSockets' \subseteq Sockets
        /\ SolvingInv'
        /\ \A s \in m_lstOpenSockets' : s \in m_lstOpenSockets /\ s \notin GivenUp /\ sock'[s] = sock[s]
    <2>1. sock \in [Sockets -> Objects] BY <1>0 DEF TypeOK
    <2> QED BY <1>0, <2>1, DestroyIs DEF ConnectToAnyServer
  <1>3. /\ connecting' = AnyServer
        /\ m_serverpos' = IF AnyServer THEN 1 ELSE Len(m_servers) + 1
        /\ Run(IF AnyServer THEN <<Call("TryAnother")>> ELSE <<>>)
    BY Zenon DEF ConnectToAnyServer, AnyServer
  <1>4. Shape(todo')
    <2>1. GoodCall(Call("TryAnother")) /\ Call("TryAnother").op = "TryAnother"
      BY CallsAre DEF Ops, Later
    <2>2. CASE AnyServer
      <3>1. Run(<<Call("TryAnother")>>) BY <1>3, <2>2
      <3> QED BY <1>0, <2>1, <3>1, OneIs
    <2>3. CASE ~AnyServer
      <3>1. Run(<<>>) BY <1>3, <2>3
      <3> QED BY <1>0, <3>1, PopIs
    <2> QED BY <2>2, <2>3
  <1>5. TypeOK'
    <2>1. m_serverpos' \in 1..(Len(m_servers') + 1)
      <3>1. Len(m_servers) \in Nat BY <1>0, LenProperties DEF TypeOK
      <3> QED BY <3>1, <1>3 DEF ConnectToAnyServer
    <2>2. connecting' \in BOOLEAN BY <1>3 DEF AnyServer
    <2>3. m_bTryObfuscated' \in BOOLEAN BY DEF ConnectToAnyServer
    <2> QED BY <1>0, <1>1, <1>2, <1>4, <2>1, <2>2, <2>3, ShapeSeq DEF TypeOK, ConnectToAnyServer
  <1>6. FlagInv' BY <1>1 DEF FlagInv, ConnectToAnyServer
  <1>7. SearchInv'
    <2>1. AnyServer' <=> AnyServer BY DEF AnyServer, ConnectToAnyServer
    <2> QED BY <1>3, <2>1 DEF SearchInv
  <1>8. OpenInv'
    <2> SUFFICES ASSUME NEW s \in m_lstOpenSockets' PROVE sock'[s].m_bIsDeleting BY DEF OpenInv
    <2>1. s \in m_lstOpenSockets /\ s \notin GivenUp /\ sock'[s] = sock[s] /\ s \in Sockets BY <1>2
    <2>2. s # connectedsocket
      BY <1>0, <2>1, Basics DEF GivenUp, FlagInv
    <2> QED BY <2>1, <2>2 DEF GivenUp, Unmarked
  <1>9. CallsInv' BY <1>1 DEF CallsInv
  <1> QED BY <1>2, <1>4, <1>5, <1>6, <1>7, <1>8, <1>9, PartsNext

\* A single try begins: what was open is closed.
LEMMA ConnectToServerKeeps ==
  ASSUME CoreInv, ConnectToServer
  PROVE  CoreInv'
  <1>0. /\ TypeOK /\ Shape(todo) /\ FlagInv /\ CallsInv /\ OpenInv /\ SearchInv /\ SolvingInv
        /\ todo # <<>>
    BY Parts DEF ConnectToServer, At
  <1>1. /\ {it', expired', aged', lastKey'} \subseteq Int
        /\ connectionattemps' \in Seq(Sockets)
        /\ connected' = FALSE /\ connectedsocket' = NoSocket
        /\ m_idRetryTimer' = FALSE /\ m_hostnameResolvedThisSweep' = FALSE
    BY <1>0, StartOverIs DEF ConnectToServer
  <1>2. PICK v \in ServerSet : v = Head(todo).v
    <2>1. 1 \in 1..Len(todo) /\ Head(todo) = todo[1] BY <1>0, HeadIs
    <2>2. todo[1] \in Calls BY <1>0, <2>1, ShapeSeq, ElementOfSeq
    <2> QED BY <2>1, <2>2 DEF Calls
  <1>3. PICK b \in BOOLEAN : b = At("ConnectToPlain") BY DEF At
  <1>4. Open(v, FALSE, b, GivenUp) BY <1>2, <1>3 DEF ConnectToServer
  <1>5. PICK s : Opened(s, v, b, GivenUp) BY <1>4, OpenIs
  <1>6. /\ sock' \in [Sockets -> Objects] /\ m_lstOpenSockets' \subseteq Sockets
        /\ lookups' \subseteq [s: Sockets, v: ServerSet]
        /\ SolvingInv' /\ Shape(todo')
    BY <1>0, <1>5, OpenedIs
  <1>7. connecting' = TRUE /\ singleconnecting' = TRUE BY <1>4 DEF Open
  <1>8. TypeOK' BY <1>0, <1>1, <1>6, <1>7, ShapeSeq DEF TypeOK, ConnectToServer, listVars
  <1>9. FlagInv' BY <1>1 DEF FlagInv, ConnectToServer
  <1>10. SearchInv' BY <1>7 DEF SearchInv
  <1>11. OpenInv' BY <1>7 DEF OpenInv
  <1>12. CallsInv' BY <1>1 DEF CallsInv
  <1> QED BY <1>6, <1>8, <1>9, <1>10, <1>11, <1>12, PartsNext

\* A fatal error: every other socket goes, and the sender is marked.
LEMMA FailedFatalKeeps ==
  ASSUME CoreInv, FailedFatal
  PROVE  CoreInv'
  <1>0. /\ TypeOK /\ Shape(todo) /\ FlagInv /\ CallsInv /\ OpenInv /\ SearchInv /\ SolvingInv
        /\ todo # <<>> /\ At("Failed")
    BY Parts DEF FailedFatal, Handled, At
  <1>1. Shape(todo') BY <1>0, PopIs DEF FailedFatal
  <1>2. Me \in Sockets BY <1>0, MeIs
  <1>3. PICK timer \in BOOLEAN : timer = RetryAfterFatal BY DEF RetryAfterFatal
  <1>4. /\ {it', expired', aged', lastKey'} \subseteq Int
        /\ connectionattemps' \in Seq(Sockets)
        /\ connecting' = FALSE /\ singleconnecting' = FALSE
        /\ m_idRetryTimer' = timer /\ m_hostnameResolvedThisSweep' = FALSE
    BY <1>0, <1>3, StopIs DEF FailedFatal
  <1>5. /\ sock' \in [Sockets -> Objects] /\ m_lstOpenSockets' \subseteq Sockets
        /\ SolvingInv'
        /\ \A s \in m_lstOpenSockets' :
             /\ s \in m_lstOpenSockets /\ s \notin Unmarked \ {connectedsocket, Me}
             /\ sock'[s] = MarkedSender[s]
    BY <1>0, <1>2, MarkedIs, DestroyIs DEF FailedFatal
  <1>6. TypeOK'
    BY <1>0, <1>1, <1>4, <1>5, ShapeSeq DEF TypeOK, FailedFatal, listVars, histVars
  <1>7. FlagInv' BY <1>0, <1>4 DEF FlagInv, FailedFatal, histVars
  <1>8. SearchInv' BY <1>0, <1>3, <1>4 DEF SearchInv, FlagInv, RetryAfterFatal, FailedFatal, histVars
  <1>9. OpenInv' BY <1>0, <1>2, <1>5, MarkedIs DEF OpenInv, Unmarked, FailedFatal
  <1>10. CallsInv' BY <1>0, CallsPop DEF FailedFatal
  <1> QED BY <1>1, <1>5, <1>6, <1>7, <1>8, <1>9, <1>10, PartsNext

\* The connection is lost: with Reconnect the search begins again.
LEMMA FailedDisconnectedKeeps ==
  ASSUME CoreInv, FailedDisconnected
  PROVE  CoreInv'
  <1>0. /\ TypeOK /\ Shape(todo) /\ FlagInv /\ CallsInv /\ OpenInv /\ SearchInv /\ SolvingInv
        /\ todo # <<>> /\ At("Failed") /\ ~At("ConnectToAny")
        /\ connecting \/ Me = connectedsocket
    BY Parts DEF FailedDisconnected, Handled, At
  <1>1. Me \in Sockets BY <1>0, MeIs
  <1>2. GoodCall(Call("ConnectToAny")) /\ Call("ConnectToAny").op = "ConnectToAny"
    BY CallsAre DEF Ops, Later
  <1>3. /\ Shape(todo')
        /\ Reconnect /\ ~connecting => At("ConnectToAny")'
    <2>1. CASE Reconnect /\ ~connecting
      <3>1. Run(<<Call("ConnectToAny")>>) BY <2>1 DEF FailedDisconnected
      <3>2. Shape(todo') /\ todo'[1] = Call("ConnectToAny") /\ Len(todo') = Len(todo) /\ 1 \in 1..Len(todo)
        BY <1>0, <1>2, <3>1, OneIs
      <3>3. todo' # <<>> BY <3>2, EmptySeq
      <3>4. Head(todo') = todo'[1] BY <3>2, <3>3, HeadIs
      <3> QED BY <1>2, <3>2, <3>3, <3>4 DEF At
    <2>2. CASE ~(Reconnect /\ ~connecting)
      <3>1. Run(<<>>) BY <2>2 DEF FailedDisconnected
      <3> QED BY <1>0, <2>2, <3>1, PopIs
    <2> QED BY <2>1, <2>2
  <1>4. /\ sock' \in [Sockets -> Objects]
        /\ \A s \in Sockets :
             /\ sock'[s].m_IsSolving = sock[s].m_IsSolving /\ sock'[s].state = sock[s].state
             /\ sock'[s].tcp = sock[s].tcp \/ sock'[s].tcp = "closed"
             /\ sock'[s].m_bIsDeleting = MarkedSender[s].m_bIsDeleting
    <2>1. \A k \in Objects :
            LET n == [k EXCEPT !.tcp = "closed"]
            IN n \in Objects /\ n.m_IsSolving = k.m_IsSolving /\ n.state = k.state
               /\ n.tcp = "closed" /\ n.m_bIsDeleting = k.m_bIsDeleting
      BY DEF Objects
    <2>2. MarkedSender \in [Sockets -> Objects] BY <1>0, <1>1, MarkedIs
    <2>3. sock' = [s \in Sockets |-> IF s = connectedsocket THEN [MarkedSender[s] EXCEPT !.tcp = "closed"]
                                                            ELSE MarkedSender[s]]
      BY DEF FailedDisconnected
    <2> HIDE DEF MarkedSender
    <2>4. /\ sock' \in [Sockets -> Objects]
          /\ \A s \in Sockets :
               /\ sock'[s].m_IsSolving = MarkedSender[s].m_IsSolving
               /\ sock'[s].state = MarkedSender[s].state
               /\ sock'[s].tcp = MarkedSender[s].tcp \/ sock'[s].tcp = "closed"
               /\ sock'[s].m_bIsDeleting = MarkedSender[s].m_bIsDeleting
      BY <2>1, <2>2, <2>3
    <2> QED BY <1>0, <1>1, <2>4, MarkedIs
  <1>5. TypeOK'
    BY <1>0, <1>3, <1>4, ShapeSeq
    DEF TypeOK, FailedDisconnected, mapVars, listVars, flagVars, histVars, NoSocket
  <1>6. FlagInv' BY <1>0 DEF FlagInv, FailedDisconnected, flagVars, histVars
  <1>7. SearchInv' BY <1>3 DEF SearchInv, FailedDisconnected, flagVars, histVars
  <1>8. OpenInv'
    BY <1>0, <1>1, <1>4, MarkedIs DEF OpenInv, FailedDisconnected, TypeOK
  <1>9. SolvingInv' BY <1>0, <1>4 DEF SolvingInv
  <1>10. CallsInv' BY DEF CallsInv, FailedDisconnected
  <1> QED BY <1>3, <1>5, <1>6, <1>7, <1>8, <1>9, <1>10, PartsNext

\* A single try fails: once more without obfuscation, or all is closed.
LEMMA FailedSingleKeeps ==
  ASSUME CoreInv, FailedSingle
  PROVE  CoreInv'
  <1>0. /\ TypeOK /\ Shape(todo) /\ FlagInv /\ CallsInv /\ OpenInv /\ SearchInv /\ SolvingInv
        /\ todo # <<>> /\ At("Failed") /\ ~At("ConnectToAny") /\ connecting /\ singleconnecting
    BY Parts DEF FailedSingle, Handled, At
  <1>1. Me \in Sockets BY <1>0, MeIs
  <1>2. ~connected /\ ~wanted /\ ~connected' /\ ~wanted'
    BY <1>0 DEF FlagInv, FailedSingle, histVars
  <1>3. failed' \in [ServerSet -> 0..(DeadRetries + 1)]
    BY <1>0, <1>1, BlameIs DEF FailedSingle
  <1>4. CASE /\ Run(<<To("ConnectToPlain", sock[Me].server)>>) /\ sock' = MarkedSender
             /\ UNCHANGED <<connecting, singleconnecting, mapVars, m_idRetryTimer,
                            m_hostnameResolvedThisSweep, m_lstOpenSockets>>
    <2>1. Shape(todo')
      <3>1. sock[Me].server \in ServerSet BY <1>0, <1>1 DEF TypeOK, Objects
      <3>2. /\ GoodCall(To("ConnectToPlain", sock[Me].server))
            /\ To("ConnectToPlain", sock[Me].server).op = "ConnectToPlain"
        BY <3>1, CallsAre DEF Ops, Later
      <3> QED BY <1>0, <1>4, <3>2, OneIs
    <2>2. /\ sock' \in [Sockets -> Objects]
          /\ \A s \in Sockets : sock'[s].m_IsSolving = sock[s].m_IsSolving /\ sock'[s].tcp = sock[s].tcp
                                /\ sock'[s].state = sock[s].state
      BY <1>0, <1>1, <1>4, MarkedIs
    <2>3. TypeOK'
      BY <1>0, <1>3, <1>4, <2>1, <2>2, ShapeSeq DEF TypeOK, FailedSingle, mapVars, histVars
    <2>4. FlagInv' BY <1>0, <1>4 DEF FlagInv, FailedSingle, histVars
    <2>5. SearchInv' /\ CallsInv' BY <1>2 DEF SearchInv, CallsInv
    <2>6. OpenInv' BY <1>0, <1>4 DEF OpenInv
    <2>7. SolvingInv' BY <1>0, <2>2 DEF SolvingInv
    <2> QED BY <2>1, <2>3, <2>4, <2>5, <2>6, <2>7, PartsNext
  <1>5. CASE /\ StopAnd(FALSE) /\ DestroySockets(Unmarked \ {connectedsocket, Me}, MarkedSender)
             /\ Run(<<>>)
    <2>1. Shape(todo') BY <1>0, <1>5, PopIs
    <2>2. /\ {it', expired', aged', lastKey'} \subseteq Int
          /\ connectionattemps' \in Seq(Sockets)
          /\ connecting' = FALSE /\ singleconnecting' = FALSE
          /\ m_idRetryTimer' = FALSE /\ m_hostnameResolvedThisSweep' = FALSE
      BY <1>0, <1>5, StopIs
    <2>3. /\ sock' \in [Sockets -> Objects] /\ m_lstOpenSockets' \subseteq Sockets
          /\ SolvingInv'
          /\ \A s \in m_lstOpenSockets' :
               /\ s \in m_lstOpenSockets /\ s \notin Unmarked \ {connectedsocket, Me}
               /\ sock'[s] = MarkedSender[s]
      BY <1>0, <1>1, <1>5, MarkedIs, DestroyIs
    <2>4. TypeOK'
      BY <1>0, <1>3, <2>1, <2>2, <2>3, ShapeSeq DEF TypeOK, FailedSingle, histVars
    <2>5. FlagInv' BY <1>0, <2>2 DEF FlagInv, FailedSingle, histVars
    <2>6. SearchInv' /\ CallsInv' BY <1>2 DEF SearchInv, CallsInv
    <2>7. OpenInv' BY <1>0, <1>1, <2>3, MarkedIs DEF OpenInv, Unmarked, FailedSingle
    <2> QED BY <2>1, <2>3, <2>4, <2>5, <2>6, <2>7, PartsNext
  <1> QED BY <1>4, <1>5 DEF FailedSingle

\* An attempt of a sweep fails.
LEMMA FailedMultiKeeps ==
  ASSUME CoreInv, FailedMulti
  PROVE  CoreInv'
  <1>0. /\ TypeOK /\ Shape(todo) /\ FlagInv /\ CallsInv /\ OpenInv /\ SearchInv /\ SolvingInv
        /\ todo # <<>> /\ At("Failed") /\ ~At("ConnectToAny") /\ connecting
    BY Parts DEF FailedMulti, Handled, At
  <1>1. Me \in Sockets BY <1>0, MeIs
  <1>2. failed' \in [ServerSet -> 0..(DeadRetries + 1)]
    BY <1>0, <1>1, BlameIs DEF FailedMulti
  <1>3. /\ sock' \in [Sockets -> Objects]
        /\ \A s \in Sockets : sock'[s].m_IsSolving = sock[s].m_IsSolving /\ sock'[s].tcp = sock[s].tcp
                              /\ sock'[s].state = sock[s].state
    BY <1>0, <1>1, MarkedIs DEF FailedMulti
  <1>4. connectionattemps' \in Seq(Sockets) /\ {it', expired', aged', lastKey'} \subseteq Int
    <2>1. CASE UNCHANGED mapVars BY <1>0, <2>1 DEF TypeOK, mapVars
    <2>2. CASE \E i \in DOMAIN connectionattemps : Erase(i, it)
      BY <1>0, <2>2, EraseIs DEF TypeOK
    <2> QED BY <2>1, <2>2 DEF FailedMulti, EraseAttempt
  <1>5. Shape(todo')
    <2>1. GoodCall(Call("TryAnother")) /\ Call("TryAnother").op = "TryAnother"
      BY CallsAre DEF Ops, Later
    <2> QED BY <1>0, <2>1, OneIs DEF FailedMulti
  <1>6. TypeOK'
    BY <1>0, <1>2, <1>3, <1>4, <1>5, ShapeSeq DEF TypeOK, FailedMulti, connVars, flagVars, histVars
  <1>7. FlagInv' /\ SearchInv'
    BY <1>0, FlagsStay DEF FailedMulti, connVars, flagVars, histVars
  <1>8. OpenInv' BY <1>0 DEF OpenInv, FailedMulti, connVars
  <1>9. SolvingInv' BY <1>0, <1>3 DEF SolvingInv
  <1>10. CallsInv' BY <1>0 DEF CallsInv, FlagInv, FailedMulti, connVars
  <1> QED BY <1>5, <1>6, <1>7, <1>8, <1>9, <1>10, PartsNext

\* n is k, but for its state, its phase and its mark, which it keeps.
Updated(k, n, st) ==
  /\ n \in Objects /\ n.m_IsSolving = k.m_IsSolving /\ n.state = st
  /\ k.m_bIsDeleting => n.m_bIsDeleting

\* The updates that the events make.
Noted(k, st)    == [k EXCEPT !.state = st]
Doomed(k, st)   == [k EXCEPT !.m_bIsDeleting = TRUE, !.state = st]
UpWith(k, st)   == [k EXCEPT !.tcp = "up", !.state = st]
Unsolved(k, st) == [k EXCEPT !.m_IsSolving = FALSE, !.m_bIsDeleting = TRUE, !.state = st]

\* The ways an event changes a socket.
LEMMA UpdatesAre ==
  ASSUME NEW k \in Objects, NEW st \in States
  PROVE  /\ Updated(k, UpWith(k, st), st) /\ UpWith(k, st).tcp = "up"
         /\ Updated(k, Doomed(k, st), st) /\ Doomed(k, st).m_bIsDeleting /\ Doomed(k, st).tcp = k.tcp
         /\ Updated(k, Noted(k, st), st) /\ Noted(k, st).m_bIsDeleting = k.m_bIsDeleting
         /\ Noted(k, st).tcp = k.tcp
         /\ Unsolved(k, st) \in Objects /\ ~Unsolved(k, st).m_IsSolving /\ Unsolved(k, st).m_bIsDeleting
         /\ Unsolved(k, st).state = st /\ Unsolved(k, st).tcp = k.tcp
  <1>1. Updated(k, UpWith(k, st), st) /\ UpWith(k, st).tcp = "up"
    BY DEF Objects, Updated, UpWith
  <1>2. Updated(k, Doomed(k, st), st) /\ Doomed(k, st).m_bIsDeleting /\ Doomed(k, st).tcp = k.tcp
    BY DEF Objects, Updated, Doomed
  <1>3. /\ Updated(k, Noted(k, st), st) /\ Noted(k, st).m_bIsDeleting = k.m_bIsDeleting
        /\ Noted(k, st).tcp = k.tcp
    BY DEF Objects, Updated, Noted
  <1>4. /\ Unsolved(k, st) \in Objects /\ ~Unsolved(k, st).m_IsSolving /\ Unsolved(k, st).m_bIsDeleting
        /\ Unsolved(k, st).state = st /\ Unsolved(k, st).tcp = k.tcp
    BY DEF Objects, Unsolved
  <1> QED BY <1>1, <1>2, <1>3, <1>4

\* The calls that the event of a socket makes.
EventCalls(s) ==
  {<<>>, <<On("Destroy", s)>>, <<On("Failed", s)>>, <<On("Failed", s), On("Destroy", s)>>}

\* They are about that socket only.
LEMMA EventCallsAre ==
  ASSUME NEW s \in Sockets, NEW t \in EventCalls(s)
  PROVE  Shape(t) /\ \A i \in 1..Len(t) : t[i].op \in {"Failed", "Destroy"} /\ t[i].s = s
  <1>1. /\ GoodCall(On("Failed", s)) /\ On("Failed", s).op = "Failed" /\ On("Failed", s).s = s
        /\ GoodCall(On("Destroy", s)) /\ On("Destroy", s).op = "Destroy" /\ On("Destroy", s).s = s
    BY CallsAre DEF Ops, Later
  <1>2. CASE t = <<>> BY <1>2, EventIs
  <1>3. CASE t = <<On("Destroy", s)>> BY <1>1, <1>3, EventIs
  <1>4. CASE t = <<On("Failed", s)>> BY <1>1, <1>4, EventIs
  <1>5. CASE t = <<On("Failed", s), On("Destroy", s)>>
    <2>1. Shape(t) /\ Len(t) = 2 /\ t[1] = On("Failed", s) /\ t[2] = On("Destroy", s)
      BY <1>1, <1>5, EventIs DEF Later
    <2>2. \A i \in 1..Len(t) : i = 1 \/ i = 2 BY <2>1
    <2> QED BY <1>1, <2>1, <2>2
  <1> QED BY <1>2, <1>3, <1>4, <1>5 DEF EventCalls

\* An event of a socket that has asked for its connection.
LEMMA SocketEventKeeps ==
  ASSUME CoreInv, NEW s \in Sockets, NEW phase \in {"asked", "up"}, NEW k \in Objects,
         NEW calls \in EventCalls(s), SocketEvent(s, phase, k, calls),
         k.m_IsSolving = sock[s].m_IsSolving, sock[s].m_bIsDeleting => k.m_bIsDeleting,
         failed' \in [ServerSet -> 0..(DeadRetries + 1)], UNCHANGED <<m_servers, m_serverpos>>
  PROVE  CoreInv'
  <1>0. /\ TypeOK /\ Shape(todo) /\ FlagInv /\ CallsInv /\ OpenInv /\ SearchInv /\ SolvingInv
        /\ ~At("ConnectToAny")
    BY Parts DEF SocketEvent, AtRest, At
  <1>1. todo' = calls /\ sock' = [sock EXCEPT ![s] = k] /\ sock[s].tcp = phase BY DEF SocketEvent
  <1>2. Shape(todo') /\ \A i \in 1..Len(todo') : todo'[i].op \in {"Failed", "Destroy"}
    BY <1>1, EventCallsAre
  <1>3. sock \in [Sockets -> Objects] /\ sock' \in [Sockets -> Objects] BY <1>0, <1>1 DEF TypeOK
  <1>4. TypeOK'
    BY <1>0, <1>2, <1>3, ShapeSeq DEF TypeOK, SocketEvent, connVars, mapVars, flagVars, histVars
  <1>5. FlagInv' /\ SearchInv'
    BY <1>0, FlagsStay DEF SocketEvent, connVars, flagVars, histVars
  <1>6. OpenInv' BY <1>0, <1>1, <1>3 DEF OpenInv, SocketEvent, connVars, TypeOK
  <1>7. SolvingInv' BY <1>0, <1>1, <1>3 DEF SolvingInv
  <1>8. CallsInv' BY <1>2, ShapeSeq DEF CallsInv
  <1> QED BY <1>2, <1>4, <1>5, <1>6, <1>7, <1>8, PartsNext

\* Every event of the network but the login.
LEMMA NetworkKeeps ==
  ASSUME CoreInv, NEW s \in Sockets, Network(s), ~ReceiveID(s)
  PROVE  CoreInv'
  <1>0. /\ TypeOK /\ sock[s] \in Objects
        /\ failed \in [ServerSet -> 0..(DeadRetries + 1)]
    BY Parts DEF TypeOK
  <1>1. {"SERVERDEAD", "ERROR", "FATALERROR", "DISCONNECTED", "WAITFORLOGIN"} \subseteq States BY DEF States
  <1>2. {<<>>, <<On("Destroy", s)>>, <<On("Failed", s)>>, <<On("Failed", s), On("Destroy", s)>>}
          \subseteq EventCalls(s)
    BY DEF EventCalls
  <1>3. CASE OnConnect(s)
    <2> DEFINE v == sock[s].server
               known == v \in DynIP => Listed(v)
               st == IF known THEN "WAITFORLOGIN" ELSE sock[s].state
               k == UpWith(sock[s], st)
               calls == IF known /\ ~connecting THEN <<On("Destroy", s)>> ELSE <<>>
    <2>1. st \in States BY <1>0 DEF Objects, States
    <2>2. Updated(sock[s], k, st)
      <3> HIDE DEF st
      <3> QED BY <1>0, <2>1, UpdatesAre
    <2>3. calls \in EventCalls(s) BY <1>2
    <2>4. SocketEvent(s, "asked", k, calls) BY <1>3 DEF OnConnect, UpWith
    <2>5. failed' \in [ServerSet -> 0..(DeadRetries + 1)]
      <3>1. v \in ServerSet BY <1>0 DEF Objects
      <3>2. failed' = failed \/ failed' = [failed EXCEPT ![v] = 0] BY <1>3 DEF OnConnect
      <3> QED BY <1>0, <3>1, <3>2, Basics
    <2>6. UNCHANGED <<m_servers, m_serverpos>> BY <1>3 DEF OnConnect
    <2> HIDE DEF v, known, st, k, calls
    <2> QED BY <2>2, <2>3, <2>4, <2>5, <2>6, SocketEventKeeps DEF Updated
  <1>4. CASE OnClose(s)
    <2> DEFINE st == CASE sock[s].state = "WAITFORLOGIN" -> "SERVERFULL"
                       [] sock[s].state = "CONNECTED" -> "DISCONNECTED"
                       [] OTHER -> "NOTCONNECTED"
               k == Noted(sock[s], st)
    <2>1. st \in States BY DEF States
    <2>2. Updated(sock[s], k, st)
      <3> HIDE DEF st
      <3> QED BY <1>0, <2>1, UpdatesAre
    <2>4. SocketEvent(s, "up", k, <<On("Failed", s), On("Destroy", s)>>) BY <1>4 DEF OnClose, Noted
    <2>5. UNCHANGED <<failed, m_servers, m_serverpos>> BY <1>4 DEF OnClose, listVars
    <2> HIDE DEF st, k
    <2> QED BY <1>0, <1>2, <2>2, <2>4, <2>5, SocketEventKeeps DEF Updated
  <1>5. CASE ReceiveLate(s)
    <2>1. SocketEvent(s, "up", sock[s], <<On("Destroy", s)>>) /\ UNCHANGED <<failed, m_servers, m_serverpos>>
      BY <1>5 DEF ReceiveLate, listVars
    <2> QED BY <1>0, <1>2, <2>1, SocketEventKeeps
  <1>6. CASE ReceiveRefusal(s)
    <2> DEFINE k == Doomed(sock[s], "DISCONNECTED")
    <2>1. Updated(sock[s], k, "DISCONNECTED") BY <1>0, <1>1, UpdatesAre
    <2>2. SocketEvent(s, "up", k, <<On("Failed", s), On("Destroy", s)>>)
          /\ UNCHANGED <<failed, m_servers, m_serverpos>>
      BY <1>6 DEF ReceiveRefusal, listVars, Doomed
    <2> HIDE DEF k
    <2> QED BY <1>0, <1>2, <2>1, <2>2, SocketEventKeeps DEF Updated
  <1>7. ASSUME NEW st \in {"SERVERDEAD", "ERROR", "FATALERROR"}, OnConnectError(s, st)
        PROVE  CoreInv'
    <2> DEFINE k == Doomed(sock[s], st)
    <2>1. Updated(sock[s], k, st) BY <1>0, <1>1, UpdatesAre
    <2>2. SocketEvent(s, "asked", k, <<On("Failed", s), On("Destroy", s)>>)
          /\ UNCHANGED <<failed, m_servers, m_serverpos>>
      BY <1>7 DEF OnConnectError, listVars, Doomed
    <2> HIDE DEF k
    <2> QED BY <1>0, <1>2, <2>1, <2>2, SocketEventKeeps DEF Updated
  <1>8. ASSUME NEW bad \in BOOLEAN, ReceiveBad(s, bad)
        PROVE  CoreInv'
    <2> DEFINE k == Noted(sock[s], "DISCONNECTED")
    <2>1. Updated(sock[s], k, "DISCONNECTED") BY <1>0, <1>1, UpdatesAre
    <2>2. SocketEvent(s, "up", k, <<On("Failed", s)>>) /\ UNCHANGED <<failed, m_servers, m_serverpos>>
      BY <1>8 DEF ReceiveBad, listVars, Noted
    <2> HIDE DEF k
    <2> QED BY <1>0, <1>2, <2>1, <2>2, SocketEventKeeps DEF Updated
  <1> QED BY <1>3, <1>4, <1>5, <1>6, <1>7, <1>8 DEF Network

\* The login: the other sockets of the try go, and so do the dead servers.
LEMMA ReceiveIDKeeps ==
  ASSUME CoreInv, NEW s \in Sockets, ReceiveID(s)
  PROVE  CoreInv'
  <1>0. /\ TypeOK /\ Shape(todo) /\ FlagInv /\ CallsInv /\ OpenInv /\ SearchInv /\ SolvingInv
        /\ todo = <<>> /\ todo' = <<>>
    BY Parts DEF ReceiveID, AtRest
  <1>1. /\ {it', expired', aged', lastKey'} \subseteq Int
        /\ connectionattemps' \in Seq(Sockets)
        /\ connecting' = FALSE /\ singleconnecting' = FALSE
        /\ m_idRetryTimer' = FALSE /\ m_hostnameResolvedThisSweep' = FALSE
    BY <1>0, StopIs DEF ReceiveID
  <1>2. sock[s] \in Objects /\ sock[s].tcp = "up" /\ sock \in [Sockets -> Objects] /\ s \in m_lstOpenSockets
    BY <1>0 DEF TypeOK, ReceiveID
  <1>3. PICK k \in Objects : /\ k = Noted(sock[s], "CONNECTED")
                             /\ k.m_IsSolving = sock[s].m_IsSolving
                             /\ k.m_bIsDeleting = sock[s].m_bIsDeleting
    <2>1. "CONNECTED" \in States BY DEF States
    <2> QED BY <1>2, <2>1, UpdatesAre DEF Updated
  <1>4. ~sock[s].m_IsSolving BY <1>0, <1>2 DEF SolvingInv
  <1>5. /\ m_lstOpenSockets' = m_lstOpenSockets \ Losers(s)
        /\ sock' = [x \in Sockets |-> IF x \in Losers(s) THEN Deleted ELSE [sock EXCEPT ![s] = k][x]]
    BY <1>2, <1>3 DEF ReceiveID, DestroySockets, Noted
  <1>6. sock' \in [Sockets -> Objects] BY <1>2, <1>3, <1>5, ObjectsAre
  <1>7. SolvingInv' BY <1>0, <1>2, <1>3, <1>4, <1>5, ObjectsAre DEF SolvingInv
  <1>8. m_servers' \in Seq(ServerSet) /\ m_serverpos' \in 1..(Len(m_servers') + 1)
    BY <1>0, CursorStays DEF ReceiveID, RemoveServers
  <1>9. TypeOK' BY <1>0, <1>1, <1>5, <1>6, <1>8 DEF TypeOK, ReceiveID, RemoveServers, histVars
  <1>10. FlagInv' BY <1>1, Basics DEF FlagInv, ReceiveID
  <1>11. SearchInv' BY DEF SearchInv, ReceiveID
  <1>12. OpenInv' BY <1>0, <1>2, <1>5 DEF OpenInv, ReceiveID, Losers, Unmarked, TypeOK
  <1>13. CallsInv' BY <1>0 DEF CallsInv
  <1>14. Shape(todo') BY <1>0
  <1> QED BY <1>7, <1>9, <1>10, <1>11, <1>12, <1>13, <1>14, PartsNext

\* A name is resolved, or not.
LEMMA LookupDoneKeeps ==
  ASSUME CoreInv, NEW l \in lookups, NEW found \in BOOLEAN, LookupDone(l, found)
  PROVE  CoreInv'
  <1>0. /\ TypeOK /\ Shape(todo) /\ FlagInv /\ CallsInv /\ OpenInv /\ SearchInv /\ SolvingInv
        /\ ~At("ConnectToAny")
    BY Parts DEF LookupDone, AtRest, At
  <1>1. PICK s \in Sockets : s = l.s BY <1>0 DEF TypeOK
  <1>2. PICK v \in ServerSet : v = l.v BY <1>0 DEF TypeOK
  <1>3. sock \in [Sockets -> Objects] /\ lookups' \subseteq lookups BY <1>0 DEF TypeOK, LookupDone
  <1>4. CASE UNCHANGED <<sock, todo, m_hostnameResolvedThisSweep, evidence>>
    <2>1. TypeOK'
      BY <1>0, <1>3, <1>4 DEF TypeOK, LookupDone, connVars, mapVars, listVars
    <2>2. FlagInv' /\ SearchInv' BY <1>0, <1>4, FlagsStay DEF LookupDone, listVars
    <2>3. OpenInv' /\ SolvingInv' BY <1>0, <1>4, SocketsStay DEF LookupDone, connVars
    <2>4. CallsInv' BY <1>0, <1>4 DEF CallsInv, LookupDone, connVars
    <2>5. Shape(todo') BY <1>0, <1>4
    <2> QED BY <2>1, <2>2, <2>3, <2>4, <2>5, PartsNext
  <1>5. ASSUME NEW k \in Objects, sock' = [sock EXCEPT ![s] = k], ~k.m_IsSolving,
               sock[s].m_bIsDeleting => k.m_bIsDeleting, todo' \in EventCalls(s),
               {m_hostnameResolvedThisSweep', evidence'} \subseteq BOOLEAN,
               m_hostnameResolvedThisSweep' => evidence'
        PROVE  CoreInv'
    <2>1. Shape(todo') /\ \A i \in 1..Len(todo') : todo'[i].op \in {"Failed", "Destroy"}
      BY <1>5, EventCallsAre
    <2>2. sock' \in [Sockets -> Objects] BY <1>3, <1>5
    <2>3. TypeOK'
      BY <1>0, <1>3, <1>5, <2>1, <2>2, ShapeSeq DEF TypeOK, LookupDone, connVars, mapVars, listVars
    <2>4. FlagInv' BY <1>0, <1>5 DEF FlagInv, LookupDone, connVars
    <2>5. SearchInv'
      <3>1. AnyServer' <=> AnyServer BY DEF AnyServer, LookupDone, listVars
      <3> QED BY <1>0, <3>1 DEF SearchInv, LookupDone, connVars
    <2>6. OpenInv' BY <1>0, <1>3, <1>5 DEF OpenInv, LookupDone, connVars, TypeOK
    <2>7. SolvingInv' BY <1>0, <1>3, <1>5 DEF SolvingInv
    <2>8. CallsInv' BY <2>1, ShapeSeq DEF CallsInv
    <2> QED BY <2>1, <2>3, <2>4, <2>5, <2>6, <2>7, <2>8, PartsNext
  <1>6. CASE /\ m_hostnameResolvedThisSweep' = (m_hostnameResolvedThisSweep \/ sock[s].m_IsSolving)
             /\ evidence' = (evidence \/ sock[s].m_IsSolving)
             /\ sock' = [sock EXCEPT ![s] = Resolved(sock[s], v)]
             /\ todo' = ResolvedCalls(s, v)
    <2>1. PICK k \in Objects : k = Resolved(sock[s], v) /\ ~k.m_IsSolving
      BY <1>3, ObjectsAre
    <2>2. sock[s].m_bIsDeleting => k.m_bIsDeleting
      BY <1>3, <2>1 DEF Resolved, Objects
    <2>3. todo' \in EventCalls(s) BY <1>6 DEF ResolvedCalls, EventCalls
    <2>4. {m_hostnameResolvedThisSweep', evidence'} \subseteq BOOLEAN BY <1>6
    <2>5. m_hostnameResolvedThisSweep' => evidence' BY <1>0, <1>6 DEF FlagInv
    <2> QED BY <1>5, <1>6, <2>1, <2>2, <2>3, <2>4, <2>5
  <1>7. CASE /\ sock' = [sock EXCEPT ![s] = [sock[s] EXCEPT !.m_IsSolving = FALSE, !.m_bIsDeleting = TRUE,
                           !.state = IF m_hostnameResolvedThisSweep THEN "SERVERDEAD" ELSE "ERROR"]]
             /\ todo' = <<On("Failed", s), On("Destroy", s)>>
             /\ UNCHANGED <<m_hostnameResolvedThisSweep, evidence>>
    <2>1. PICK st \in States : st = IF m_hostnameResolvedThisSweep THEN "SERVERDEAD" ELSE "ERROR"
      BY DEF States
    <2>2. PICK k \in Objects :
            /\ k = Unsolved(sock[s], st)
            /\ ~k.m_IsSolving /\ k.m_bIsDeleting
      BY <1>3, UpdatesAre
    <2>3. todo' \in EventCalls(s) BY <1>7 DEF EventCalls
    <2>4. {m_hostnameResolvedThisSweep', evidence'} \subseteq BOOLEAN BY <1>0, <1>7 DEF TypeOK
    <2>5. m_hostnameResolvedThisSweep' => evidence' BY <1>0, <1>7 DEF FlagInv
    <2>6. sock' = [sock EXCEPT ![s] = k] BY <1>7, <2>1, <2>2 DEF Unsolved
    <2> QED BY <1>5, <2>2, <2>3, <2>4, <2>5, <2>6
  <1> QED BY <1>1, <1>2, <1>4, <1>6, <1>7, Zenon DEF LookupDone

\* One call in front of another.
LEMMA PairIs ==
  ASSUME NEW c, NEW d
  PROVE  <<c>> \o <<d>> = <<c, d>>
  <1> DEFINE a == <<c>>
             b == <<d>>
             t == <<c, d>>
             S == {c, d}
  <1>1. /\ a \in Seq(S) /\ Len(a) = 1 /\ a[1] = c
        /\ b \in Seq(S) /\ Len(b) = 1 /\ b[1] = d
        /\ t \in Seq(S) /\ Len(t) = 2 /\ t[1] = c /\ t[2] = d
    OBVIOUS
  <1> HIDE DEF a, b, t, S
  <1>2. /\ a \o b \in Seq(S) /\ Len(a \o b) = Len(a) + Len(b)
        /\ \A i \in 1..Len(a) + Len(b) : (a \o b)[i] = IF i <= Len(a) THEN a[i] ELSE b[i - Len(a)]
    BY <1>1, ConcatProperties
  <1>3. Len(a) + Len(b) = 2 BY <1>1
  <1>4. \A i \in 1..2 : (a \o b)[i] = t[i] BY <1>1, <1>2, <1>3
  <1>5. a \o b = t BY <1>1, <1>2, <1>3, <1>4, SeqEqual
  <1> QED BY <1>5 DEF a, b, t

\* The core timer.
LEMMA CoreTimerKeeps ==
  ASSUME CoreInv, NEW k \in 0..aged, CoreTimer(k)
  PROVE  CoreInv'
  <1>0. /\ TypeOK /\ FlagInv /\ CallsInv /\ OpenInv /\ SearchInv /\ SolvingInv
        /\ ~At("ConnectToAny") /\ connecting
    BY Parts DEF CoreTimer, AtRest, At
  <1>1. Shape(todo')
    <2>1. /\ GoodCall(Call("TryAnother")) /\ Call("TryAnother").op = "TryAnother"
          /\ GoodCall(Call("Check")) /\ Call("Check").op = "Check"
      BY CallsAre DEF Ops, Later
    <2>2. CASE todo' = <<>> \o <<Call("Check")>>
      <3>1. todo' = <<Call("Check")>> BY <2>2
      <3> QED BY <2>1, <3>1, EventIs
    <2>3. CASE todo' = <<Call("TryAnother")>> \o <<Call("Check")>>
      <3>2. todo' = <<Call("TryAnother"), Call("Check")>> BY <2>3, PairIs, Zenon
      <3> QED BY <2>1, <3>2, EventIs DEF Later
    <2> QED BY <2>2, <2>3 DEF CoreTimer
  <1>2. TypeOK'
    <2>1. {it', expired', aged', lastKey'} \subseteq Int
      BY <1>0 DEF CoreTimer, TypeOK
    <2> QED BY <1>0, <1>1, <2>1, ShapeSeq
        DEF TypeOK, CoreTimer, connVars, listVars, flagVars, sockVars, histVars
  <1>3. FlagInv' /\ SearchInv'
    BY <1>0, FlagsStay DEF CoreTimer, connVars, listVars, flagVars, histVars
  <1>4. OpenInv' /\ SolvingInv' BY <1>0, SocketsStay DEF CoreTimer, connVars, sockVars
  <1>5. CallsInv' BY <1>0 DEF CallsInv, FlagInv, CoreTimer, connVars
  <1> QED BY <1>1, <1>2, <1>3, <1>4, <1>5, PartsNext

\* The retry timer: the search takes its place.
LEMMA OnTCPTimerKeeps ==
  ASSUME CoreInv, OnTCPTimer
  PROVE  CoreInv'
  <1>0. TypeOK /\ FlagInv /\ CallsInv /\ OpenInv /\ SearchInv /\ SolvingInv
    BY Parts
  <1>1. /\ Shape(todo')
        /\ ~connected => At("ConnectToAny")'
        /\ connected => todo' = <<>>
    <2>1. CASE connected
      <3>1. todo' = <<>> BY <2>1 DEF OnTCPTimer
      <3> QED BY <2>1, <3>1, EventIs
    <2>2. CASE ~connected
      <3>1. GoodCall(Call("ConnectToAny")) /\ Call("ConnectToAny").op = "ConnectToAny"
        BY CallsAre DEF Ops, Later
      <3>2. todo' = <<Call("ConnectToAny")>> BY <2>2 DEF OnTCPTimer
      <3>3. Shape(todo') BY <3>1, <3>2, EventIs
      <3>4. todo' # <<>> /\ Head(todo') = Call("ConnectToAny") BY <3>2
      <3> QED BY <2>2, <3>1, <3>3, <3>4 DEF At
    <2> QED BY <2>1, <2>2
  <1>2. /\ {it', expired', aged', lastKey'} \subseteq Int
        /\ connectionattemps' \in Seq(Sockets)
        /\ connecting' = FALSE /\ singleconnecting' = FALSE
        /\ m_idRetryTimer' = FALSE /\ m_hostnameResolvedThisSweep' = FALSE
    BY <1>0, StopIs DEF OnTCPTimer
  <1>3. /\ sock' \in [Sockets -> Objects] /\ m_lstOpenSockets' \subseteq Sockets
        /\ SolvingInv'
        /\ \A s \in m_lstOpenSockets' : /\ s \in m_lstOpenSockets
                                        /\ s \notin Unmarked \ {connectedsocket} /\ sock'[s] = sock[s]
    <2>1. sock \in [Sockets -> Objects] BY <1>0 DEF TypeOK
    <2> QED BY <1>0, <2>1, DestroyIs DEF OnTCPTimer
  <1>4. TypeOK'
    BY <1>0, <1>1, <1>2, <1>3, ShapeSeq DEF TypeOK, OnTCPTimer, listVars, histVars
  <1>5. FlagInv' BY <1>0, <1>2 DEF FlagInv, OnTCPTimer, histVars
  <1>6. SearchInv' BY <1>1 DEF SearchInv, OnTCPTimer
  <1>7. OpenInv' BY <1>3 DEF OpenInv, Unmarked, OnTCPTimer
  <1>8. CallsInv' BY <1>1 DEF CallsInv, OnTCPTimer
  <1> QED BY <1>1, <1>3, <1>4, <1>5, <1>6, <1>7, <1>8, PartsNext

\* The user connects.
LEMMA UserConnectKeeps ==
  ASSUME CoreInv, UserConnect
  PROVE  CoreInv'
  <1>0. TypeOK /\ FlagInv /\ CallsInv /\ OpenInv /\ SearchInv /\ SolvingInv /\ ~At("ConnectToAny")
    BY Parts DEF UserConnect, AtRest, At
  <1>1. PICK c : /\ GoodCall(c) /\ c.op \in {"ConnectToAny", "ConnectTo"} /\ todo' = <<c>>
    <2>1. GoodCall(Call("ConnectToAny")) /\ Call("ConnectToAny").op = "ConnectToAny"
      BY CallsAre DEF Ops, Later
    <2>2. \A v \in Chosen : GoodCall(To("ConnectTo", v)) /\ To("ConnectTo", v).op = "ConnectTo"
      BY CallsAre, Basics DEF Ops, Later
    <2> QED BY <2>1, <2>2 DEF UserConnect
  <1>2. Shape(todo') /\ Len(todo') = 1 /\ todo'[1] = c BY <1>1, EventIs
  <1>3. TypeOK'
    BY <1>0, <1>2, ShapeSeq
    DEF TypeOK, UserConnect, connVars, mapVars, listVars, flagVars, sockVars, histVars
  <1>4. FlagInv' /\ SearchInv'
    BY <1>0, FlagsStay DEF UserConnect, connVars, listVars, flagVars, histVars
  <1>5. OpenInv' /\ SolvingInv' BY <1>0, SocketsStay DEF UserConnect, connVars, sockVars
  <1>6. CallsInv'
    <2>1. DOMAIN todo' = 1..1 BY <1>2, ShapeSeq
    <2>2. \A i \in DOMAIN todo' : i = 1 BY <2>1
    <2> QED BY <1>1, <1>2, <2>2 DEF CallsInv
  <1> QED BY <1>2, <1>3, <1>4, <1>5, <1>6, PartsNext

\* The user cancels the try.
LEMMA UserCancelKeeps ==
  ASSUME CoreInv, UserCancel
  PROVE  CoreInv'
  <1>0. /\ TypeOK /\ Shape(todo) /\ FlagInv /\ CallsInv /\ OpenInv /\ SearchInv /\ SolvingInv
    BY Parts
  <1>1. Shape(todo') BY <1>0 DEF UserCancel
  <1>2. /\ {it', expired', aged', lastKey'} \subseteq Int
        /\ connectionattemps' \in Seq(Sockets)
        /\ connecting' = FALSE /\ singleconnecting' = FALSE
        /\ m_idRetryTimer' = FALSE /\ m_hostnameResolvedThisSweep' = FALSE
    BY <1>0, StopIs DEF UserCancel
  <1>3. /\ sock' \in [Sockets -> Objects] /\ m_lstOpenSockets' \subseteq Sockets
        /\ SolvingInv'
        /\ \A s \in m_lstOpenSockets' : /\ s \in m_lstOpenSockets
                                        /\ s \notin Unmarked \ {connectedsocket} /\ sock'[s] = sock[s]
    <2>1. sock \in [Sockets -> Objects] BY <1>0 DEF TypeOK
    <2> QED BY <1>0, <2>1, DestroyIs DEF UserCancel
  <1>4. TypeOK' BY <1>0, <1>2, <1>3 DEF TypeOK, UserCancel, listVars
  <1>5. FlagInv' BY <1>0, <1>2 DEF FlagInv, UserCancel
  <1>6. SearchInv' BY DEF SearchInv, UserCancel
  <1>7. OpenInv' BY <1>3 DEF OpenInv, Unmarked, UserCancel
  <1>8. CallsInv' BY <1>0 DEF CallsInv, UserCancel
  <1> QED BY <1>1, <1>3, <1>4, <1>5, <1>6, <1>7, <1>8, PartsNext

\* The user disconnects.
LEMMA DisconnectKeeps ==
  ASSUME CoreInv, Disconnect
  PROVE  CoreInv'
  <1>0. /\ TypeOK /\ Shape(todo) /\ FlagInv /\ CallsInv /\ OpenInv /\ SearchInv /\ SolvingInv
    BY Parts
  <1>1. Shape(todo') BY <1>0 DEF Disconnect
  <1>2. /\ sock' \in [Sockets -> Objects] /\ m_lstOpenSockets' \subseteq Sockets
        /\ SolvingInv'
        /\ \A s \in m_lstOpenSockets' : /\ s \in m_lstOpenSockets
                                        /\ s \notin {connectedsocket} /\ sock'[s] = sock[s]
    <2>1. sock \in [Sockets -> Objects] BY <1>0 DEF TypeOK
    <2> QED BY <1>0, <2>1, DestroyIs DEF Disconnect
  <1>3. TypeOK' BY <1>0, <1>2 DEF TypeOK, Disconnect, mapVars, listVars, flagVars, NoSocket
  <1>4. FlagInv' BY <1>0 DEF FlagInv, Disconnect, flagVars
  <1>5. SearchInv' BY DEF SearchInv, Disconnect
  <1>6. OpenInv' BY <1>0, <1>2 DEF OpenInv, Disconnect
  <1>7. CallsInv' BY DEF CallsInv, Disconnect
  <1> QED BY <1>1, <1>2, <1>3, <1>4, <1>5, <1>6, <1>7, PartsNext

\* The user removes a server: the cursor stays within the list.
LEMMA UserRemoveKeeps ==
  ASSUME CoreInv, UserRemove
  PROVE  CoreInv'
  <1>0. /\ TypeOK /\ Shape(todo) /\ FlagInv /\ CallsInv /\ OpenInv /\ SearchInv /\ SolvingInv
        /\ ~At("ConnectToAny")
    BY Parts DEF UserRemove, AtRest, At
  <1>1. PICK v \in ServerSet : RemoveServers({v}) BY DEF UserRemove
  <1>2. m_servers' = Filter(m_servers, ServerSet \ {v}) /\ m_serverpos' = MovedCursor({v}) /\ failed' = failed
    BY <1>1 DEF RemoveServers
  <1>3. m_servers' \in Seq(ServerSet) /\ m_serverpos' \in 1..(Len(m_servers') + 1)
    BY <1>0, <1>2, CursorStays
  <1>4. TypeOK'
    BY <1>0, <1>2, <1>3 DEF TypeOK, UserRemove, connVars, mapVars, flagVars, sockVars, histVars
  <1>5. AnyServer' => AnyServer
    <2>1. m_servers \in Seq(ServerSet) BY <1>0 DEF TypeOK
    <2>2. ToSet(m_servers') \subseteq ToSet(m_servers) BY <1>2, <2>1, FilterProperties
    <2>3. \A i \in DOMAIN m_servers' : m_servers'[i] \in ToSet(m_servers') BY DEF ToSet
    <2>4. \A x \in ToSet(m_servers) : \E i \in DOMAIN m_servers : m_servers[i] = x BY DEF ToSet
    <2> QED BY <2>2, <2>3, <2>4 DEF AnyServer
  <1>6. FlagInv' BY <1>0 DEF FlagInv, UserRemove, connVars, flagVars, histVars
  <1>7. SearchInv' BY <1>0, <1>5 DEF SearchInv, UserRemove, connVars, flagVars, histVars
  <1>8. OpenInv' /\ SolvingInv' BY <1>0, SocketsStay DEF UserRemove, connVars, sockVars
  <1>9. CallsInv' BY <1>0 DEF CallsInv, UserRemove, connVars
  <1>10. Shape(todo') BY <1>0 DEF UserRemove
  <1> QED BY <1>4, <1>6, <1>7, <1>8, <1>9, <1>10, PartsNext

\* The first state.
LEMMA CoreInit ==
  ASSUME Init
  PROVE  CoreInv
  <1>1. TypeOK
    <2>1. m_servers \in Seq(ServerSet) /\ Len(m_servers) \in Nat /\ m_serverpos = Len(m_servers) + 1
      BY ServerConnectConstants, LenProperties DEF Init
    <2>2. sock \in [Sockets -> Objects] BY ObjectsAre DEF Init
    <2>3. connectionattemps \in Seq(Sockets) /\ todo \in Seq(Calls) BY EmptySeq DEF Init
    <2>4. failed \in [ServerSet -> 0..(DeadRetries + 1)] BY Basics DEF Init
    <2>5. CryptRequested \in BOOLEAN BY Basics
    <2>6. m_serverpos \in 1..(Len(m_servers) + 1) BY <2>1
    <2>7. lookups \subseteq [s: Sockets, v: ServerSet] /\ m_lstOpenSockets \subseteq Sockets BY DEF Init
    <2>8. {connecting, singleconnecting, connected, m_idRetryTimer, m_bTryObfuscated, m_recurse,
           m_hostnameResolvedThisSweep, wanted, evidence} \subseteq BOOLEAN
      BY <2>5 DEF Init
    <2>9. connectedsocket \in Sockets \cup {NoSocket} /\ {it, expired, aged, lastKey} \subseteq Int
      BY DEF Init
    <2> QED BY <2>1, <2>2, <2>3, <2>4, <2>6, <2>7, <2>8, <2>9 DEF TypeOK
  <1>2. StackInv /\ CallsInv BY DEF Init, StackInv, CallsInv
  <1>3. FlagInv /\ OpenInv /\ SearchInv BY DEF Init, FlagInv, OpenInv, SearchInv
  <1>4. SolvingInv BY ObjectsAre DEF Init, SolvingInv
  <1> QED BY <1>1, <1>2, <1>3, <1>4 DEF CoreInv

\* A step that changes nothing.
LEMMA CoreStutter ==
  ASSUME CoreInv, UNCHANGED vars
  PROVE  CoreInv'
  <1>1. UNCHANGED <<connVars, mapVars, listVars, flagVars, sockVars, histVars, todo>> BY DEF vars
  <1>2. TypeOK' /\ StackInv'
    BY <1>1 DEF CoreInv, TypeOK, StackInv, connVars, mapVars, listVars, flagVars, sockVars, histVars
  <1>3. FlagInv' /\ CallsInv'
    BY <1>1 DEF CoreInv, FlagInv, CallsInv, connVars, flagVars, histVars
  <1>4. OpenInv' /\ SolvingInv'
    BY <1>1 DEF CoreInv, OpenInv, SolvingInv, connVars, sockVars
  <1>5. (AnyServer' <=> AnyServer) /\ (At("ConnectToAny")' <=> At("ConnectToAny"))
    BY <1>1 DEF AnyServer, At, listVars
  <1>6. SearchInv'
    BY <1>1, <1>5 DEF CoreInv, SearchInv, connVars, flagVars, histVars
  <1> QED BY <1>2, <1>3, <1>4, <1>6 DEF CoreInv

\* One step.
LEMMA CoreStep ==
  ASSUME CoreInv, [Next]_vars
  PROVE  CoreInv'
  <1>1. CASE Internal
    BY <1>1, InsertKeeps, DestroySocketKeeps, TryRefusedKeeps, TryNextKeeps, TryWaitKeeps,
       TryPlainKeeps, TryGiveUpKeeps, UnrecurseKeeps, ConnectToAnyServerKeeps, ConnectToServerKeeps,
       FailedIgnoredKeeps, FailedFatalKeeps, FailedDisconnectedKeeps, FailedSingleKeeps,
       FailedMultiKeeps, CheckBeginKeeps, CheckForTimeoutKeeps, CheckEndKeeps
    DEF Internal
  <1>2. ASSUME NEW s \in Sockets, Network(s) PROVE CoreInv'
    BY <1>2, NetworkKeeps, ReceiveIDKeeps
  <1>3. ASSUME NEW l \in lookups, NEW found \in BOOLEAN, LookupDone(l, found) PROVE CoreInv'
    BY <1>3, LookupDoneKeeps
  <1>4. ASSUME NEW k \in 0..aged, CoreTimer(k) PROVE CoreInv'
    BY <1>4, CoreTimerKeeps
  <1>5. CASE OnTCPTimer \/ UserConnect \/ UserCancel \/ Disconnect \/ UserRemove
    BY <1>5, OnTCPTimerKeeps, UserConnectKeeps, UserCancelKeeps, DisconnectKeeps, UserRemoveKeeps
  <1> QED BY <1>1, <1>2, <1>3, <1>4, <1>5, CoreStutter DEF Next

\* CoreInv is an invariant of CServerConnect, whatever the servers do and
\* whether or not a new socket may get the address of a deleted one.
THEOREM ServerCoreInvariant == Spec => []CoreInv
  <1>1. Init => CoreInv BY CoreInit
  <1>2. CoreInv /\ [Next]_vars => CoreInv' BY CoreStep
  <1> QED BY <1>1, <1>2, PTL DEF Spec

\* Every variable keeps its type; the cursor of the server list stays in it
\* when RemoveServer shortens the list.
THEOREM ServerTypeCorrect == Spec => []TypeOK
  <1>1. CoreInv => TypeOK BY DEF CoreInv
  <1> QED BY <1>1, ServerCoreInvariant, PTL

\* When no try is under way, only the connected socket and marked ones are
\* open (the loop of StopConnectionTry).
THEOREM TriesLeaveNothingOpen == Spec => []NothingLeftOpen
  <1>1. CoreInv => NothingLeftOpen BY DEF CoreInv, OpenInv, NothingLeftOpen
  <1> QED BY <1>1, ServerCoreInvariant, PTL

\* A search for any server that was asked for goes on until it is told to stop
\* (ConnectionFailed, TryAnotherConnectionrequest and the retry timer).
THEOREM SearchNeverStops == Spec => []SearchGoesOn
  <1>1. CoreInv => SearchGoesOn BY DEF CoreInv, SearchInv, SearchGoesOn, AnyServer, AtRest, At
  <1> QED BY <1>1, ServerCoreInvariant, PTL

------------------------------------------------------------------------------
(* What a step may not do. *)

\* Who gives up the connection.
LEMMA DisconnectStep ==
  ASSUME CoreInv, [Next]_vars, connected, ~connected'
  PROVE  \/ At("Failed") /\ Me = connectedsocket
         \/ At("ConnectToAny") \/ At("ConnectToAnyPlain") \/ At("ConnectTo") \/ At("ConnectToPlain")
         \/ Disconnect
  <1>0. ~connecting BY Parts DEF FlagInv
  <1>1. CASE UNCHANGED vars BY <1>1 DEF vars, connVars
  <1>2. CASE Insert \/ DestroySocket \/ TryRefused \/ TryWait \/ TryPlain \/ Unrecurse
    BY <1>2 DEF Insert, DestroySocket, TryRefused, TryWait, TryPlain, Unrecurse, connVars
  <1>3. CASE TryNext \/ TryGiveUp
    BY <1>3 DEF TryNext, TryGiveUp
  <1>4. CASE ConnectToAnyServer \/ ConnectToServer
    BY <1>4 DEF ConnectToAnyServer, ConnectToServer
  <1>5. CASE FailedIgnored \/ FailedMulti \/ CheckBegin \/ CheckForTimeout \/ CheckEnd
    BY <1>5 DEF FailedIgnored, FailedMulti, CheckBegin, CheckForTimeout, CheckEnd, connVars
  <1>6. CASE FailedFatal \/ FailedSingle
    BY <1>6 DEF FailedFatal, FailedSingle
  <1>7. CASE FailedDisconnected
    BY <1>0, <1>7 DEF FailedDisconnected, Handled
  <1>8. ASSUME NEW s \in Sockets, Network(s) PROVE FALSE
    <2>1. CASE ReceiveID(s) BY <2>1 DEF ReceiveID
    <2>2. CASE OnConnect(s) BY <2>2 DEF OnConnect, SocketEvent, connVars
    <2>3. CASE OnClose(s) \/ ReceiveLate(s) \/ ReceiveRefusal(s)
      BY <2>3 DEF OnClose, ReceiveLate, ReceiveRefusal, SocketEvent, connVars
    <2>4. ASSUME NEW st, OnConnectError(s, st) PROVE FALSE
      BY <2>4 DEF OnConnectError, SocketEvent, connVars
    <2>5. ASSUME NEW bad, ReceiveBad(s, bad) PROVE FALSE
      BY <2>5 DEF ReceiveBad, SocketEvent, connVars
    <2> QED BY <1>8, <2>1, <2>2, <2>3, <2>4, <2>5 DEF Network
  <1>9. ASSUME NEW l, NEW found, LookupDone(l, found) PROVE FALSE
    BY <1>9 DEF LookupDone, connVars
  <1>10. ASSUME NEW k, CoreTimer(k) PROVE FALSE
    BY <1>10 DEF CoreTimer, connVars
  <1>11. CASE OnTCPTimer \/ UserConnect \/ UserCancel \/ UserRemove
    BY <1>11 DEF OnTCPTimer, UserConnect, UserCancel, UserRemove, connVars
  <1> QED BY <1>1, <1>2, <1>3, <1>4, <1>5, <1>6, <1>7, <1>8, <1>9, <1>10, <1>11 DEF Next, Internal

\* Only its own socket's failure, a new try or a command gives up the
\* connection (the first test of ConnectionFailed): no late failure of another
\* socket does.
THEOREM LateFailuresAreIgnored == Spec => OnlyOwnFailureDisconnects
  <1>1. CoreInv /\ [Next]_vars =>
          [connected /\ ~connected' =>
             \/ At("Failed") /\ Me = connectedsocket
             \/ At("ConnectToAny") \/ At("ConnectToAnyPlain") \/ At("ConnectTo") \/ At("ConnectToPlain")
             \/ Disconnect]_vars
    BY DisconnectStep
  <1> QED BY <1>1, ServerCoreInvariant, PTL DEF Spec, OnlyOwnFailureDisconnects

\* A socket that waits for its lookup keeps its state, or is destroyed, except
\* when a lookup ends.
LEMMA BlameStep ==
  ASSUME CoreInv, [Next]_vars, NEW s \in Sockets,
         sock[s].m_IsSolving, sock'[s].state = "SERVERDEAD"
  PROVE  evidence
  <1>0. /\ TypeOK /\ Shape(todo) /\ FlagInv /\ SolvingInv
        /\ sock[s].state = "CONNECTING" /\ sock[s].tcp = "closed"
        /\ sock \in [Sockets -> Objects] /\ Deleted.state = "NOTCONNECTED"
    BY Parts DEF SolvingInv, TypeOK, Deleted
  <1>1. ASSUME UNCHANGED sock PROVE FALSE BY <1>0, <1>1
  <1>2. ASSUME NEW gone, NEW sk, sk[s].state = "CONNECTING", DestroySockets(gone, sk) PROVE FALSE
    BY <1>0, <1>2 DEF DestroySockets
  <1>3. ASSUME NEW v, NEW multi, NEW b, NEW gone, Open(v, multi, b, gone) PROVE FALSE
    <2>1. PICK x : Opened(x, v, b, gone) BY <1>3, OpenIs
    <2>2. NewSocket(v, b).state # "SERVERDEAD" /\ Resolved(NewSocket(v, b), v).state # "SERVERDEAD"
      BY DEF NewSocket, Resolved, Deleted
    <2> QED BY <1>0, <2>1, <2>2 DEF Opened
  <1>4. ASSUME At("Failed") PROVE MarkedSender[s].state = "CONNECTING"
    BY <1>0, <1>4, MeIs, MarkedIs
  <1>5. CASE UNCHANGED vars BY <1>1, <1>5 DEF vars, sockVars
  <1>6. CASE Insert \/ TryRefused \/ TryWait \/ TryPlain \/ Unrecurse \/ CheckBegin \/ CheckForTimeout \/ CheckEnd
    BY <1>1, <1>6 DEF Insert, TryRefused, TryWait, TryPlain, Unrecurse, CheckBegin, CheckForTimeout,
                      CheckEnd, sockVars
  <1>7. CASE DestroySocket \/ TryGiveUp \/ ConnectToAnyServer
    BY <1>0, <1>2, <1>7 DEF DestroySocket, TryGiveUp, ConnectToAnyServer
  <1>8. CASE TryNext \/ ConnectToServer BY <1>3, <1>8 DEF TryNext, ConnectToServer
  <1>9. CASE FailedIgnored \/ FailedMulti
    BY <1>0, <1>4, <1>9 DEF FailedIgnored, FailedMulti, Handled
  <1>10. CASE FailedFatal BY <1>2, <1>4, <1>10 DEF FailedFatal, Handled
  <1>11. CASE FailedSingle BY <1>2, <1>4, <1>11 DEF FailedSingle, Handled
  <1>12. CASE FailedDisconnected
    <2>1. MarkedSender[s].state = "CONNECTING" /\ MarkedSender \in [Sockets -> Objects]
      BY <1>0, <1>4, <1>12, MeIs, MarkedIs DEF FailedDisconnected, Handled
    <2>2. \A k \in Objects : [k EXCEPT !.tcp = "closed"].state = k.state BY DEF Objects
    <2> HIDE DEF MarkedSender
    <2> QED BY <1>12, <2>1, <2>2 DEF FailedDisconnected
  <1>13. ASSUME NEW x \in Sockets, NEW phase \in {"asked", "up"}, NEW k, NEW calls,
                SocketEvent(x, phase, k, calls)
         PROVE  FALSE
    <2>1. x # s BY <1>0, <1>13 DEF SocketEvent
    <2> QED BY <1>0, <1>13, <2>1 DEF SocketEvent
  <1>14. ASSUME NEW x \in Sockets, Network(x) PROVE FALSE
    <2>1. CASE ReceiveID(x)
      <3>1. x # s BY <1>0, <2>1 DEF ReceiveID
      <3>2. [sock EXCEPT ![x].state = "CONNECTED"][s] = sock[s] BY <1>0, <3>1
      <3> QED BY <1>0, <1>2, <2>1, <3>2 DEF ReceiveID
    <2>2. CASE OnConnect(x) BY <1>13, <2>2 DEF OnConnect
    <2>3. CASE OnClose(x) \/ ReceiveLate(x) \/ ReceiveRefusal(x)
      BY <1>13, <2>3 DEF OnClose, ReceiveLate, ReceiveRefusal
    <2>4. ASSUME NEW st, OnConnectError(x, st) PROVE FALSE BY <1>13, <2>4 DEF OnConnectError
    <2>5. ASSUME NEW bad, ReceiveBad(x, bad) PROVE FALSE BY <1>13, <2>5 DEF ReceiveBad
    <2> QED BY <1>14, <2>1, <2>2, <2>3, <2>4, <2>5 DEF Network
  <1>15. ASSUME NEW l \in lookups, NEW found, LookupDone(l, found) PROVE evidence
    <2>1. CASE UNCHANGED sock BY <1>1, <2>1
    <2>2. CASE sock' = [sock EXCEPT ![l.s] = Resolved(sock[l.s], l.v)]
      <3>1. CASE l.s # s BY <1>0, <2>2, <3>1
      <3>2. CASE l.s = s
        <4>1. Resolved(sock[s], l.v).state # "SERVERDEAD" BY <1>0 DEF Resolved, Objects
        <4> QED BY <1>0, <2>2, <3>2, <4>1
      <3> QED BY <3>1, <3>2
    <2>3. CASE sock' = [sock EXCEPT ![l.s] =
                 [sock[l.s] EXCEPT !.m_IsSolving = FALSE, !.m_bIsDeleting = TRUE,
                   !.state = IF m_hostnameResolvedThisSweep THEN "SERVERDEAD" ELSE "ERROR"]]
      <3>1. m_hostnameResolvedThisSweep => evidence BY <1>0 DEF FlagInv
      <3>2. ASSUME ~m_hostnameResolvedThisSweep PROVE FALSE
        <4>1. PICK k : k = [sock[l.s] EXCEPT !.m_IsSolving = FALSE, !.m_bIsDeleting = TRUE,
                              !.state = IF m_hostnameResolvedThisSweep THEN "SERVERDEAD" ELSE "ERROR"]
          OBVIOUS
        <4>2. sock' = [sock EXCEPT ![l.s] = k] BY <2>3, <4>1
        <4>3. CASE l.s # s BY <1>0, <4>2, <4>3
        <4>4. CASE l.s = s
          <5>1. k.state = "ERROR" BY <1>0, <3>2, <4>1, <4>4 DEF Objects
          <5> QED BY <1>0, <4>2, <4>4, <5>1
        <4> QED BY <4>3, <4>4
      <3> QED BY <3>1, <3>2
    <2> QED BY <1>15, <2>1, <2>2, <2>3, Zenon DEF LookupDone
  <1>16. ASSUME NEW k, CoreTimer(k) PROVE FALSE BY <1>1, <1>16 DEF CoreTimer, sockVars
  <1>17. CASE UserConnect \/ UserRemove BY <1>1, <1>17 DEF UserConnect, UserRemove, sockVars
  <1>18. CASE OnTCPTimer \/ UserCancel \/ Disconnect
    BY <1>0, <1>2, <1>18 DEF OnTCPTimer, UserCancel, Disconnect
  <1> QED BY <1>5, <1>6, <1>7, <1>8, <1>9, <1>10, <1>11, <1>12, <1>14, <1>15, <1>16, <1>17, <1>18
      DEF Next, Internal

\* A server is blamed for a name that does not resolve only on the evidence of
\* this very try (OnHostnameResolved, StopConnectionTry).
THEOREM BlameIsFounded == Spec => NoUnfoundedBlame
  <1>1. CoreInv /\ [Next]_vars =>
          [\A s \in Sockets : sock[s].m_IsSolving /\ sock'[s].state = "SERVERDEAD" => evidence]_vars
    BY BlameStep
  <1> QED BY <1>1, ServerCoreInvariant, PTL DEF Spec, NoUnfoundedBlame

------------------------------------------------------------------------------
(* ReuseInv, invariant by invariant.  A new socket does not get the address  *)
(* of one that an attempt or a lookup still refers to.                       *)

\* Lookups end, sockets go and do not begin to wait again.
LEMMA LookupStays ==
  ASSUME LookupInv, lookups' \subseteq lookups, m_lstOpenSockets' \subseteq m_lstOpenSockets,
         \A s \in m_lstOpenSockets' : sock'[s].m_IsSolving = sock[s].m_IsSolving
  PROVE  LookupInv'
  BY DEF LookupInv

\* DestroySocket does that.
LEMMA LookupDestroy ==
  ASSUME TypeOK, LookupInv, UNCHANGED lookups, NEW gone, NEW sk \in [Sockets -> Objects],
         DestroySockets(gone, sk), \A s \in Sockets : sk[s].m_IsSolving = sock[s].m_IsSolving
  PROVE  LookupInv'
  <1>1. m_lstOpenSockets' \subseteq m_lstOpenSockets BY DEF DestroySockets
  <1>2. \A s \in m_lstOpenSockets' : sock'[s].m_IsSolving = sock[s].m_IsSolving
    BY DEF DestroySockets, TypeOK
  <1> QED BY <1>1, <1>2, LookupStays

\* A new socket has no lookup but its own.
LEMMA LookupOpen ==
  ASSUME TypeOK, LookupInv, ~AddressReuse, NEW v \in ServerSet, NEW multi, NEW b \in BOOLEAN,
         NEW gone, Open(v, multi, b, gone)
  PROVE  LookupInv'
  <1>1. PICK s : Opened(s, v, b, gone) BY OpenIs
  <1>2. \A l \in lookups : l.s # s BY <1>1 DEF Opened, Free
  <1>3. v \in DynIP => sock'[s].m_IsSolving
    <2>1. v \in DynIP => NewSocket(v, b).m_IsSolving BY DEF NewSocket, Deleted
    <2> QED BY <1>1, <2>1 DEF Opened
  <1>4. \A l \in lookups : l.s \in Sockets BY DEF TypeOK
  <1>5. \A l \in lookups : l.s \in m_lstOpenSockets' => l.s \in m_lstOpenSockets /\ sock'[l.s] = sock[l.s]
    BY <1>1, <1>2, <1>4 DEF Opened
  <1>6. CASE lookups' = lookups BY <1>5, <1>6 DEF LookupInv
  <1>7. CASE v \in DynIP /\ lookups' = lookups \cup {[s |-> s, v |-> v]}
    BY <1>2, <1>3, <1>5, <1>7 DEF LookupInv
  <1> QED BY <1>1, <1>6, <1>7 DEF Opened

\* LookupInv is inductive.
LEMMA LookupStep ==
  ASSUME CoreInv, [Next]_vars, ~AddressReuse, LookupInv
  PROVE  LookupInv'
  <1>0. /\ TypeOK /\ Shape(todo) /\ SolvingInv /\ sock \in [Sockets -> Objects]
        /\ m_lstOpenSockets \subseteq Sockets
    BY Parts DEF TypeOK
  <1>1. ASSUME At("Failed")
        PROVE  /\ MarkedSender \in [Sockets -> Objects]
               /\ \A s \in Sockets : MarkedSender[s].m_IsSolving = sock[s].m_IsSolving
    BY <1>0, <1>1, MeIs, MarkedIs
  <1>2. CASE UNCHANGED vars BY <1>2, LookupStays DEF vars, sockVars
  <1>3. CASE Insert \/ TryRefused \/ TryWait \/ TryPlain \/ Unrecurse \/ CheckBegin \/ CheckForTimeout \/ CheckEnd
    BY <1>3, LookupStays DEF Insert, TryRefused, TryWait, TryPlain, Unrecurse, CheckBegin,
                             CheckForTimeout, CheckEnd, sockVars
  <1>4. CASE DestroySocket \/ TryGiveUp \/ ConnectToAnyServer \/ OnTCPTimer \/ UserCancel \/ Disconnect
    <2>1. PICK gone : DestroySockets(gone, sock) /\ UNCHANGED lookups
      BY <1>4 DEF DestroySocket, TryGiveUp, ConnectToAnyServer, OnTCPTimer, UserCancel, Disconnect
    <2> QED BY <1>0, <2>1, LookupDestroy
  <1>5. CASE TryNext
    <2>1. PICK v \in ServerSet : v = m_servers[GetNextServer] BY <1>0, <1>5, NextIs DEF TryNext
    <2>2. PICK b \in BOOLEAN : b = ~m_bTryObfuscated OBVIOUS
    <2>3. Open(v, TRUE, b, {}) BY <1>5, <2>1, <2>2 DEF TryNext
    <2> QED BY <1>0, <2>3, LookupOpen
  <1>6. CASE ConnectToServer
    <2>1. todo # <<>> BY <1>6 DEF ConnectToServer, At
    <2>2. 1 \in 1..Len(todo) /\ Head(todo) = todo[1] BY <1>0, <2>1, HeadIs
    <2>3. Head(todo) \in Calls BY <1>0, <2>2, ShapeSeq, ElementOfSeq
    <2>4. PICK v \in ServerSet : v = Head(todo).v BY <2>3 DEF Calls
    <2>5. PICK b \in BOOLEAN : b = At("ConnectToPlain") BY DEF At
    <2>6. Open(v, FALSE, b, GivenUp) BY <1>6, <2>4, <2>5 DEF ConnectToServer
    <2> QED BY <1>0, <2>6, LookupOpen
  <1>7. CASE FailedIgnored \/ FailedMulti
    <2>1. sock' = sock \/ sock' = MarkedSender BY <1>7 DEF FailedIgnored, FailedMulti
    <2>2. UNCHANGED <<lookups, m_lstOpenSockets>> /\ At("Failed")
      BY <1>7 DEF FailedIgnored, FailedMulti, Handled
    <2> QED BY <1>0, <1>1, <2>1, <2>2, LookupStays
  <1>8. CASE FailedDisconnected
    <2>1. UNCHANGED <<lookups, m_lstOpenSockets>> /\ At("Failed") BY <1>8 DEF FailedDisconnected, Handled
    <2>2. \A k \in Objects : [k EXCEPT !.tcp = "closed"].m_IsSolving = k.m_IsSolving BY DEF Objects
    <2>3. \A s \in Sockets : sock'[s].m_IsSolving = sock[s].m_IsSolving
      <3> HIDE DEF MarkedSender
      <3> QED BY <1>1, <1>8, <2>1, <2>2 DEF FailedDisconnected
    <2> QED BY <1>0, <2>1, <2>3, LookupStays
  <1>9. CASE FailedFatal
    BY <1>0, <1>1, <1>9, LookupDestroy DEF FailedFatal, Handled
  <1>10. CASE FailedSingle
    <2>1. UNCHANGED lookups /\ At("Failed") BY <1>10 DEF FailedSingle, Handled
    <2>2. CASE sock' = MarkedSender /\ UNCHANGED m_lstOpenSockets
      BY <1>0, <1>1, <2>1, <2>2, LookupStays
    <2>3. CASE DestroySockets(Unmarked \ {connectedsocket, Me}, MarkedSender)
      BY <1>0, <1>1, <2>1, <2>3, LookupDestroy
    <2> QED BY <1>10, <2>2, <2>3 DEF FailedSingle
  <1>11. ASSUME NEW x \in Sockets, NEW phase \in {"asked", "up"}, NEW k, NEW calls,
                SocketEvent(x, phase, k, calls)
         PROVE  LookupInv'
    <2>1. ~sock[x].m_IsSolving /\ x \in m_lstOpenSockets BY <1>0, <1>11 DEF SolvingInv, SocketEvent
    <2>2. \A l \in lookups : l.s # x BY <2>1 DEF LookupInv
    <2>3. UNCHANGED <<lookups, m_lstOpenSockets>> /\ sock' = [sock EXCEPT ![x] = k]
      BY <1>11 DEF SocketEvent
    <2> QED BY <1>0, <2>2, <2>3 DEF LookupInv
  <1>12. ASSUME NEW x \in Sockets, Network(x) PROVE LookupInv'
    <2>1. CASE ReceiveID(x)
      <3>1. PICK k \in Objects : k = Noted(sock[x], "CONNECTED") /\ k.m_IsSolving = sock[x].m_IsSolving
        <4>1. "CONNECTED" \in States BY DEF States
        <4> QED BY <1>0, <4>1, UpdatesAre DEF Updated
      <3>2. /\ DestroySockets(Losers(x), [sock EXCEPT ![x] = k]) /\ UNCHANGED lookups
        BY <1>0, <2>1, <3>1 DEF ReceiveID, Noted
      <3> QED BY <1>0, <3>1, <3>2, LookupDestroy
    <2>2. CASE OnConnect(x) BY <1>11, <2>2 DEF OnConnect
    <2>3. CASE OnClose(x) \/ ReceiveLate(x) \/ ReceiveRefusal(x)
      BY <1>11, <2>3 DEF OnClose, ReceiveLate, ReceiveRefusal
    <2>4. ASSUME NEW st, OnConnectError(x, st) PROVE LookupInv' BY <1>11, <2>4 DEF OnConnectError
    <2>5. ASSUME NEW bad, ReceiveBad(x, bad) PROVE LookupInv' BY <1>11, <2>5 DEF ReceiveBad
    <2> QED BY <1>12, <2>1, <2>2, <2>3, <2>4, <2>5 DEF Network
  <1>13. ASSUME NEW l \in lookups, NEW found, LookupDone(l, found) PROVE LookupInv'
    <2>1. lookups' = lookups \ {l} /\ UNCHANGED m_lstOpenSockets BY <1>13 DEF LookupDone
    <2>2. PICK k : sock' = sock \/ sock' = [sock EXCEPT ![l.s] = k] BY <1>13, Zenon DEF LookupDone
    <2>3. \A m \in lookups' : m.s # l.s BY <2>1 DEF LookupInv
    <2>4. \A m \in lookups : m.s \in Sockets BY <1>0 DEF TypeOK
    <2>5. \A m \in lookups' : sock'[m.s] = sock[m.s] BY <1>0, <2>1, <2>2, <2>3, <2>4
    <2> QED BY <2>1, <2>5 DEF LookupInv
  <1>14. ASSUME NEW k, CoreTimer(k) PROVE LookupInv' BY <1>14, LookupStays DEF CoreTimer, sockVars
  <1>15. CASE UserConnect \/ UserRemove BY <1>15, LookupStays DEF UserConnect, UserRemove, sockVars
  <1> QED BY <1>2, <1>3, <1>4, <1>5, <1>6, <1>7, <1>8, <1>9, <1>10, <1>12, <1>13, <1>14, <1>15
      DEF Next, Internal

\* The connection is left alone by what does not touch its socket or the calls.
LEMMA LiveStays ==
  ASSUME LiveInv, UNCHANGED <<connected, connectedsocket, todo>>,
         connected => /\ connectedsocket \in m_lstOpenSockets'
                      /\ sock'[connectedsocket] = sock[connectedsocket]
  PROVE  LiveInv'
  BY DEF LiveInv, At, Me

\* The calls of an event.
LEMMA LiveEvent ==
  ASSUME LiveInv, AtRest, UNCHANGED <<connected, connectedsocket>>, Shape(todo'),
         connected => /\ connectedsocket \in m_lstOpenSockets'
                      /\ sock'[connectedsocket] = sock[connectedsocket]
                      /\ \A i \in 1..Len(todo') : todo'[i].op = "Destroy" => todo'[i].s # connectedsocket
  PROVE  LiveInv'
  <1>1. DOMAIN todo' = 1..Len(todo') BY ShapeSeq
  <1>2. ~At("Failed") BY DEF AtRest, At
  <1> QED BY <1>1, <1>2 DEF LiveInv

\* An event of a socket: the connected one is up, and its own events begin with
\* its failure.
LEMMA LiveSocketEvent ==
  ASSUME CoreInv, LiveInv, NEW s \in Sockets, NEW phase, NEW k \in Objects,
         NEW calls \in EventCalls(s), SocketEvent(s, phase, k, calls),
         s = connectedsocket /\ phase = "up" /\ sock[s].state = "CONNECTED" =>
           /\ k.state = "DISCONNECTED"
           /\ calls \in {<<On("Failed", s)>>, <<On("Failed", s), On("Destroy", s)>>}
  PROVE  LiveInv'
  <1>0. sock \in [Sockets -> Objects] /\ todo = <<>> BY Parts DEF TypeOK, SocketEvent, AtRest
  <1>1. /\ AtRest /\ todo' = calls /\ sock' = [sock EXCEPT ![s] = k] /\ sock[s].tcp = phase
        /\ UNCHANGED <<connected, connectedsocket, m_lstOpenSockets>>
    BY DEF SocketEvent, connVars
  <1>2. Shape(todo') /\ \A i \in 1..Len(todo') : todo'[i].s = s BY <1>1, EventCallsAre
  <1>3. CASE s # connectedsocket
    <2>1. connected => connectedsocket \in m_lstOpenSockets BY DEF LiveInv
    <2>2. connected => connectedsocket \in Sockets BY <2>1, Parts DEF TypeOK
    <2> QED BY <1>0, <1>1, <1>2, <1>3, <2>1, <2>2, LiveEvent
  <1>4. CASE s = connectedsocket
    <2> SUFFICES ASSUME connected PROVE LiveInv' BY <1>1 DEF LiveInv
    <2>1. sock[s].state = "CONNECTED" /\ sock[s].tcp = "up" /\ s \in m_lstOpenSockets
      BY <1>0, <1>4 DEF LiveInv, At
    <2>2. /\ k.state = "DISCONNECTED"
          /\ calls \in {<<On("Failed", s)>>, <<On("Failed", s), On("Destroy", s)>>}
      BY <1>1, <1>4, <2>1
    <2>3. calls # <<>> /\ Head(calls) = On("Failed", s) BY <2>2
    <2>4. On("Failed", s).op = "Failed" /\ On("Failed", s).s = s BY CallsAre DEF Ops, Later
    <2>5. At("Failed")' /\ Me' = s /\ sock'[s].state = "DISCONNECTED"
      BY <1>0, <1>1, <2>2, <2>3, <2>4 DEF At, Me
    <2> QED BY <1>1, <1>4, <2>1, <2>5 DEF LiveInv
  <1> QED BY <1>3, <1>4

\* The network and the connection.
LEMMA LiveNetwork ==
  ASSUME CoreInv, LiveInv, NEW s \in Sockets, Network(s)
  PROVE  LiveInv'
  <1>0. sock[s] \in Objects /\ sock \in [Sockets -> Objects] BY Parts DEF TypeOK
  <1>1. {"SERVERDEAD", "ERROR", "FATALERROR", "DISCONNECTED", "CONNECTED"} \subseteq States BY DEF States
  <1>2. {<<>>, <<On("Destroy", s)>>, <<On("Failed", s)>>, <<On("Failed", s), On("Destroy", s)>>}
          \subseteq EventCalls(s)
    BY DEF EventCalls
  <1>3. CASE OnConnect(s)
    <2> DEFINE v == sock[s].server
               known == v \in DynIP => Listed(v)
               st == IF known THEN "WAITFORLOGIN" ELSE sock[s].state
               k == UpWith(sock[s], st)
               calls == IF known /\ ~connecting THEN <<On("Destroy", s)>> ELSE <<>>
    <2>1. st \in States BY <1>0 DEF Objects, States
    <2>2. k \in Objects
      <3> HIDE DEF st
      <3> QED BY <1>0, <2>1, UpdatesAre DEF Updated
    <2>3. calls \in EventCalls(s) BY <1>2
    <2>4. SocketEvent(s, "asked", k, calls) BY <1>3 DEF OnConnect, UpWith
    <2> HIDE DEF v, known, st, k, calls
    <2> QED BY <2>2, <2>3, <2>4, LiveSocketEvent
  <1>4. CASE OnClose(s)
    <2> DEFINE st == CASE sock[s].state = "WAITFORLOGIN" -> "SERVERFULL"
                       [] sock[s].state = "CONNECTED" -> "DISCONNECTED"
                       [] OTHER -> "NOTCONNECTED"
               k == Noted(sock[s], st)
    <2>1. sock[s].state = "CONNECTED" => st = "DISCONNECTED" OBVIOUS
    <2>2. st \in States BY DEF States
    <2>3. k \in Objects /\ k.state = st
      <3> HIDE DEF st
      <3> QED BY <1>0, <2>2, UpdatesAre DEF Updated
    <2>4. SocketEvent(s, "up", k, <<On("Failed", s), On("Destroy", s)>>) BY <1>4 DEF OnClose, Noted
    <2> HIDE DEF st, k
    <2> QED BY <1>2, <2>1, <2>2, <2>3, <2>4, LiveSocketEvent
  <1>5. CASE ReceiveLate(s)
    BY <1>0, <1>2, <1>5, LiveSocketEvent DEF ReceiveLate
  <1>6. CASE ReceiveRefusal(s)
    <2> DEFINE k == Doomed(sock[s], "DISCONNECTED")
    <2>1. k \in Objects /\ k.state = "DISCONNECTED" BY <1>0, <1>1, UpdatesAre DEF Updated
    <2>2. SocketEvent(s, "up", k, <<On("Failed", s), On("Destroy", s)>>)
      BY <1>6 DEF ReceiveRefusal, Doomed
    <2> HIDE DEF k
    <2> QED BY <1>2, <2>1, <2>2, LiveSocketEvent
  <1>7. ASSUME NEW st \in {"SERVERDEAD", "ERROR", "FATALERROR"}, OnConnectError(s, st) PROVE LiveInv'
    <2> DEFINE k == Doomed(sock[s], st)
    <2>1. k \in Objects
      <3>1. st \in States BY <1>1
      <3>2. Updated(sock[s], k, st) BY <1>0, <3>1, UpdatesAre
      <3> QED BY <3>2 DEF Updated
    <2>2. SocketEvent(s, "asked", k, <<On("Failed", s), On("Destroy", s)>>)
      BY <1>7 DEF OnConnectError, Doomed
    <2> HIDE DEF k
    <2> QED BY <1>2, <2>1, <2>2, LiveSocketEvent
  <1>8. ASSUME NEW bad \in BOOLEAN, ReceiveBad(s, bad) PROVE LiveInv'
    <2> DEFINE k == Noted(sock[s], "DISCONNECTED")
    <2>1. k \in Objects /\ k.state = "DISCONNECTED" BY <1>0, <1>1, UpdatesAre DEF Updated
    <2>2. SocketEvent(s, "up", k, <<On("Failed", s)>>) BY <1>8 DEF ReceiveBad, Noted
    <2> HIDE DEF k
    <2> QED BY <1>2, <2>1, <2>2, LiveSocketEvent
  <1>9. CASE ReceiveID(s)
    <2>1. PICK k \in Objects : k = Noted(sock[s], "CONNECTED") /\ k.state = "CONNECTED" /\ k.tcp = sock[s].tcp
      BY <1>0, <1>1, UpdatesAre DEF Updated
    <2>2. DestroySockets(Losers(s), [sock EXCEPT ![s] = k])
      BY <1>0, <1>9, <2>1 DEF ReceiveID, Noted
    <2>3. s \notin Losers(s) BY DEF Losers
    <2>4. s \in m_lstOpenSockets' /\ sock'[s] = k BY <1>0, <1>9, <2>2, <2>3 DEF DestroySockets, ReceiveID
    <2> QED BY <1>9, <2>1, <2>4 DEF LiveInv, ReceiveID, AtRest
  <1> QED BY <1>3, <1>4, <1>5, <1>6, <1>7, <1>8, <1>9 DEF Network

\* LiveInv is inductive.
LEMMA LiveStep ==
  ASSUME CoreInv, CoreInv', [Next]_vars, LookupInv, LiveInv
  PROVE  LiveInv'
  <1>0. /\ TypeOK /\ Shape(todo) /\ FlagInv /\ CallsInv /\ SolvingInv /\ sock \in [Sockets -> Objects]
        /\ m_lstOpenSockets \subseteq Sockets
    BY Parts DEF TypeOK
  <1>00. Shape(todo') BY ShapeIs DEF CoreInv, TypeOK
  <1>a. connected => connectedsocket \in m_lstOpenSockets /\ connectedsocket \in Sockets
    BY <1>0 DEF LiveInv
  <1>1. CASE UNCHANGED vars
    BY <1>1, <1>a, LiveStays DEF vars, connVars, sockVars
  <1>2. ASSUME NEW op \in {"Insert", "TryAnother", "Unrecurse", "Check", "Scan"}, At(op),
               connected' = connected
        PROVE  LiveInv'
    BY <1>0, <1>2, NotConnected DEF LiveInv
  <1>3. CASE Insert \/ TryRefused \/ TryWait \/ TryPlain \/ Unrecurse \/ CheckBegin \/ CheckForTimeout \/ CheckEnd
    BY <1>2, <1>3 DEF Insert, TryRefused, TryWait, TryPlain, Exhausted, NothingUnderWay, MayTry, Unrecurse,
                      CheckBegin, CheckForTimeout, CheckEnd, connVars
  <1>4. CASE TryNext \/ TryGiveUp
    BY <1>2, <1>4 DEF TryNext, TryGiveUp, Exhausted, NothingUnderWay, MayTry
  <1>5. CASE ConnectToAnyServer \/ ConnectToServer \/ FailedDisconnected \/ Disconnect
    BY <1>5 DEF ConnectToAnyServer, ConnectToServer, StartOver, FailedDisconnected, Disconnect, LiveInv
  <1>6. CASE DestroySocket
    <2> SUFFICES ASSUME connected PROVE LiveInv' BY <1>6 DEF LiveInv, DestroySocket, connVars
    <2>1. At("Destroy") /\ ~At("Failed") BY <1>6 DEF DestroySocket, At
    <2>2. Me \in Sockets /\ Me = todo[1].s /\ todo[1].op = "Destroy" /\ 1 \in 1..Len(todo)
      BY <1>0, <2>1, MeIs
    <2>3. DOMAIN todo = 1..Len(todo) /\ DOMAIN todo' = 1..Len(todo') BY <1>0, <1>00, ShapeSeq
    <2>4. Me # connectedsocket BY <2>1, <2>2, <2>3 DEF LiveInv
    <2>5. \A i \in 1..Len(todo') : i + 1 \in 1..Len(todo) /\ todo'[i] = todo[i + 1]
      BY <1>0, <1>6, <2>1, PopIs DEF DestroySocket, At
    <2>6. \A i \in DOMAIN todo' : todo'[i].op = "Destroy" => todo'[i].s # connectedsocket
      BY <2>1, <2>3, <2>5 DEF LiveInv
    <2>7. connectedsocket \in m_lstOpenSockets' /\ sock'[connectedsocket] = sock[connectedsocket]
      BY <1>6, <1>a, <2>4 DEF DestroySocket, DestroySockets
    <2> QED BY <1>6, <2>1, <2>6, <2>7 DEF LiveInv, DestroySocket, connVars
  <1>7. CASE FailedIgnored
    <2> SUFFICES ASSUME connected PROVE LiveInv' BY <1>7 DEF LiveInv, FailedIgnored, connVars
    <2>1. At("Failed") BY <1>7 DEF FailedIgnored
    <2>2. Me # connectedsocket
      <3> SUFFICES ASSUME Me = connectedsocket PROVE FALSE OBVIOUS
      <3>1. sock[Me].state \in TryFailure BY <1>7 DEF FailedIgnored
      <3>2. sock[Me].state \in {"CONNECTED", "DISCONNECTED"} BY DEF LiveInv
      <3> QED BY <3>1, <3>2 DEF TryFailure
    <2>3. DOMAIN todo = 1..Len(todo) /\ DOMAIN todo' = 1..Len(todo') BY <1>0, <1>00, ShapeSeq
    <2>4. \A i \in 1..Len(todo') : i + 1 \in 1..Len(todo) /\ todo'[i] = todo[i + 1]
      BY <1>0, <1>7, <2>1, PopIs DEF FailedIgnored, At
    <2>5. \A i \in DOMAIN todo' : todo'[i].op = "Destroy" => todo'[i].s # connectedsocket
      BY <2>2, <2>3, <2>4 DEF LiveInv
    <2>6. sock' = sock /\ m_lstOpenSockets' = m_lstOpenSockets BY <1>7, <2>2 DEF FailedIgnored
    <2> QED BY <1>7, <2>2, <2>5, <2>6 DEF LiveInv, FailedIgnored, connVars
  <1>8. CASE FailedFatal
    <2> SUFFICES ASSUME connected PROVE FALSE BY <1>8 DEF LiveInv, FailedFatal
    <2>1. Me = connectedsocket /\ sock[Me].state = "FATALERROR"
      BY <1>0, <1>8 DEF FailedFatal, Handled, FlagInv
    <2> QED BY <2>1 DEF LiveInv
  <1>9. CASE FailedSingle \/ FailedMulti
    BY <1>0, <1>9 DEF FailedSingle, FailedMulti, FlagInv, LiveInv, connVars
  <1>10. ASSUME NEW l \in lookups, NEW found, LookupDone(l, found) PROVE LiveInv'
    <2>0. AtRest /\ UNCHANGED <<connected, connectedsocket, m_lstOpenSockets>>
      BY <1>10 DEF LookupDone, connVars
    <2>1. l.s \in Sockets BY <1>0 DEF TypeOK
    <2>2. CASE l.s \notin m_lstOpenSockets
      <3>1. UNCHANGED <<sock, todo>> BY <1>10, <2>2 DEF LookupDone
      <3> QED BY <1>a, <2>0, <3>1, LiveStays
    <2>3. CASE l.s \in m_lstOpenSockets
      <3>1. sock[l.s].m_IsSolving BY <2>3 DEF LookupInv
      <3>2. sock[l.s].state = "CONNECTING" BY <1>0, <2>1, <3>1 DEF SolvingInv
      <3>3. connected => sock[connectedsocket].state = "CONNECTED" BY <2>0 DEF LiveInv, AtRest, At
      <3>4. connected => l.s # connectedsocket BY <3>2, <3>3
      <3>5. PICK k : sock' = [sock EXCEPT ![l.s] = k] BY <1>10, <2>3, Zenon DEF LookupDone
      <3>6. todo' \in EventCalls(l.s) BY <1>10, <2>3 DEF LookupDone, ResolvedCalls, EventCalls
      <3>7. \A i \in 1..Len(todo') : todo'[i].s = l.s BY <2>1, <3>6, EventCallsAre
      <3> QED BY <1>0, <1>00, <1>a, <2>0, <3>4, <3>5, <3>7, LiveEvent
    <2> QED BY <2>2, <2>3
  <1>11. ASSUME NEW k, CoreTimer(k) PROVE LiveInv'
    BY <1>0, <1>11 DEF CoreTimer, FlagInv, LiveInv, connVars
  <1>12. CASE OnTCPTimer
    <2> SUFFICES ASSUME connected PROVE LiveInv' BY <1>12 DEF LiveInv, OnTCPTimer
    <2>1. todo' = todo BY <1>12 DEF OnTCPTimer, AtRest
    <2>2. connectedsocket \in m_lstOpenSockets' /\ sock'[connectedsocket] = sock[connectedsocket]
      BY <1>12, <1>a DEF OnTCPTimer, DestroySockets
    <2> QED BY <1>12, <2>1, <2>2, LiveStays DEF OnTCPTimer
  <1>13. CASE UserConnect
    <2>1. \A i \in 1..Len(todo') : todo'[i].op # "Destroy"
      <3>1. Call("ConnectToAny").op = "ConnectToAny" /\ \A v \in Chosen : To("ConnectTo", v).op = "ConnectTo"
        BY CallsAre, Basics DEF Ops, Later
      <3>2. PICK c : todo' = <<c>> /\ c.op # "Destroy" BY <1>13, <3>1 DEF UserConnect
      <3> QED BY <3>2
    <2> QED BY <1>00, <1>13, <1>a, <2>1, LiveEvent DEF UserConnect, connVars, sockVars
  <1>14. CASE UserCancel BY <1>0, <1>14 DEF UserCancel, FlagInv, LiveInv
  <1>15. CASE UserRemove BY <1>15, <1>a, LiveStays DEF UserRemove, connVars, sockVars
  <1>16. ASSUME NEW s \in Sockets, Network(s) PROVE LiveInv' BY <1>16, LiveNetwork
  <1> QED BY <1>1, <1>3, <1>4, <1>5, <1>6, <1>7, <1>8, <1>9, <1>10, <1>11, <1>12, <1>13, <1>14, <1>15,
             <1>16
      DEF Next, Internal

\* The calls below the innermost stay, and n calls take its place.
Kept(n) ==
  /\ n \in Nat /\ Len(todo) \in Nat /\ Len(todo) > 0 /\ Len(todo') = Len(todo) - 1 + n
  /\ \A i \in (n + 1)..Len(todo') : i - n + 1 \in 2..Len(todo) /\ todo'[i] = todo[i - n + 1]

\* The innermost call returns.
LEMMA KeptPop ==
  ASSUME Shape(todo), todo # <<>>, Run(<<>>)
  PROVE  Kept(0)
  <1>1. /\ Shape(todo') /\ Len(todo') = Len(todo) - 1
        /\ \A i \in 1..Len(todo') : i + 1 \in 1..Len(todo) /\ todo'[i] = todo[i + 1]
    BY PopIs
  <1>2. Len(todo) \in Nat /\ Len(todo) > 0 BY HeadIs
  <1>3. \A i \in 1..Len(todo') : i - 0 + 1 \in 2..Len(todo) /\ i - 0 + 1 = i + 1 BY <1>1, <1>2
  <1> QED BY <1>1, <1>2, <1>3 DEF Kept

\* One call takes its place,
LEMMA KeptOne ==
  ASSUME Shape(todo), todo # <<>>, NEW c, GoodCall(c), Run(<<c>>),
         c.op \in {"Check", "Scan"} => Len(todo) = 1
  PROVE  Kept(1) /\ todo'[1] = c /\ todo' # <<>> /\ Head(todo') = c
  <1>1. /\ Shape(todo') /\ Len(todo') = Len(todo) /\ todo'[1] = c
        /\ \A i \in 2..Len(todo) : todo'[i] = todo[i]
    BY OneIs
  <1>2. Len(todo) \in Nat /\ Len(todo) > 0 BY HeadIs
  <1>3. \A i \in 2..Len(todo') : i - 1 + 1 \in 2..Len(todo) /\ i - 1 + 1 = i BY <1>1, <1>2
  <1>4. todo' # <<>> BY <1>1, <1>2, EmptySeq
  <1>5. Head(todo') = c BY <1>1, <1>4, HeadIs
  <1> QED BY <1>1, <1>2, <1>3, <1>4, <1>5 DEF Kept

\* two,
LEMMA KeptTwo ==
  ASSUME Shape(todo), todo # <<>>, NEW c, NEW d, GoodCall(c), GoodCall(d), Run(<<c, d>>),
         c.op \notin {"Check", "Scan"}, d.op \in Later \ {"Check", "Scan"}
  PROVE  Kept(2) /\ todo'[1] = c /\ todo'[2] = d /\ todo' # <<>> /\ Head(todo') = c
  <1>1. /\ Shape(todo') /\ Len(todo') = Len(todo) + 1 /\ todo'[1] = c /\ todo'[2] = d
        /\ Len(todo) \in Nat /\ Len(todo) > 0
        /\ \A i \in 3..Len(todo') : i - 1 \in 2..Len(todo) /\ todo'[i] = todo[i - 1]
    BY TwoIs
  <1>2. \A i \in 3..Len(todo') : i - 2 + 1 \in 2..Len(todo) /\ i - 2 + 1 = i - 1 BY <1>1
  <1>3. todo' # <<>> BY <1>1, EmptySeq
  <1>4. Head(todo') = c BY <1>1, <1>3, HeadIs
  <1> QED BY <1>1, <1>2, <1>3, <1>4 DEF Kept

\* or three.
LEMMA KeptThree ==
  ASSUME Shape(todo), todo # <<>>, NEW c, NEW d, NEW e,
         GoodCall(c), GoodCall(d), GoodCall(e), Run(<<c, d, e>>),
         c.op \notin {"Check", "Scan"}, {d.op, e.op} \subseteq Later \ {"Check", "Scan"}
  PROVE  /\ Kept(3) /\ todo'[1] = c /\ todo'[2] = d /\ todo'[3] = e
         /\ todo' # <<>> /\ Head(todo') = c
  <1>1. /\ Shape(todo') /\ Len(todo') = Len(todo) + 2 /\ todo'[1] = c /\ todo'[2] = d /\ todo'[3] = e
        /\ Len(todo) \in Nat /\ Len(todo) > 0
        /\ \A i \in 4..Len(todo') : i - 2 \in 2..Len(todo) /\ todo'[i] = todo[i - 2]
    BY ThreeIs
  <1>2. \A i \in 4..Len(todo') : i - 3 + 1 \in 2..Len(todo) /\ i - 3 + 1 = i - 2 BY <1>1
  <1>3. todo' # <<>> BY <1>1, EmptySeq
  <1>4. Head(todo') = c BY <1>1, <1>3, HeadIs
  <1> QED BY <1>1, <1>2, <1>3, <1>4 DEF Kept

\* What Open does to the stack.
LEMMA KeptOpened ==
  ASSUME Shape(todo), todo # <<>>, NEW s, NEW v, NEW b, NEW gone, Opened(s, v, b, gone)
  PROVE  \/ /\ Kept(1) /\ todo'[1] = On("Insert", s)
            /\ todo' # <<>> /\ Head(todo') = On("Insert", s)
         \/ /\ Kept(3) /\ v \in Filtered \ DynIP /\ todo'[1] = On("Failed", s)
            /\ todo'[2] = On("Destroy", s) /\ todo'[3] = On("Insert", s)
            /\ todo' # <<>> /\ Head(todo') = On("Failed", s)
  <1>1. s \in Sockets BY DEF Opened
  <1>2. /\ GoodCall(On("Failed", s)) /\ On("Failed", s).op = "Failed"
        /\ GoodCall(On("Destroy", s)) /\ On("Destroy", s).op = "Destroy"
        /\ GoodCall(On("Insert", s)) /\ On("Insert", s).op = "Insert"
    BY <1>1, CallsAre DEF Ops, Later
  <1>3. {"Destroy", "Insert"} \subseteq Later \ {"Check", "Scan"} BY DEF Later
  <1>4. CASE Run(<<On("Insert", s)>>) BY <1>2, <1>4, KeptOne
  <1>5. CASE v \in Filtered \ DynIP /\ Run(<<On("Failed", s), On("Destroy", s), On("Insert", s)>>)
    <2>1. {On("Destroy", s).op, On("Insert", s).op} \subseteq Later \ {"Check", "Scan"} BY <1>2, <1>3
    <2>2. On("Failed", s).op \notin {"Check", "Scan"} BY <1>2
    <2> QED BY <1>2, <1>5, <2>1, <2>2, KeptThree
  <1> QED BY <1>4, <1>5 DEF Opened

\* The loop of CheckForTimeout stays at the bottom of the stack.
LEMMA ScanKept ==
  ASSUME ScanInv, it # 0, Shape(todo), ~At("Scan"), NEW n, Kept(n)
  PROVE  todo' # <<>> /\ todo'[Len(todo')].op = "Scan"
  <1>1. Len(todo) \in Nat /\ Len(todo) > 0 /\ n \in Nat /\ Len(todo') = Len(todo) - 1 + n BY DEF Kept
  <1>2. todo # <<>> /\ todo[Len(todo)].op = "Scan" BY DEF ScanInv
  <1>3. Head(todo) = todo[1] BY <1>2, HeadIs
  <1>4. Len(todo) # 1 BY <1>2, <1>3 DEF At
  <1>5. PICK a : a = Len(todo) OBVIOUS
  <1>5a. PICK b : b = Len(todo') OBVIOUS
  <1>5b. a \in Nat /\ a > 0 /\ a # 1 /\ b = a - 1 + n BY <1>1, <1>4, <1>5, <1>5a
  <1>5c. b \in (n + 1)..b /\ b - n + 1 = a /\ b > 0 BY <1>1, <1>5b
  <1>6. todo'[Len(todo')] = todo[Len(todo)] BY <1>5, <1>5a, <1>5c DEF Kept
  <1>7. Len(todo') > 0 BY <1>5a, <1>5c
  <1>8. todo' # <<>>
    <2> SUFFICES ASSUME todo' = <<>> PROVE FALSE OBVIOUS
    <2>1. Len(todo') = 0 OBVIOUS
    <2> QED BY <1>7, <2>1
  <1> QED BY <1>2, <1>6, <1>8

\* A call returns: the next one is the end of a method.
LEMMA ScanPop ==
  ASSUME ScanInv, Shape(todo), todo # <<>>, ~At("Scan"), Run(<<>>),
         it' \in 0..(Len(connectionattemps') + 1), it' # 0 => it # 0
  PROVE  ScanInv'
  <1> SUFFICES ASSUME it' # 0
               PROVE  /\ todo' # <<>> /\ todo'[Len(todo')].op = "Scan"
                      /\ Head(todo').op \in Later
    BY DEF ScanInv, At, Later
  <1>1. Kept(0) BY KeptPop
  <1>2. todo' # <<>> /\ todo'[Len(todo')].op = "Scan" BY <1>1, ScanKept
  <1>3. Shape(todo') /\ \A i \in 1..Len(todo') : todo'[i].op \in Later BY PopIs
  <1>4. 1 \in 1..Len(todo') /\ Head(todo') = todo'[1] BY <1>2, <1>3, HeadIs
  <1> QED BY <1>2, <1>3, <1>4

\* The map is emptied while the iterator stands at its end, or nowhere.
LEMMA ScanStop ==
  ASSUME ScanInv, StopConnectionTry, it # 0 => connectionattemps = <<>>
  PROVE  it' = it /\ it' \in 0..(Len(connectionattemps') + 1)
  <1>1. it # 0 => Len(connectionattemps) = 0 OBVIOUS
  <1>2. connectionattemps' = <<>> /\ Len(connectionattemps') = 0 BY DEF StopConnectionTry
  <1>3. CASE it = 0
    BY <1>2, <1>3 DEF StopConnectionTry
  <1>4. CASE it # 0
    <2>1. it = 1 BY <1>1, <1>4 DEF ScanInv
    <2> QED BY <1>1, <1>2, <1>4, <2>1 DEF StopConnectionTry
  <1> QED BY <1>3, <1>4

\* No loop is under way, and none begins.
LEMMA ScanIdle ==
  ASSUME ScanInv, TypeOK', it = 0, it' = 0 \/ StopConnectionTry \/ UNCHANGED mapVars
  PROVE  ScanInv'
  <1>1. Len(connectionattemps') \in Nat BY LenProperties DEF TypeOK
  <1>2. Len(connectionattemps) + 1 # 0 BY DEF ScanInv
  <1>3. it' = 0 BY <1>2 DEF StopConnectionTry, mapVars
  <1> QED BY <1>1, <1>3 DEF ScanInv

\* The innermost call is replaced by one or more that the loop may meet.
LEMMA ScanCall ==
  ASSUME ScanInv, Shape(todo), ~At("Scan"), NEW n, Kept(n), it' = it, connectionattemps' = connectionattemps,
         todo' # <<>>,
         it # 0 => \/ Head(todo').op \in Later \cup {"TryAnother"}
                   \/ Head(todo').op = "ConnectToAnyPlain" /\ connectionattemps = <<>>
                   \/ /\ Head(todo').op = "Failed"
                      /\ ~singleconnecting' /\ sock'[Me'].state = "ERROR" /\ Me' \notin Attempts
  PROVE  ScanInv'
  <1>1. Attempts' = Attempts BY DEF Attempts
  <1>2. it # 0 => todo' # <<>> /\ todo'[Len(todo')].op = "Scan" BY ScanKept
  <1>3. ScanInv => it \in 0..(Len(connectionattemps) + 1) BY DEF ScanInv
  <1>4. it # 0 /\ At("Failed")' => ~singleconnecting' /\ sock'[Me'].state = "ERROR" /\ Me' \notin Attempts
    BY DEF At, Later
  <1>5. it # 0 /\ At("ConnectToAnyPlain")' => connectionattemps = <<>> BY DEF At, Later
  <1>6. it # 0 => Head(todo').op \in Later \cup {"TryAnother", "ConnectToAnyPlain", "Failed"} OBVIOUS
  <1> QED BY <1>1, <1>2, <1>3, <1>4, <1>5, <1>6 DEF ScanInv

\* The loop stands or falls with its own action, where the iterator moves.
LEMMA ScanLoop ==
  ASSUME CoreInv, ScanInv, CheckForTimeout
  PROVE  ScanInv'
  <1>0. /\ TypeOK /\ Shape(todo) /\ todo # <<>> /\ At("Scan") /\ it \in DOMAIN connectionattemps
        /\ connectionattemps \in Seq(Sockets)
    BY Parts DEF CheckForTimeout, At, TypeOK
  <1>1. Len(connectionattemps) \in Nat /\ it \in 1..Len(connectionattemps)
    BY <1>0, LenProperties
  <1>2. PICK s \in Sockets : s = connectionattemps[it] BY <1>0, <1>1, ElementOfSeq
  <1>3. \/ /\ it' = it + 1 /\ UNCHANGED <<connectionattemps, expired, aged, lastKey, todo>>
        \/ Erase(it, it + 1) /\ todo' = <<Call("TryAnother"), On("Destroy", s)>> \o todo
    BY <1>2, Zenon DEF CheckForTimeout
  <1>4. CASE it' = it + 1 /\ UNCHANGED <<connectionattemps, expired, aged, lastKey, todo>>
    <2>1. it' \in 0..(Len(connectionattemps') + 1) BY <1>1, <1>4
    <2>2. it # 0 BY <1>1
    <2> QED BY <1>0, <1>4, <2>1, <2>2 DEF ScanInv, At
  <1>5. CASE Erase(it, it + 1) /\ todo' = <<Call("TryAnother"), On("Destroy", s)>> \o todo
    <2>1. Len(connectionattemps') = Len(connectionattemps) - 1
      BY <1>0, <1>1, <1>5, ToSetRemoveAt DEF Erase
    <2>2. it' = it BY <1>1, <1>5 DEF Erase
    <2>3. it' \in 0..(Len(connectionattemps') + 1) BY <1>1, <2>1, <2>2
    <2>4. /\ GoodCall(Call("TryAnother")) /\ Call("TryAnother").op = "TryAnother"
          /\ GoodCall(On("Destroy", s)) /\ On("Destroy", s).op = "Destroy"
      BY CallsAre DEF Ops, Later
    <2>5. "Destroy" \in Later \ {"Check", "Scan"} BY DEF Later
    <2>6. /\ Shape(todo') /\ Len(todo') = 3
          /\ todo'[1] = Call("TryAnother") /\ todo'[3] = todo[1] /\ todo[1].op = "Scan"
      BY <1>0, <1>5, <2>4, <2>5, LoopIs
    <2>7. todo' # <<>> BY <2>6, EmptySeq
    <2>8. Head(todo').op = "TryAnother" BY <2>4, <2>6, <2>7, HeadIs
    <2> QED BY <2>3, <2>6, <2>7, <2>8 DEF ScanInv, At
  <1> QED BY <1>3, <1>4, <1>5

\* An attempt is added or takes the place of another.
LEMMA ScanInsert ==
  ASSUME CoreInv, ScanInv, Insert
  PROVE  ScanInv'
  <1>0. /\ TypeOK /\ Shape(todo) /\ todo # <<>> /\ At("Insert") /\ ~At("Scan") /\ Run(<<>>)
        /\ connectionattemps \in Seq(Sockets) /\ Len(connectionattemps) \in Nat
    BY Parts, LenProperties DEF Insert, At, TypeOK
  <1>1. it \in 0..(Len(connectionattemps) + 1) BY DEF ScanInv
  <1>2. Me \in Sockets BY <1>0, MeIs
  <1>3. it' \in 0..(Len(connectionattemps') + 1) /\ (it' # 0 => it # 0)
    <2>1. CASE /\ connectionattemps' = Append(connectionattemps, Me)
               /\ it' = IF it = Len(connectionattemps) + 1 THEN it + 1 ELSE it
      <3>1. Len(connectionattemps') = Len(connectionattemps) + 1 BY <1>0, <1>2, <2>1, AppendProperties
      <3> QED BY <1>0, <1>1, <2>1, <3>1
    <2>2. CASE connectionattemps' = [connectionattemps EXCEPT ![lastKey] = Me] /\ it' = it
      <3>1. Len(connectionattemps') = Len(connectionattemps)
        BY <1>0, <1>2, <2>2, ExceptSeq
      <3> QED BY <1>1, <2>2, <3>1
    <2> QED BY <2>1, <2>2 DEF Insert
  <1> QED BY <1>0, <1>3, ScanPop

\* A try fails: in a sweep, and if the loop is under way its sender is no attempt.
LEMMA ScanFailed ==
  ASSUME CoreInv, TypeOK', ScanInv, FailedMulti
  PROVE  ScanInv'
  <1>0. /\ TypeOK /\ Shape(todo) /\ todo # <<>> /\ At("Failed") /\ ~At("Scan")
        /\ connectionattemps \in Seq(Sockets) /\ Len(connectionattemps) \in Nat
    BY Parts, LenProperties DEF FailedMulti, Handled, At, TypeOK
  <1>1. Run(<<Call("TryAnother")>>) /\ EraseAttempt BY DEF FailedMulti
  <1>2. CASE it # 0
    <2>1. Me \notin Attempts BY <1>0, <1>2 DEF ScanInv
    <2>2. UNCHANGED mapVars BY <1>1, <2>1 DEF EraseAttempt, Attempts
    <2>3. GoodCall(Call("TryAnother")) /\ Call("TryAnother").op = "TryAnother" BY CallsAre DEF Ops, Later
    <2>4. Kept(1) /\ todo' # <<>> /\ Head(todo') = Call("TryAnother") BY <1>0, <1>1, <2>3, KeptOne
    <2> QED BY <1>0, <2>2, <2>3, <2>4, ScanCall DEF mapVars
  <1>3. CASE it = 0
    <2>1. \A i \in DOMAIN connectionattemps : Erase(i, it) => it' = 0
      <3>1. DOMAIN connectionattemps \subseteq Nat \ {0} BY <1>0, LenProperties
      <3> QED BY <1>3, <3>1 DEF Erase
    <2>2. it' = 0 \/ UNCHANGED mapVars BY <1>1, <2>1 DEF EraseAttempt
    <2> QED BY <1>3, <2>2, ScanIdle
  <1> QED BY <1>2, <1>3

\* A call that the loop never meets.
LEMMA NoLoop ==
  ASSUME ScanInv, NEW op, At(op), op \notin Later \cup {"TryAnother", "ConnectToAnyPlain", "Failed"}
  PROVE  it = 0
  BY DEF ScanInv, At

\* A new socket is no attempt, and is filtered at the most.
LEMMA ScanOpen ==
  ASSUME CoreInv, ScanInv, TryNext, ~AddressReuse
  PROVE  ScanInv'
  <1>0. /\ TypeOK /\ Shape(todo) /\ todo # <<>> /\ At("TryAnother") /\ ~At("Scan")
    BY Parts DEF TryNext, MayTry, At
  <1>2. PICK v \in ServerSet : v = m_servers[GetNextServer] BY <1>0, NextIs DEF TryNext
  <1>3. PICK b \in BOOLEAN : b = ~m_bTryObfuscated OBVIOUS
  <1>4. Open(v, TRUE, b, {}) BY <1>2, <1>3 DEF TryNext
  <1>5. PICK s : Opened(s, v, b, {}) BY <1>4, OpenIs
  <1>6. s \in Sockets /\ s \notin Attempts BY <1>5 DEF Opened, Free
  <1>7. it' = it /\ connectionattemps' = connectionattemps BY DEF TryNext, mapVars
  <1>8. singleconnecting' = FALSE BY <1>4 DEF Open
  <1>9. /\ On("Failed", s).op = "Failed" /\ On("Failed", s).s = s /\ On("Insert", s).op = "Insert"
    BY <1>6, CallsAre DEF Ops, Later
  <1>10. CASE Kept(1) /\ todo' # <<>> /\ Head(todo') = On("Insert", s)
    BY <1>0, <1>7, <1>9, <1>10, ScanCall DEF Later
  <1>11. CASE Kept(3) /\ v \in Filtered \ DynIP /\ todo' # <<>> /\ Head(todo') = On("Failed", s)
    <2>1. Me' = s /\ Head(todo').op = "Failed" BY <1>9, <1>11 DEF Me
    <2>2. sock'[s] = Resolved(NewSocket(v, b), v) BY <1>5, <1>6, <1>11 DEF Opened
    <2>3. NewSocket(v, b) \in Objects BY ObjectsAre
    <2>4. Resolved(NewSocket(v, b), v).state = "ERROR"
      <3> DEFINE k == NewSocket(v, b)
      <3>1. k \in Objects BY <2>3
      <3> HIDE DEF k
      <3>2. Resolved(k, v).state = "ERROR" BY <1>11, <3>1 DEF Resolved, Objects
      <3> QED BY <3>2 DEF k
    <2> QED BY <1>0, <1>6, <1>7, <1>8, <1>11, <2>1, <2>2, <2>4, ScanCall
  <1> QED BY <1>0, <1>5, <1>10, <1>11, KeptOpened

\* ScanInv is inductive.
LEMMA ScanStep ==
  ASSUME CoreInv, CoreInv', [Next]_vars, ~AddressReuse, ScanInv
  PROVE  ScanInv'
  <1>0. /\ TypeOK /\ Shape(todo) /\ TypeOK' /\ Len(connectionattemps) \in Nat
        /\ Len(connectionattemps') \in Nat
    BY Parts, LenProperties DEF CoreInv, TypeOK
  <1>a. it \in 0..(Len(connectionattemps) + 1) BY DEF ScanInv
  <1>b. ASSUME AtRest PROVE it = 0 BY <1>b DEF ScanInv, AtRest
  <1>1. CASE UNCHANGED vars
    BY <1>1 DEF vars, mapVars, sockVars, connVars, ScanInv, At, Me, Attempts
  <1>2. CASE Insert BY <1>2, ScanInsert
  <1>3. CASE DestroySocket \/ TryRefused \/ TryWait \/ Unrecurse \/ FailedIgnored
    <2>1. /\ todo # <<>> /\ ~At("Scan") /\ Run(<<>>) /\ UNCHANGED mapVars
      BY <1>3 DEF DestroySocket, TryRefused, TryWait, Exhausted, MayTry, Unrecurse, FailedIgnored, At
    <2> QED BY <1>0, <1>a, <2>1, ScanPop DEF mapVars
  <1>4. CASE TryNext BY <1>4, ScanOpen
  <1>5. CASE TryPlain
    <2>1. /\ todo # <<>> /\ ~At("Scan") /\ Run(<<Call("ConnectToAnyPlain"), Call("Unrecurse")>>)
          /\ UNCHANGED mapVars /\ connectionattemps = <<>>
      BY <1>5 DEF TryPlain, NothingUnderWay, Exhausted, MayTry, At
    <2>2. /\ GoodCall(Call("ConnectToAnyPlain")) /\ Call("ConnectToAnyPlain").op = "ConnectToAnyPlain"
          /\ GoodCall(Call("Unrecurse")) /\ Call("Unrecurse").op = "Unrecurse"
          /\ "Unrecurse" \in Later \ {"Check", "Scan"}
      BY CallsAre DEF Ops, Later
    <2>3. Kept(2) /\ todo' # <<>> /\ Head(todo') = Call("ConnectToAnyPlain")
      BY <1>0, <2>1, <2>2, KeptTwo
    <2> QED BY <1>0, <2>1, <2>2, <2>3, ScanCall DEF mapVars
  <1>6. CASE TryGiveUp
    <2>1. /\ todo # <<>> /\ ~At("Scan") /\ Run(<<>>) /\ StopConnectionTry /\ connectionattemps = <<>>
      BY <1>6 DEF TryGiveUp, NothingUnderWay, Exhausted, MayTry, At, StopAnd
    <2>2. it' = it /\ it' \in 0..(Len(connectionattemps') + 1) BY <2>1, ScanStop
    <2> QED BY <1>0, <2>1, <2>2, ScanPop
  <1>7. CASE ConnectToAnyServer
    <2>1. /\ todo # <<>> /\ ~At("Scan") /\ StopConnectionTry
          /\ At("ConnectToAny") \/ At("ConnectToAnyPlain")
      BY <1>7 DEF ConnectToAnyServer, StartOver, At
    <2>2. it # 0 => connectionattemps = <<>>
      <3>1. At("ConnectToAny") => it = 0 BY NoLoop DEF Later
      <3> QED BY <2>1, <3>1 DEF ScanInv
    <2>3. it' = it /\ it' \in 0..(Len(connectionattemps') + 1) BY <2>1, <2>2, ScanStop
    <2>4. CASE it = 0 BY <1>0, <2>3, <2>4, ScanIdle
    <2>5. CASE it # 0
      <3>1. connectionattemps' = connectionattemps BY <2>1, <2>2, <2>5 DEF StopConnectionTry
      <3>2. CASE Run(<<>>) BY <1>0, <2>1, <2>3, <3>2, ScanPop
      <3>3. CASE Run(<<Call("TryAnother")>>)
        <4>1. GoodCall(Call("TryAnother")) /\ Call("TryAnother").op = "TryAnother"
          BY CallsAre DEF Ops, Later
        <4>2. Kept(1) /\ todo' # <<>> /\ Head(todo') = Call("TryAnother")
          BY <1>0, <2>1, <3>3, <4>1, KeptOne
        <4> QED BY <1>0, <2>1, <2>3, <3>1, <4>1, <4>2, ScanCall
      <3> QED BY <1>7, <3>2, <3>3 DEF ConnectToAnyServer
    <2> QED BY <2>4, <2>5
  <1>8. CASE ConnectToServer
    <2>1. it = 0 BY <1>8, NoLoop DEF ConnectToServer, Later
    <2> QED BY <1>0, <1>8, <2>1, ScanIdle DEF ConnectToServer, StartOver
  <1>9. CASE FailedFatal \/ FailedDisconnected \/ FailedSingle
    <2>1. it = 0
      BY <1>9 DEF FailedFatal, FailedDisconnected, FailedSingle, Handled, ScanInv
    <2>2. StopConnectionTry \/ UNCHANGED mapVars
      BY <1>9 DEF FailedFatal, FailedDisconnected, FailedSingle, StopAnd
    <2> QED BY <1>0, <2>1, <2>2, ScanIdle
  <1>10. CASE FailedMulti BY <1>0, <1>10, ScanFailed
  <1>11. CASE CheckBegin
    <2>1. todo # <<>> /\ At("Check") /\ Run(<<Call("Scan")>>) /\ it' = 1 /\ UNCHANGED connectionattemps
      BY <1>11 DEF CheckBegin, At
    <2>2. GoodCall(Call("Scan")) /\ Call("Scan").op = "Scan" BY CallsAre DEF Ops, Later
    <2>3. Len(todo) = 1 BY <1>0, <2>1, CheckIsLast
    <2>4. /\ Shape(todo') /\ Len(todo') = Len(todo) /\ todo'[1] = Call("Scan")
      BY <1>0, <2>1, <2>2, <2>3, OneIs
    <2>5. todo' # <<>> BY <2>3, <2>4, EmptySeq
    <2>6. Head(todo').op = "Scan" /\ todo'[Len(todo')].op = "Scan" BY <2>2, <2>3, <2>4, <2>5, HeadIs
    <2>7. it' \in 0..(Len(connectionattemps') + 1) BY <1>0, <2>1
    <2> QED BY <2>5, <2>6, <2>7 DEF ScanInv, At, Later
  <1>12. CASE CheckEnd BY <1>0, <1>12 DEF CheckEnd, ScanInv
  <1>13. CASE CheckForTimeout BY <1>13, ScanLoop
  <1>14. ASSUME NEW s \in Sockets, Network(s) PROVE ScanInv'
    <2>1. AtRest /\ (UNCHANGED mapVars \/ StopConnectionTry)
      BY <1>14 DEF Network, OnConnect, OnClose, ReceiveLate, ReceiveID, ReceiveRefusal, OnConnectError,
                   ReceiveBad, SocketEvent, StopAnd
    <2> QED BY <1>0, <1>b, <2>1, ScanIdle
  <1>15. ASSUME NEW l, NEW found, LookupDone(l, found) PROVE ScanInv'
    BY <1>0, <1>b, <1>15, ScanIdle DEF LookupDone
  <1>16. ASSUME NEW k, CoreTimer(k) PROVE ScanInv'
    BY <1>0, <1>b, <1>16, ScanIdle DEF CoreTimer
  <1>17. CASE OnTCPTimer \/ UserCancel
    BY <1>0, <1>b, <1>17, ScanIdle DEF OnTCPTimer, UserCancel, StopAnd
  <1>18. CASE UserConnect \/ Disconnect \/ UserRemove
    BY <1>0, <1>b, <1>18, ScanIdle DEF UserConnect, Disconnect, UserRemove
  <1> QED BY <1>1, <1>2, <1>3, <1>4, <1>5, <1>6, <1>7, <1>8, <1>9, <1>10, <1>11, <1>12, <1>13, <1>14,
             <1>15, <1>16, <1>17, <1>18
      DEF Next, Internal

\* The attempts as the elements of a list.
LEMMA AttemptsAre ==
  Attempts = ToSet(connectionattemps) /\ Attempts' = ToSet(connectionattemps')
  BY DEF Attempts, ToSet

\* What becomes of the sockets that wait for their insertion when n calls take
\* the place of the innermost.
LEMMA InsertsKept ==
  ASSUME InsertInv, Shape(todo), Shape(todo'), NEW n, Kept(n),
         \A m \in 2..Len(todo) : todo[m].op = "Insert" =>
           /\ todo[m].s \notin Attempts'
           /\ todo[m].s \in m_lstOpenSockets' => todo[m].s \in m_lstOpenSockets,
         todo[1].op = "Destroy" => todo[1].s \notin m_lstOpenSockets',
         \A i \in 1..n : todo'[i].op = "Insert" =>
           /\ todo'[i].s \notin Attempts'
           /\ \A m \in 2..Len(todo) : todo[m].s # todo'[i].s
           /\ i = n
           /\ \/ i = 1 /\ connecting'
              \/ i > 1 /\ todo'[i - 1].op = "Destroy" /\ todo'[i - 1].s = todo'[i].s
  PROVE  InsertInv'
  <1>1. DOMAIN todo = 1..Len(todo) /\ DOMAIN todo' = 1..Len(todo') /\ n \in Nat
        /\ Len(todo) \in Nat /\ Len(todo') \in Nat
    BY ShapeSeq DEF Kept
  <1>2. \A i \in (n + 1)..Len(todo') : i - n + 1 \in 2..Len(todo) /\ todo'[i] = todo[i - n + 1]
    BY DEF Kept
  <1> SUFFICES ASSUME NEW i \in 1..Len(todo'), todo'[i].op = "Insert"
               PROVE  /\ todo'[i].s \notin Attempts'
                      /\ \A j \in 1..Len(todo') : j > i => todo'[j].s # todo'[i].s
                      /\ \/ todo'[i].s \notin m_lstOpenSockets'
                         \/ i = 1 /\ connecting'
                         \/ i > 1 /\ todo'[i - 1].op = "Destroy" /\ todo'[i - 1].s = todo'[i].s
    BY <1>1 DEF InsertInv
  <1>3. CASE i \in 1..n
    <2>1. \A j \in 1..Len(todo') : j > i => j \in (n + 1)..Len(todo') BY <1>1, <1>3
    <2>2. i = n /\ \A m \in 2..Len(todo) : todo[m].s # todo'[i].s BY <1>3
    <2>3. \A j \in 1..Len(todo') : j > i => todo'[j].s # todo'[i].s
      <3> SUFFICES ASSUME NEW j \in 1..Len(todo'), j > i PROVE todo'[j].s # todo'[i].s OBVIOUS
      <3>1. PICK m : m = j - n + 1 OBVIOUS
      <3>2. m \in 2..Len(todo) /\ todo'[j] = todo[m] BY <1>2, <2>1, <3>1
      <3> QED BY <2>2, <3>2
    <2> QED BY <1>3, <2>3
  <1>4. CASE i \in (n + 1)..Len(todo')
    <2>1. PICK m : m = i - n + 1 OBVIOUS
    <2>2. m \in 2..Len(todo) /\ todo'[i] = todo[m] /\ m \in DOMAIN todo BY <1>1, <1>2, <1>4, <2>1
    <2>3. todo'[i].s \notin Attempts' BY <2>2
    <2>4. \A j \in DOMAIN todo : j > m => todo[j].s # todo[m].s BY <2>2 DEF InsertInv
    <2>5. \A j \in 1..Len(todo') : j > i => todo'[j].s # todo'[i].s
      <3> SUFFICES ASSUME NEW j \in 1..Len(todo'), j > i PROVE todo'[j].s # todo'[i].s OBVIOUS
      <3>1. j \in (n + 1)..Len(todo') /\ j - n + 1 > m BY <1>1, <1>4, <2>1
      <3>2. j - n + 1 \in DOMAIN todo /\ todo'[j] = todo[j - n + 1] BY <1>1, <1>2, <3>1
      <3> QED BY <2>2, <2>4, <3>1, <3>2
    <2>6. \/ todo[m].s \notin m_lstOpenSockets
          \/ m = 1
          \/ todo[m - 1].op = "Destroy" /\ todo[m - 1].s = todo[m].s
      BY <2>2 DEF InsertInv
    <2>7. CASE todo[m].s \notin m_lstOpenSockets
      <3>1. todo'[i].s \notin m_lstOpenSockets' BY <2>2, <2>7
      <3> QED BY <2>3, <2>5, <3>1
    <2>8. CASE m = 2 /\ todo[m - 1].op = "Destroy" /\ todo[m - 1].s = todo[m].s
      <3>1. m - 1 = 1 BY <2>8
      <3>2. todo[1].op = "Destroy" /\ todo[1].s = todo[m].s BY <2>8, <3>1
      <3>3. todo[m].s \notin m_lstOpenSockets' BY <3>2
      <3> QED BY <2>2, <2>3, <2>5, <3>3
    <2>9. CASE m # 2 /\ todo[m - 1].op = "Destroy" /\ todo[m - 1].s = todo[m].s
      <3>0. i \in Nat /\ i >= n + 1 /\ i <= Len(todo') /\ m \in Nat /\ m > 2
        BY <1>1, <1>4, <2>2, <2>9
      <3>1. i - 1 \in (n + 1)..Len(todo') /\ (i - 1) - n + 1 = m - 1 /\ i > 1
        BY <1>1, <2>1, <3>0
      <3>2. todo'[i - 1] = todo[m - 1] BY <1>2, <3>1
      <3> QED BY <2>2, <2>3, <2>5, <2>9, <3>1, <3>2
    <2> QED BY <2>2, <2>3, <2>5, <2>6, <2>7, <2>8, <2>9
  <1> QED BY <1>1, <1>3, <1>4

\* What becomes of those that are to be destroyed.
LEMMA DestroysKept ==
  ASSUME Shape(todo), Shape(todo'), NEW n, Kept(n),
         \A m \in 2..Len(todo) :
           todo[m].op = "Destroy" /\ todo[m].s \in m_lstOpenSockets' \cap Attempts' =>
             sock'[todo[m].s].state = "DISCONNECTED" \/ At("ConnectToPlain")',
         \A i \in 1..n : todo'[i].op = "Destroy" =>
           todo'[i].s \notin Attempts' \/ (At("Failed")' /\ Me' = todo'[i].s)
  PROVE  DestroyInv'
  <1>1. DOMAIN todo' = 1..Len(todo') /\ n \in Nat /\ Len(todo') \in Nat
    BY ShapeSeq DEF Kept
  <1>2. \A i \in (n + 1)..Len(todo') : i - n + 1 \in 2..Len(todo) /\ todo'[i] = todo[i - n + 1]
    BY DEF Kept
  <1>3. \A i \in 1..Len(todo') : i \in 1..n \/ i \in (n + 1)..Len(todo') BY <1>1
  <1> SUFFICES ASSUME NEW i \in 1..Len(todo'), todo'[i].op = "Destroy",
                      todo'[i].s \in m_lstOpenSockets' \cap Attempts'
               PROVE  \/ sock'[todo'[i].s].state = "DISCONNECTED"
                      \/ At("Failed")' /\ Me' = todo'[i].s
                      \/ At("ConnectToPlain")'
    BY <1>1 DEF DestroyInv
  <1>4. CASE i \in 1..n BY <1>4
  <1>5. CASE i \in (n + 1)..Len(todo')
    <2>1. PICK m : m = i - n + 1 OBVIOUS
    <2>2. m \in 2..Len(todo) /\ todo'[i] = todo[m] BY <1>2, <1>5, <2>1
    <2> QED BY <2>2
  <1> QED BY <1>3, <1>4, <1>5

\* A state where no socket waits for either.
LEMMA NoneWaits ==
  ASSUME Shape(todo'), \A i \in 1..Len(todo') : todo'[i].op \notin {"Insert", "Destroy"}
  PROVE  InsertInv' /\ DestroyInv'
  BY ShapeSeq DEF InsertInv, DestroyInv

\* The four invariants of the attempts.
AttemptInv == OneAttempt /\ IdleInv /\ InsertInv /\ DestroyInv

\* The calls put on the stack are about no socket; attempts and open sockets can
\* only go, and DISCONNECTED stays.
LEMMA AttemptsGo ==
  ASSUME CoreInv, CoreInv', AttemptInv, NEW n, Kept(n), ~At("Destroy"), OneAttempt', IdleInv',
         Attempts' \subseteq Attempts, m_lstOpenSockets' \subseteq m_lstOpenSockets,
         \A i \in 1..n : todo'[i].op \notin {"Insert", "Destroy"},
         \A s \in m_lstOpenSockets' \cap Attempts' :
            \/ ~At("Failed") /\ ~At("ConnectToPlain") /\ sock'[s].state = sock[s].state
            \/ Me # s /\ ~At("ConnectToPlain") /\ sock'[s].state = sock[s].state
            \/ sock'[s].state = "DISCONNECTED"
            \/ At("ConnectToPlain")'
  PROVE  AttemptInv'
  <1>1. Shape(todo) /\ Shape(todo') BY ShapeIs, Parts DEF CoreInv, TypeOK
  <1>2. DOMAIN todo = 1..Len(todo) /\ Len(todo) \in Nat /\ Len(todo) > 0 BY <1>1, ShapeSeq DEF Kept
  <1>3. todo # <<>> BY <1>2
  <1>4. Head(todo) = todo[1] BY <1>1, <1>3, HeadIs
  <1>5. todo[1].op # "Destroy" BY <1>3, <1>4 DEF At
  <1>6. \A m \in 2..Len(todo) : m \in DOMAIN todo BY <1>2
  <1>7. \A m \in 2..Len(todo) : todo[m].op = "Insert" => todo[m].s \notin Attempts'
    BY <1>6 DEF AttemptInv, InsertInv
  <1>8. InsertInv' BY <1>1, <1>5, <1>7, InsertsKept DEF AttemptInv
  <1>9. ASSUME NEW m \in 2..Len(todo), todo[m].op = "Destroy",
               todo[m].s \in m_lstOpenSockets' \cap Attempts'
        PROVE  sock'[todo[m].s].state = "DISCONNECTED" \/ At("ConnectToPlain")'
    <2>1. \/ sock[todo[m].s].state = "DISCONNECTED"
          \/ At("Failed") /\ Me = todo[m].s
          \/ At("ConnectToPlain")
      BY <1>6, <1>9 DEF AttemptInv, DestroyInv
    <2> QED BY <1>9, <2>1
  <1>10. DestroyInv' BY <1>1, <1>9, DestroysKept
  <1> QED BY <1>8, <1>10 DEF AttemptInv

\* Without attempts there is little to say.
LEMMA AttemptsGone ==
  ASSUME CoreInv, CoreInv', AttemptInv, NEW n, Kept(n), ~At("Destroy"), connectionattemps' = <<>>,
         m_lstOpenSockets' \subseteq m_lstOpenSockets,
         \A i \in 1..n : todo'[i].op \notin {"Insert", "Destroy"}
  PROVE  AttemptInv'
  <1>1. Attempts' = {} BY DEF Attempts
  <1>2. OneAttempt' BY DEF OneAttempt, IsInjective
  <1>3. IdleInv' BY <1>1 DEF IdleInv
  <1> QED BY <1>1, <1>2, <1>3, AttemptsGo

\* Where the map stays and no try ends.
LEMMA MapStays ==
  ASSUME OneAttempt, IdleInv, connectionattemps' = connectionattemps, connecting => connecting',
         m_lstOpenSockets' \subseteq m_lstOpenSockets
  PROVE  OneAttempt' /\ IdleInv' /\ Attempts' = Attempts
  BY DEF OneAttempt, IdleInv, Attempts

\* A socket becomes an attempt.
LEMMA AttemptInsert ==
  ASSUME CoreInv, CoreInv', AttemptInv, Insert
  PROVE  AttemptInv'
  <1>0. /\ TypeOK /\ Shape(todo) /\ Shape(todo') /\ todo # <<>> /\ At("Insert") /\ Run(<<>>)
        /\ connectionattemps \in Seq(Sockets) /\ Len(connectionattemps) \in Nat
        /\ DOMAIN connectionattemps = 1..Len(connectionattemps)
    BY Parts, ShapeIs, LenProperties DEF Insert, At, TypeOK, CoreInv
  <1>1. Me \in Sockets /\ Me = todo[1].s /\ todo[1].op = "Insert" /\ 1 \in DOMAIN todo
    BY <1>0, MeIs, ShapeSeq
  <1>2. /\ Me \notin Attempts /\ \A m \in DOMAIN todo : m > 1 => todo[m].s # Me
        /\ Me \notin m_lstOpenSockets \/ connecting
    BY <1>1 DEF AttemptInv, InsertInv
  <1>3. OneAttempt' /\ Attempts' \subseteq Attempts \cup {Me}
    <2>0. IsInjective(connectionattemps) BY DEF AttemptInv, OneAttempt
    <2>1. CASE connectionattemps' = Append(connectionattemps, Me)
      BY <1>0, <1>1, <1>2, <2>0, <2>1, AttemptsAre, ToSetAppend DEF OneAttempt
    <2>2. CASE connectionattemps' = [connectionattemps EXCEPT ![lastKey] = Me]
      <3>1. \A i \in DOMAIN connectionattemps : connectionattemps[i] # Me BY <1>2 DEF Attempts
      <3>2. /\ DOMAIN connectionattemps' = DOMAIN connectionattemps
            /\ \A i \in DOMAIN connectionattemps :
                 connectionattemps'[i] = IF i = lastKey THEN Me ELSE connectionattemps[i]
        BY <2>2
      <3>3. \A i, j \in DOMAIN connectionattemps : connectionattemps[i] = connectionattemps[j] => i = j
        BY <2>0 DEF IsInjective
      <3>4. \A i, j \in DOMAIN connectionattemps' : connectionattemps'[i] = connectionattemps'[j] => i = j
        BY <3>1, <3>2, <3>3
      <3> QED BY <3>2, <3>4 DEF OneAttempt, IsInjective, Attempts
    <2> QED BY <2>1, <2>2 DEF Insert
  <1>4. UNCHANGED <<connecting, m_lstOpenSockets, sock>> BY DEF Insert, connVars, sockVars
  <1>5. IdleInv' BY <1>2, <1>3, <1>4 DEF AttemptInv, IdleInv
  <1>6. Kept(0) BY <1>0, KeptPop
  <1>7. \A m \in 2..Len(todo) : m \in DOMAIN todo /\ m > 1 BY <1>0, ShapeSeq
  <1>8. \A m \in 2..Len(todo) : todo[m].s # Me BY <1>2, <1>7
  <1>9. InsertInv'
    <2>1. \A m \in 2..Len(todo) : todo[m].op = "Insert" => todo[m].s \notin Attempts'
      BY <1>3, <1>7, <1>8 DEF AttemptInv, InsertInv
    <2> QED BY <1>0, <1>1, <1>4, <1>6, <2>1, InsertsKept DEF AttemptInv
  <1>10. DestroyInv'
    <2>1. ASSUME NEW m \in 2..Len(todo), todo[m].op = "Destroy",
                 todo[m].s \in m_lstOpenSockets' \cap Attempts'
          PROVE  sock'[todo[m].s].state = "DISCONNECTED"
      <3>1. todo[m].s \in m_lstOpenSockets \cap Attempts BY <1>3, <1>4, <1>8, <2>1
      <3> QED BY <1>0, <1>4, <1>7, <2>1, <3>1 DEF AttemptInv, DestroyInv, At
    <2> QED BY <1>0, <1>6, <2>1, DestroysKept
  <1> QED BY <1>3, <1>5, <1>9, <1>10 DEF AttemptInv

\* A socket goes.
LEMMA AttemptDestroy ==
  ASSUME CoreInv, CoreInv', AttemptInv, DestroySocket
  PROVE  AttemptInv'
  <1>0. /\ TypeOK /\ Shape(todo) /\ Shape(todo') /\ todo # <<>> /\ At("Destroy") /\ Run(<<>>)
        /\ sock \in [Sockets -> Objects] /\ m_lstOpenSockets \subseteq Sockets
    BY Parts, ShapeIs DEF DestroySocket, At, TypeOK, CoreInv
  <1>1. Me \in Sockets /\ Me = todo[1].s BY <1>0, MeIs
  <1>2. /\ UNCHANGED <<connecting, connectionattemps>>
        /\ m_lstOpenSockets' = m_lstOpenSockets \ {Me}
        /\ \A s \in m_lstOpenSockets' : sock'[s] = sock[s]
    BY <1>0 DEF DestroySocket, DestroySockets, connVars, mapVars
  <1>3. OneAttempt' /\ IdleInv' /\ Attempts' = Attempts BY <1>2, MapStays DEF AttemptInv
  <1>4. Kept(0) BY <1>0, KeptPop
  <1>5. \A m \in 2..Len(todo) : m \in DOMAIN todo BY <1>0, ShapeSeq
  <1>6. InsertInv'
    <2>1. \A m \in 2..Len(todo) : todo[m].op = "Insert" => todo[m].s \notin Attempts'
      BY <1>3, <1>5 DEF AttemptInv, InsertInv
    <2> QED BY <1>0, <1>1, <1>2, <1>4, <2>1, InsertsKept DEF AttemptInv
  <1>7. DestroyInv'
    <2>1. ASSUME NEW m \in 2..Len(todo), todo[m].op = "Destroy",
                 todo[m].s \in m_lstOpenSockets' \cap Attempts'
          PROVE  sock'[todo[m].s].state = "DISCONNECTED"
      <3>1. todo[m].s \in m_lstOpenSockets \cap Attempts BY <1>2, <1>3, <2>1
      <3> QED BY <1>0, <1>2, <1>5, <2>1, <3>1 DEF AttemptInv, DestroyInv, At
    <2> QED BY <1>0, <1>4, <2>1, DestroysKept
  <1> QED BY <1>3, <1>6, <1>7 DEF AttemptInv

\* A socket comes: it is not yet an attempt, and no call is about it.
LEMMA AttemptOpened ==
  ASSUME CoreInv, CoreInv', AttemptInv, ~AddressReuse, todo # <<>>, NEW s, NEW v, NEW b, NEW gone,
         Opened(s, v, b, gone), connecting', ~At("Destroy"),
         \/ connectionattemps' = <<>>
         \/ connectionattemps' = connectionattemps /\ gone = {} /\ ~At("Failed") /\ ~At("ConnectToPlain")
  PROVE  AttemptInv'
  <1>0. /\ TypeOK /\ Shape(todo) /\ Shape(todo') /\ sock \in [Sockets -> Objects]
        /\ m_lstOpenSockets \subseteq Sockets
    BY Parts, ShapeIs DEF TypeOK, CoreInv
  <1>1. /\ s \in Sockets /\ s \notin Attempts /\ \A i \in DOMAIN todo : todo[i].s # s
        /\ m_lstOpenSockets' = (m_lstOpenSockets \ gone) \cup {s}
    BY DEF Opened, Free
  <1>2. Attempts' \subseteq Attempts /\ OneAttempt'
    BY DEF Attempts, AttemptInv, OneAttempt, IsInjective
  <1>3. IdleInv' BY DEF IdleInv
  <1>4. /\ On("Failed", s).op = "Failed" /\ On("Failed", s).s = s
        /\ On("Destroy", s).op = "Destroy" /\ On("Destroy", s).s = s
        /\ On("Insert", s).op = "Insert" /\ On("Insert", s).s = s
    BY <1>1, CallsAre DEF Ops, Later
  <1>5. \A m \in 2..Len(todo) : m \in DOMAIN todo BY <1>0, ShapeSeq
  <1>6. todo[1].op # "Destroy"
    <2>1. Head(todo) = todo[1] BY <1>0, HeadIs
    <2> QED BY <2>1 DEF At
  <1>7. \A m \in 2..Len(todo) : todo[m].op = "Insert" =>
           /\ todo[m].s \notin Attempts'
           /\ todo[m].s \in m_lstOpenSockets' => todo[m].s \in m_lstOpenSockets
    BY <1>1, <1>2, <1>5 DEF AttemptInv, InsertInv
  <1>8. ASSUME NEW m \in 2..Len(todo), todo[m].op = "Destroy",
               todo[m].s \in m_lstOpenSockets' \cap Attempts'
        PROVE  sock'[todo[m].s].state = "DISCONNECTED"
    <2>1. Attempts' # {} BY <1>8
    <2>2. connectionattemps' # <<>> BY <2>1 DEF Attempts
    <2>3. gone = {} /\ ~At("Failed") /\ ~At("ConnectToPlain") BY <2>2
    <2>4. todo[m].s \in m_lstOpenSockets \cap Attempts /\ todo[m].s # s BY <1>1, <1>2, <1>5, <1>8
    <2>5. sock[todo[m].s].state = "DISCONNECTED" BY <1>5, <1>8, <2>3, <2>4 DEF AttemptInv, DestroyInv
    <2>6. sock'[todo[m].s] = sock[todo[m].s] BY <1>0, <2>3, <2>4 DEF Opened
    <2> QED BY <2>5, <2>6
  <1>9. CASE Kept(1) /\ todo'[1] = On("Insert", s)
    <2>1. \A i \in 1..1 : i = 1 OBVIOUS
    <2>2. InsertInv' BY <1>0, <1>1, <1>2, <1>4, <1>5, <1>6, <1>7, <1>9, <2>1, InsertsKept DEF AttemptInv
    <2>3. DestroyInv' BY <1>0, <1>4, <1>8, <1>9, <2>1, DestroysKept
    <2> QED BY <1>2, <1>3, <2>2, <2>3 DEF AttemptInv
  <1>10. CASE /\ Kept(3) /\ todo'[1] = On("Failed", s) /\ todo'[2] = On("Destroy", s)
              /\ todo'[3] = On("Insert", s)
    <2>1. \A i \in 1..3 : i = 1 \/ i = 2 \/ i = 3 OBVIOUS
    <2>2. ASSUME NEW i \in 1..3, todo'[i].op = "Insert"
          PROVE  i = 3 /\ todo'[i].s = s /\ todo'[i - 1].op = "Destroy" /\ todo'[i - 1].s = s
      <3>1. i = 3 BY <1>4, <1>10, <2>1, <2>2
      <3>2. i - 1 = 2 BY <3>1
      <3> QED BY <1>4, <1>10, <3>1, <3>2
    <2>3. InsertInv' BY <1>0, <1>1, <1>2, <1>5, <1>6, <1>7, <1>10, <2>2, InsertsKept DEF AttemptInv
    <2>4. \A i \in 1..3 : todo'[i].op = "Destroy" => todo'[i].s \notin Attempts'
      BY <1>1, <1>2, <1>4, <1>10, <2>1
    <2>5. DestroyInv' BY <1>0, <1>8, <1>10, <2>4, DestroysKept
    <2> QED BY <1>2, <1>3, <2>3, <2>5 DEF AttemptInv
  <1> QED BY <1>0, <1>9, <1>10, KeptOpened

\* A failed attempt leaves the map.
LEMMA AttemptFailed ==
  ASSUME CoreInv, CoreInv', AttemptInv, FailedMulti
  PROVE  AttemptInv'
  <1>0. /\ TypeOK /\ Shape(todo) /\ todo # <<>> /\ At("Failed")
        /\ connectionattemps \in Seq(Sockets) /\ DOMAIN connectionattemps = 1..Len(connectionattemps)
    BY Parts, LenProperties DEF FailedMulti, Handled, At, TypeOK
  <1>1. /\ Run(<<Call("TryAnother")>>) /\ EraseAttempt /\ sock' = MarkedSender
        /\ UNCHANGED <<connecting, m_lstOpenSockets>> /\ connecting
    BY DEF FailedMulti, connVars
  <1>2. IsInjective(connectionattemps) BY DEF AttemptInv, OneAttempt
  <1>3. OneAttempt' /\ Attempts' \subseteq Attempts /\ Me \notin Attempts'
    <2>1. CASE Me \notin Attempts /\ UNCHANGED mapVars
      BY <1>2, <2>1 DEF mapVars, OneAttempt, Attempts
    <2>2. ASSUME NEW i \in DOMAIN connectionattemps, connectionattemps[i] = Me, Erase(i, it)
          PROVE  OneAttempt' /\ Attempts' \subseteq Attempts /\ Me \notin Attempts'
      <3>1. connectionattemps' = RemoveAt(connectionattemps, i) BY <2>2 DEF Erase
      <3> QED BY <1>0, <1>2, <2>2, <3>1, AttemptsAre, ToSetRemoveAt DEF OneAttempt
    <2> QED BY <1>1, <2>1, <2>2 DEF EraseAttempt
  <1>4. IdleInv' BY <1>1 DEF IdleInv
  <1>5. GoodCall(Call("TryAnother")) /\ Call("TryAnother").op = "TryAnother" BY CallsAre DEF Ops, Later
  <1>6. Kept(1) /\ todo'[1] = Call("TryAnother") BY <1>0, <1>1, <1>5, KeptOne
  <1>7. \A i \in 1..1 : todo'[i].op \notin {"Insert", "Destroy"}
    <2>1. \A i \in 1..1 : i = 1 OBVIOUS
    <2> QED BY <1>5, <1>6, <2>1
  <1>8. \A s \in m_lstOpenSockets' \cap Attempts' : Me # s /\ sock'[s].state = sock[s].state
    <2>1. \A s \in Sockets : Me # s => MarkedSender[s] = sock[s] BY <1>0 DEF MarkedSender, TypeOK
    <2>2. m_lstOpenSockets' \subseteq Sockets BY <1>0, <1>1 DEF TypeOK
    <2> HIDE DEF MarkedSender
    <2> QED BY <1>1, <1>3, <2>1, <2>2
  <1>9. ~At("Destroy") /\ ~At("ConnectToPlain") BY <1>0 DEF At
  <1> QED BY <1>1, <1>3, <1>4, <1>6, <1>7, <1>8, <1>9, AttemptsGo

\* The connection is lost, or the failure is ignored.
LEMMA AttemptLost ==
  ASSUME CoreInv, CoreInv', AttemptInv, FailedDisconnected \/ FailedIgnored
  PROVE  AttemptInv'
  <1>0. /\ TypeOK /\ Shape(todo) /\ todo # <<>> /\ At("Failed") /\ sock \in [Sockets -> Objects]
        /\ m_lstOpenSockets \subseteq Sockets /\ Me \in Sockets
    BY Parts, MeIs DEF FailedDisconnected, FailedIgnored, Handled, At, TypeOK
  <1>1. UNCHANGED <<connecting, connectionattemps, m_lstOpenSockets>>
    BY DEF FailedDisconnected, FailedIgnored, mapVars, connVars
  <1>2. OneAttempt' /\ IdleInv' /\ Attempts' = Attempts BY <1>1, MapStays DEF AttemptInv
  <1>3. ~At("Destroy") /\ ~At("ConnectToPlain") BY <1>0 DEF At
  <1>4. \E n : Kept(n) /\ \A i \in 1..n : todo'[i].op \notin {"Insert", "Destroy"}
    <2>1. CASE Run(<<>>)
      <3>1. Kept(0) BY <1>0, <2>1, KeptPop
      <3>2. \A i \in 1..0 : FALSE OBVIOUS
      <3> QED BY <3>1, <3>2
    <2>2. CASE Run(<<Call("ConnectToAny")>>)
      <3>1. GoodCall(Call("ConnectToAny")) /\ Call("ConnectToAny").op = "ConnectToAny"
        BY CallsAre DEF Ops, Later
      <3>2. Kept(1) /\ todo'[1] = Call("ConnectToAny") BY <1>0, <2>2, <3>1, KeptOne
      <3>3. \A i \in 1..1 : i = 1 OBVIOUS
      <3> QED BY <3>1, <3>2, <3>3
    <2> QED BY <2>1, <2>2 DEF FailedDisconnected, FailedIgnored
  <1>5. ASSUME NEW s \in m_lstOpenSockets' \cap Attempts'
        PROVE  \/ Me # s /\ sock'[s].state = sock[s].state
               \/ sock'[s].state = "DISCONNECTED"
    <2>0. s \in m_lstOpenSockets \cap Attempts /\ s \in Sockets BY <1>0, <1>1, <1>2
    <2>1. CASE FailedIgnored
      <3>1. FALSE BY <2>0, <2>1 DEF FailedIgnored, AttemptInv, IdleInv
      <3> QED BY <3>1
    <2>2. CASE FailedDisconnected
      <3>1. \A x \in Sockets : MarkedSender[x] \in Objects /\ MarkedSender[x].state = sock[x].state
        BY <1>0, MarkedIs
      <3>2. \A k \in Objects : [k EXCEPT !.tcp = "closed"].state = k.state BY DEF Objects
      <3>3. sock'[s].state = sock[s].state
        <4> HIDE DEF MarkedSender
        <4> QED BY <2>0, <2>2, <3>1, <3>2 DEF FailedDisconnected
      <3>4. sock[Me].state = "DISCONNECTED" BY <2>2 DEF FailedDisconnected
      <3> QED BY <3>3, <3>4
    <2> QED BY <2>1, <2>2
  <1> QED BY <1>1, <1>2, <1>3, <1>4, <1>5, AttemptsGo

\* A try ends, by a failure or because it came to nothing.
LEMMA AttemptEnd ==
  ASSUME CoreInv, CoreInv', AttemptInv, FailedFatal \/ FailedSingle \/ TryGiveUp \/ ConnectToAnyServer
  PROVE  AttemptInv'
  <1>0. TypeOK /\ Shape(todo) /\ todo # <<>> /\ ~At("Destroy")
    BY Parts DEF FailedFatal, FailedSingle, Handled, TryGiveUp, NothingUnderWay, Exhausted, MayTry,
                 ConnectToAnyServer, At
  <1>a. ASSUME NEW gone, NEW sk, DestroySockets(gone, sk) PROVE m_lstOpenSockets' \subseteq m_lstOpenSockets
    BY <1>a DEF DestroySockets
  <1>1. CASE Run(<<>>) /\ StopConnectionTry /\ m_lstOpenSockets' \subseteq m_lstOpenSockets
    <2>1. Kept(0) BY <1>0, <1>1, KeptPop
    <2>2. \A i \in 1..0 : FALSE OBVIOUS
    <2> QED BY <1>0, <1>1, <2>1, <2>2, AttemptsGone DEF StopConnectionTry
  <1>2. CASE ConnectToAnyServer /\ Run(<<Call("TryAnother")>>)
    <2>1. GoodCall(Call("TryAnother")) /\ Call("TryAnother").op = "TryAnother" BY CallsAre DEF Ops, Later
    <2>2. Kept(1) /\ todo'[1] = Call("TryAnother") BY <1>0, <1>2, <2>1, KeptOne
    <2>3. \A i \in 1..1 : i = 1 OBVIOUS
    <2>4. connectionattemps' = <<>> BY <1>2 DEF ConnectToAnyServer, StartOver, StopConnectionTry
    <2>5. m_lstOpenSockets' \subseteq m_lstOpenSockets BY <1>2, <1>a DEF ConnectToAnyServer
    <2> QED BY <1>0, <2>1, <2>2, <2>3, <2>4, <2>5, AttemptsGone
  <1>3. CASE /\ FailedSingle /\ Run(<<To("ConnectToPlain", sock[Me].server)>>)
             /\ UNCHANGED <<connecting, mapVars, m_lstOpenSockets>>
    <2>1. At("Failed") BY <1>3 DEF FailedSingle, Handled
    <2>2. sock[Me].server \in ServerSet
      <3>1. Me \in Sockets BY <1>0, <2>1, MeIs
      <3>2. sock[Me] \in Objects BY <1>0, <3>1 DEF TypeOK
      <3> QED BY <3>2 DEF Objects
    <2>3. PICK c : c = To("ConnectToPlain", sock[Me].server) OBVIOUS
    <2>4. GoodCall(c) /\ c.op = "ConnectToPlain" BY <2>2, <2>3, CallsAre DEF Ops, Later
    <2>5. Kept(1) /\ todo'[1] = c /\ todo' # <<>> /\ Head(todo') = c BY <1>0, <1>3, <2>3, <2>4, KeptOne
    <2>6. At("ConnectToPlain")' BY <2>4, <2>5 DEF At
    <2>7. \A i \in 1..1 : i = 1 OBVIOUS
    <2>8. OneAttempt' /\ IdleInv' /\ Attempts' = Attempts BY <1>3, MapStays DEF AttemptInv, mapVars
    <2> QED BY <1>0, <1>3, <2>4, <2>5, <2>6, <2>7, <2>8, AttemptsGo
  <1>4. CASE FailedFatal BY <1>1, <1>4, <1>a DEF FailedFatal, StopAnd
  <1>5. CASE FailedSingle BY <1>1, <1>3, <1>5, <1>a DEF FailedSingle, StopAnd
  <1>6. CASE TryGiveUp BY <1>1, <1>6, <1>a DEF TryGiveUp, StopAnd
  <1>7. CASE ConnectToAnyServer
    BY <1>1, <1>2, <1>7, <1>a DEF ConnectToAnyServer, StartOver
  <1> QED BY <1>4, <1>5, <1>6, <1>7

\* An event of a socket: it is destroyed at once only when no try is under way.
LEMMA AttemptEvent ==
  ASSUME CoreInv, CoreInv', AttemptInv, NEW s \in Sockets, NEW calls \in EventCalls(s), todo' = calls,
         UNCHANGED <<connecting, connectionattemps, m_lstOpenSockets>>,
         calls = <<On("Destroy", s)>> => ~connecting
  PROVE  AttemptInv'
  <1>1. Shape(todo') /\ \A i \in 1..Len(todo') : todo'[i].op \in {"Failed", "Destroy"} /\ todo'[i].s = s
    BY EventCallsAre
  <1>2. OneAttempt' /\ IdleInv' BY MapStays DEF AttemptInv
  <1>3. DOMAIN todo' = 1..Len(todo') BY <1>1, ShapeSeq
  <1>4. InsertInv' BY <1>1, <1>3 DEF InsertInv
  <1>5. On("Failed", s).op = "Failed" /\ On("Failed", s).s = s BY CallsAre DEF Ops, Later
  <1>6. DestroyInv'
    <2>1. CASE calls = <<>> BY <2>1 DEF DestroyInv
    <2>2. CASE calls = <<On("Destroy", s)>>
      <3>1. ~connecting' BY <2>2
      <3> QED BY <1>2, <3>1 DEF DestroyInv, IdleInv
    <2>3. CASE calls = <<On("Failed", s)>> \/ calls = <<On("Failed", s), On("Destroy", s)>>
      <3>1. todo' # <<>> /\ Head(todo') = On("Failed", s) BY <2>3
      <3>2. At("Failed")' /\ Me' = s BY <1>5, <3>1 DEF At, Me
      <3> QED BY <1>1, <1>3, <3>2 DEF DestroyInv
    <2> QED BY <2>1, <2>2, <2>3 DEF EventCalls
  <1> QED BY <1>2, <1>4, <1>6 DEF AttemptInv

\* The network.
LEMMA AttemptNetwork ==
  ASSUME CoreInv, CoreInv', AttemptInv, NEW s \in Sockets, Network(s)
  PROVE  AttemptInv'
  <1>1. {<<>>, <<On("Destroy", s)>>, <<On("Failed", s)>>, <<On("Failed", s), On("Destroy", s)>>}
          \subseteq EventCalls(s)
    BY DEF EventCalls
  <1>2. ASSUME NEW phase, NEW k, NEW calls \in EventCalls(s), SocketEvent(s, phase, k, calls),
               calls = <<On("Destroy", s)>> => ~connecting
        PROVE  AttemptInv'
    BY <1>2, AttemptEvent DEF SocketEvent, connVars, mapVars
  <1>3. <<>> # <<On("Destroy", s)>> OBVIOUS
  <1>4. /\ <<On("Failed", s)>> # <<On("Destroy", s)>>
        /\ <<On("Failed", s), On("Destroy", s)>> # <<On("Destroy", s)>>
    <2>1. On("Failed", s) # On("Destroy", s)
      <3>1. On("Failed", s).op = "Failed" /\ On("Destroy", s).op = "Destroy" BY CallsAre DEF Ops, Later
      <3> QED BY <3>1
    <2> QED BY <2>1
  <1>5. CASE OnConnect(s)
    <2>1. PICK k, calls : /\ SocketEvent(s, "asked", k, calls)
                          /\ calls \in {<<>>, <<On("Destroy", s)>>}
                          /\ calls # <<>> => ~connecting
      BY <1>5, Zenon DEF OnConnect
    <2> QED BY <1>1, <1>2, <1>3, <2>1
  <1>6. CASE OnClose(s) BY <1>1, <1>2, <1>4, <1>6 DEF OnClose
  <1>7. CASE ReceiveLate(s) BY <1>1, <1>2, <1>7 DEF ReceiveLate
  <1>8. CASE ReceiveRefusal(s) BY <1>1, <1>2, <1>4, <1>8 DEF ReceiveRefusal
  <1>9. ASSUME NEW st, OnConnectError(s, st) PROVE AttemptInv' BY <1>1, <1>2, <1>4, <1>9 DEF OnConnectError
  <1>10. ASSUME NEW bad, ReceiveBad(s, bad) PROVE AttemptInv' BY <1>1, <1>2, <1>4, <1>10 DEF ReceiveBad
  <1>11. CASE ReceiveID(s)
    <2>1. connectionattemps' = <<>> /\ todo' = <<>> BY <1>11 DEF ReceiveID, StopAnd, StopConnectionTry, AtRest
    <2> QED BY <2>1 DEF AttemptInv, OneAttempt, IsInjective, IdleInv, Attempts, InsertInv, DestroyInv
  <1> QED BY <1>5, <1>6, <1>7, <1>8, <1>9, <1>10, <1>11 DEF Network

\* A pass of the loop of CheckForTimeout.
LEMMA AttemptLoop ==
  ASSUME CoreInv, CoreInv', AttemptInv, CheckForTimeout
  PROVE  AttemptInv'
  <1>0. /\ TypeOK /\ Shape(todo) /\ Shape(todo') /\ todo # <<>> /\ At("Scan")
        /\ it \in DOMAIN connectionattemps /\ connectionattemps \in Seq(Sockets)
        /\ DOMAIN connectionattemps = 1..Len(connectionattemps)
    BY Parts, ShapeIs, LenProperties DEF CheckForTimeout, At, TypeOK, CoreInv
  <1>1. PICK s \in Sockets : s = connectionattemps[it] BY <1>0, ElementOfSeq
  <1>2. \/ /\ it' = it + 1 /\ UNCHANGED <<connectionattemps, expired, aged, lastKey, todo>>
        \/ Erase(it, it + 1) /\ todo' = <<Call("TryAnother"), On("Destroy", s)>> \o todo
    BY <1>1, Zenon DEF CheckForTimeout
  <1>3. UNCHANGED <<connecting, m_lstOpenSockets>> BY DEF CheckForTimeout, connVars, sockVars
  <1>4. CASE UNCHANGED <<connectionattemps, todo>>
    <2>1. OneAttempt' /\ IdleInv' BY <1>3, <1>4, MapStays DEF AttemptInv
    <2>2. Len(todo') = 1 /\ todo'[1].op = "Scan" BY <1>0, <1>4, CheckIsLast
    <2>3. \A i \in 1..Len(todo') : i = 1 BY <2>2
    <2> QED BY <1>0, <2>1, <2>2, <2>3, NoneWaits DEF AttemptInv
  <1>5. CASE Erase(it, it + 1) /\ todo' = <<Call("TryAnother"), On("Destroy", s)>> \o todo
    <2>1. connectionattemps' = RemoveAt(connectionattemps, it) BY <1>5 DEF Erase
    <2>2. OneAttempt' /\ Attempts' \subseteq Attempts /\ s \notin Attempts'
      BY <1>0, <1>1, <2>1, AttemptsAre, ToSetRemoveAt DEF AttemptInv, OneAttempt
    <2>3. IdleInv' BY <1>3, <2>2 DEF AttemptInv, IdleInv
    <2>4. /\ GoodCall(Call("TryAnother")) /\ Call("TryAnother").op = "TryAnother"
          /\ GoodCall(On("Destroy", s)) /\ On("Destroy", s).op = "Destroy" /\ On("Destroy", s).s = s
      BY CallsAre DEF Ops, Later
    <2>5. "Destroy" \in Later \ {"Check", "Scan"} BY DEF Later
    <2>6. /\ Shape(todo') /\ Len(todo') = 3
          /\ todo'[1] = Call("TryAnother") /\ todo'[2] = On("Destroy", s)
          /\ todo'[3] = todo[1] /\ todo[1].op = "Scan"
      BY <1>0, <1>5, <2>4, <2>5, LoopIs
    <2>7. DOMAIN todo' = 1..Len(todo') /\ \A i \in 1..Len(todo') : i = 1 \/ i = 2 \/ i = 3
      BY <2>6, ShapeSeq
    <2>8. InsertInv' /\ DestroyInv' BY <2>2, <2>4, <2>6, <2>7 DEF InsertInv, DestroyInv
    <2> QED BY <2>2, <2>3, <2>8 DEF AttemptInv
  <1> QED BY <1>2, <1>4, <1>5

\* The four invariants are inductive.
LEMMA AttemptStep ==
  ASSUME CoreInv, CoreInv', [Next]_vars, ~AddressReuse, AttemptInv
  PROVE  AttemptInv'
  <1>0. TypeOK /\ Shape(todo) /\ Shape(todo') /\ sock \in [Sockets -> Objects]
    BY Parts, ShapeIs DEF TypeOK, CoreInv
  <1>1. CASE UNCHANGED vars
    BY <1>1 DEF vars, mapVars, sockVars, connVars, AttemptInv, OneAttempt, IdleInv, InsertInv, DestroyInv,
                Attempts, At, Me
  <1>2. CASE Insert BY <1>2, AttemptInsert
  <1>3. CASE DestroySocket BY <1>3, AttemptDestroy
  <1>4. CASE TryRefused \/ TryWait \/ Unrecurse \/ CheckEnd
    <2>1. /\ todo # <<>> /\ ~At("Destroy") /\ ~At("Failed") /\ ~At("ConnectToPlain") /\ Run(<<>>)
          /\ UNCHANGED <<connectionattemps, connecting, m_lstOpenSockets, sock>>
      BY <1>4 DEF TryRefused, TryWait, Exhausted, MayTry, Unrecurse, CheckEnd, At, mapVars, connVars, sockVars
    <2>2. Kept(0) BY <1>0, <2>1, KeptPop
    <2>3. \A i \in 1..0 : FALSE OBVIOUS
    <2>4. OneAttempt' /\ IdleInv' /\ Attempts' = Attempts BY <2>1, MapStays DEF AttemptInv
    <2> QED BY <2>1, <2>2, <2>3, <2>4, AttemptsGo
  <1>5. CASE TryNext
    <2>1. PICK v \in ServerSet : v = m_servers[GetNextServer] BY <1>0, <1>5, NextIs DEF TryNext
    <2>2. PICK b \in BOOLEAN : b = ~m_bTryObfuscated OBVIOUS
    <2>3. Open(v, TRUE, b, {}) BY <1>5, <2>1, <2>2 DEF TryNext
    <2>4. PICK s : Opened(s, v, b, {}) BY <2>3, OpenIs
    <2>5. connecting' BY <2>3 DEF Open
    <2>6. /\ todo # <<>> /\ ~At("Destroy") /\ ~At("Failed") /\ ~At("ConnectToPlain")
          /\ connectionattemps' = connectionattemps
      BY <1>5 DEF TryNext, MayTry, At, mapVars
    <2> QED BY <2>4, <2>5, <2>6, AttemptOpened
  <1>6. CASE ConnectToServer
    <2>1. PICK v : v = Head(todo).v OBVIOUS
    <2>2. PICK b \in BOOLEAN : b = At("ConnectToPlain") BY DEF At
    <2>3. Open(v, FALSE, b, GivenUp) BY <1>6, <2>1, <2>2 DEF ConnectToServer
    <2>4. PICK s : Opened(s, v, b, GivenUp) BY <2>3, OpenIs
    <2>5. connecting' BY <2>3 DEF Open
    <2>6. todo # <<>> /\ ~At("Destroy") /\ connectionattemps' = <<>>
      BY <1>6 DEF ConnectToServer, StartOver, StopConnectionTry, At
    <2> QED BY <2>4, <2>5, <2>6, AttemptOpened
  <1>7. CASE TryPlain
    <2>1. /\ todo # <<>> /\ Run(<<Call("ConnectToAnyPlain"), Call("Unrecurse")>>)
          /\ ~At("Destroy") /\ ~At("Failed") /\ ~At("ConnectToPlain")
          /\ UNCHANGED <<connectionattemps, connecting, m_lstOpenSockets, sock>>
      BY <1>7 DEF TryPlain, NothingUnderWay, Exhausted, MayTry, At, mapVars, connVars, sockVars
    <2>2. /\ GoodCall(Call("ConnectToAnyPlain")) /\ Call("ConnectToAnyPlain").op = "ConnectToAnyPlain"
          /\ GoodCall(Call("Unrecurse")) /\ Call("Unrecurse").op = "Unrecurse"
          /\ "Unrecurse" \in Later \ {"Check", "Scan"}
      BY CallsAre DEF Ops, Later
    <2>3. Kept(2) /\ todo'[1] = Call("ConnectToAnyPlain") /\ todo'[2] = Call("Unrecurse")
      BY <1>0, <2>1, <2>2, KeptTwo
    <2>4. \A i \in 1..2 : i = 1 \/ i = 2 OBVIOUS
    <2>5. OneAttempt' /\ IdleInv' /\ Attempts' = Attempts BY <2>1, MapStays DEF AttemptInv
    <2> QED BY <2>1, <2>2, <2>3, <2>4, <2>5, AttemptsGo
  <1>8. CASE FailedFatal \/ FailedSingle \/ TryGiveUp \/ ConnectToAnyServer BY <1>8, AttemptEnd
  <1>9. CASE FailedDisconnected \/ FailedIgnored BY <1>9, AttemptLost
  <1>10. CASE FailedMulti BY <1>10, AttemptFailed
  <1>11. CASE CheckBegin
    <2>1. /\ todo # <<>> /\ At("Check") /\ Run(<<Call("Scan")>>)
          /\ UNCHANGED <<connectionattemps, connecting, m_lstOpenSockets, sock>>
      BY <1>11 DEF CheckBegin, At, connVars, sockVars
    <2>2. GoodCall(Call("Scan")) /\ Call("Scan").op = "Scan" BY CallsAre DEF Ops, Later
    <2>3. Len(todo) = 1 BY <1>0, <2>1, CheckIsLast
    <2>4. Len(todo') = 1 /\ todo'[1] = Call("Scan") BY <1>0, <2>1, <2>2, <2>3, OneIs
    <2>5. \A i \in 1..Len(todo') : i = 1 BY <2>4
    <2>6. OneAttempt' /\ IdleInv' /\ Attempts' = Attempts BY <2>1, MapStays DEF AttemptInv
    <2> QED BY <1>0, <2>2, <2>4, <2>5, <2>6, NoneWaits DEF AttemptInv
  <1>12. CASE CheckForTimeout BY <1>12, AttemptLoop
  <1>13. ASSUME NEW s \in Sockets, Network(s) PROVE AttemptInv' BY <1>13, AttemptNetwork
  <1>14. ASSUME NEW l \in lookups, NEW found, LookupDone(l, found) PROVE AttemptInv'
    <2>1. l.s \in Sockets BY <1>0 DEF TypeOK
    <2>2. UNCHANGED <<connecting, connectionattemps, m_lstOpenSockets>>
      BY <1>14 DEF LookupDone, connVars, mapVars
    <2>3. todo' \in {<<>>, <<On("Failed", l.s), On("Destroy", l.s)>>}
      BY <1>14 DEF LookupDone, ResolvedCalls, AtRest
    <2>4. todo' \in EventCalls(l.s) BY <2>3 DEF EventCalls
    <2>5. todo' # <<On("Destroy", l.s)>> BY <2>3
    <2> QED BY <2>1, <2>2, <2>4, <2>5, AttemptEvent
  <1>15. ASSUME AtRest, UNCHANGED <<connecting, connectionattemps>>, m_lstOpenSockets' \subseteq m_lstOpenSockets,
                \A i \in 1..Len(todo') : todo'[i].op \notin {"Insert", "Destroy"}
         PROVE  AttemptInv'
    <2>1. OneAttempt' /\ IdleInv' BY <1>15, MapStays DEF AttemptInv
    <2> QED BY <1>0, <1>15, <2>1, NoneWaits DEF AttemptInv
  <1>16. ASSUME StopConnectionTry, \A i \in 1..Len(todo') : todo'[i].op \notin {"Insert", "Destroy"}
         PROVE  AttemptInv'
    <2>1. OneAttempt' /\ IdleInv' BY <1>16 DEF StopConnectionTry, OneAttempt, IdleInv, Attempts, IsInjective
    <2> QED BY <1>0, <1>16, <2>1, NoneWaits DEF AttemptInv
  <1>a. /\ Call("TryAnother").op = "TryAnother" /\ Call("Check").op = "Check"
        /\ Call("ConnectToAny").op = "ConnectToAny"
        /\ \A v \in Chosen : To("ConnectTo", v).op = "ConnectTo"
    BY CallsAre, Basics DEF Ops, Later
  <1>17. ASSUME NEW k, CoreTimer(k) PROVE AttemptInv'
    <2>1. CASE todo' = <<Call("Check")>> BY <1>15, <1>17, <1>a, <2>1 DEF CoreTimer, connVars, sockVars
    <2>2. CASE todo' = <<Call("TryAnother"), Call("Check")>>
      <3>1. PICK t : t = todo' OBVIOUS
      <3>2. t = <<Call("TryAnother"), Call("Check")>> BY <2>2, <3>1
      <3>3. Len(t) = 2 /\ t[1] = Call("TryAnother") /\ t[2] = Call("Check") BY <3>2
      <3>4. \A i \in 1..Len(t) : i = 1 \/ i = 2 BY <3>3
      <3>5. \A i \in 1..Len(todo') : todo'[i].op \notin {"Insert", "Destroy"} BY <1>a, <3>1, <3>3, <3>4
      <3> QED BY <1>15, <1>17, <3>5 DEF CoreTimer, connVars, sockVars
    <2>3. todo' = <<Call("Check")>> \/ todo' = <<Call("TryAnother"), Call("Check")>>
      <3>1. todo' = <<>> \o <<Call("Check")>> \/ todo' = <<Call("TryAnother")>> \o <<Call("Check")>>
        BY <1>17, Zenon DEF CoreTimer
      <3>2. <<>> \o <<Call("Check")>> = <<Call("Check")>> OBVIOUS
      <3> QED BY <3>1, <3>2, PairIs, Zenon
    <2> QED BY <2>1, <2>2, <2>3
  <1>18. CASE OnTCPTimer
    <2>1. \A i \in 1..Len(todo') : todo'[i].op \notin {"Insert", "Destroy"}
      <3>1. todo' = <<>> \/ todo' = <<Call("ConnectToAny")>> BY <1>18 DEF OnTCPTimer
      <3> QED BY <1>a, <3>1
    <2> QED BY <1>16, <1>18, <2>1 DEF OnTCPTimer, StopAnd
  <1>19. CASE UserConnect
    <2>1. \A i \in 1..Len(todo') : todo'[i].op \notin {"Insert", "Destroy"}
      <3>1. PICK c : todo' = <<c>> /\ c.op \notin {"Insert", "Destroy"} BY <1>19, <1>a DEF UserConnect
      <3> QED BY <3>1
    <2> QED BY <1>15, <1>19, <2>1 DEF UserConnect, connVars, sockVars, mapVars
  <1>20. CASE UserCancel
    <2>1. todo' = <<>> BY <1>20 DEF UserCancel, AtRest
    <2> QED BY <1>16, <1>20, <2>1 DEF UserCancel, StopAnd
  <1>21. CASE Disconnect \/ UserRemove
    <2>1. todo' = <<>> /\ AtRest /\ UNCHANGED <<connecting, connectionattemps>>
      BY <1>21 DEF Disconnect, UserRemove, AtRest, mapVars, connVars
    <2>2. m_lstOpenSockets' \subseteq m_lstOpenSockets
      BY <1>21 DEF Disconnect, UserRemove, DestroySockets, sockVars
    <2> QED BY <1>15, <2>1, <2>2
  <1> QED BY <1>1, <1>2, <1>3, <1>4, <1>5, <1>6, <1>7, <1>8, <1>9, <1>10, <1>11, <1>12, <1>13, <1>14,
             <1>17, <1>18, <1>19, <1>20, <1>21
      DEF Next, Internal

------------------------------------------------------------------------------
(* The whole invariant, and what follows from it. *)

\* ServerInv is an invariant of CServerConnect: CoreInv always, ReuseInv where no
\* new socket gets the address of one that is still referred to.
THEOREM ServerInvariant == Spec => []ServerInv
  <1>1. Init => ReuseInv
    <2> SUFFICES ASSUME Init
                 PROVE  /\ LiveInv /\ LookupInv /\ ScanInv
                        /\ OneAttempt /\ IdleInv /\ InsertInv /\ DestroyInv
      BY DEF ReuseInv
    <2>1. todo = <<>> /\ connectionattemps = <<>> /\ lookups = {} /\ it = 0 /\ ~connected BY DEF Init
    <2>2. Len(connectionattemps) = 0 BY <2>1
    <2> QED BY <2>1, <2>2
        DEF LiveInv, LookupInv, ScanInv, OneAttempt, IsInjective, IdleInv, Attempts, InsertInv, DestroyInv
  <1>2. ASSUME CoreInv, CoreInv', [Next]_vars, ReuseInv PROVE ReuseInv'
    <2> SUFFICES ASSUME ~AddressReuse PROVE ReuseInv' BY DEF ReuseInv
    <2>1. LiveInv /\ LookupInv /\ ScanInv /\ AttemptInv BY <1>2 DEF ReuseInv, AttemptInv
    <2>2. LookupInv' BY <1>2, <2>1, LookupStep
    <2>3. LiveInv' BY <1>2, <2>1, LiveStep
    <2>4. ScanInv' BY <1>2, <2>1, ScanStep
    <2>5. AttemptInv' BY <1>2, <2>1, AttemptStep
    <2> QED BY <2>2, <2>3, <2>4, <2>5 DEF ReuseInv, AttemptInv
  <1> QED BY <1>1, <1>2, ServerCoreInvariant, PTL DEF Spec, ServerInv

\* Between two handlers the connection is whole: connected goes with a socket that
\* is open, logged in and up, and no try is under way beside it.
THEOREM ConnectionStaysLive == Spec => [](~AddressReuse => ConnectedIsLive)
  <1>1. ServerInv => (~AddressReuse => ConnectedIsLive)
    <2> SUFFICES ASSUME ServerInv, ~AddressReuse, AtRest
                 PROVE  /\ connected <=> connectedsocket # NoSocket
                        /\ connected => /\ connectedsocket \in m_lstOpenSockets
                                        /\ sock[connectedsocket].state = "CONNECTED"
                                        /\ sock[connectedsocket].tcp = "up"
                                        /\ ~connecting
      BY DEF ConnectedIsLive
    <2>1. FlagInv /\ LiveInv BY DEF ServerInv, CoreInv, ReuseInv
    <2> QED BY <2>1 DEF FlagInv, LiveInv, AtRest, At
  <1> QED BY <1>1, ServerInvariant, PTL

\* The attempt that the loop of CheckForTimeout stands at is never erased by the
\* attempts it starts, though they may fail at once or end the whole try.
THEOREM LoopIteratorStaysValid == Spec => [](~AddressReuse => IteratorValid)
  <1>1. ServerInv => (~AddressReuse => IteratorValid)
    <2> SUFFICES ASSUME ServerInv, ~AddressReuse PROVE it # Dangling BY DEF IteratorValid
    <2>1. it \in 0..(Len(connectionattemps) + 1) BY DEF ServerInv, ReuseInv, ScanInv
    <2> QED BY <2>1 DEF Dangling
  <1> QED BY <1>1, ServerInvariant, PTL

\* One step of DestroyedLeavesAttempts.
LEMMA DestroyedStep ==
  ASSUME ServerInv, [Next]_vars, ~AddressReuse, NEW s \in m_lstOpenSockets \ m_lstOpenSockets',
         s \in Attempts'
  PROVE  sock[s].state = "DISCONNECTED"
  <1>0. CoreInv /\ IdleInv /\ DestroyInv /\ FlagInv BY DEF ServerInv, CoreInv, ReuseInv
  <1>1. /\ TypeOK /\ Shape(todo) /\ DOMAIN todo = 1..Len(todo)
    BY <1>0, Parts, ShapeSeq
  <1>2. connectionattemps' # <<>> BY DEF Attempts
  <1>3. CASE DestroySocket
    <2>1. At("Destroy") /\ s = Me /\ UNCHANGED connectionattemps
      BY <1>3 DEF DestroySocket, DestroySockets, mapVars
    <2>2. Me = todo[1].s /\ todo[1].op = "Destroy" /\ 1 \in DOMAIN todo BY <1>1, <2>1, MeIs
    <2>3. s \in m_lstOpenSockets \cap Attempts BY <2>1 DEF Attempts
    <2> QED BY <1>0, <2>1, <2>2, <2>3 DEF DestroyInv, At
  <1>4. CASE Disconnect
    <2>1. ~connecting /\ UNCHANGED connectionattemps BY <1>0, <1>4 DEF Disconnect, FlagInv, mapVars
    <2> QED BY <1>0, <2>1 DEF IdleInv, Attempts
  <1>5. CASE TryGiveUp \/ ConnectToAnyServer \/ ConnectToServer \/ FailedFatal \/ OnTCPTimer \/ UserCancel
    BY <1>2, <1>5 DEF TryGiveUp, ConnectToAnyServer, ConnectToServer, FailedFatal, OnTCPTimer, UserCancel,
                      StopAnd, StartOver, StopConnectionTry
  <1>6. CASE FailedSingle BY <1>2, <1>6 DEF FailedSingle, StopAnd, StopConnectionTry
  <1>7. CASE TryNext
    <2>1. PICK x : Opened(x, m_servers[GetNextServer], ~m_bTryObfuscated, {})
      BY <1>7, OpenIs DEF TryNext
    <2> QED BY <2>1 DEF Opened
  <1>8. ASSUME NEW x \in Sockets, Network(x) PROVE sock[s].state = "DISCONNECTED"
    <2>1. CASE ReceiveID(x) BY <1>2, <2>1 DEF ReceiveID, StopAnd, StopConnectionTry
    <2>2. CASE m_lstOpenSockets' = m_lstOpenSockets BY <2>2
    <2> QED BY <1>8, <2>1, <2>2
        DEF Network, OnConnect, OnClose, ReceiveLate, ReceiveRefusal, OnConnectError, ReceiveBad, SocketEvent
  <1>9. CASE \/ Insert \/ TryRefused \/ TryWait \/ TryPlain \/ Unrecurse \/ FailedIgnored
             \/ FailedDisconnected \/ FailedMulti \/ CheckBegin \/ CheckForTimeout \/ CheckEnd
             \/ UserConnect \/ UserRemove \/ UNCHANGED vars
    BY <1>9 DEF Insert, TryRefused, TryWait, TryPlain, Unrecurse, FailedIgnored, FailedDisconnected,
                FailedMulti, CheckBegin, CheckForTimeout, CheckEnd, UserConnect, UserRemove, sockVars, vars
  <1>10. ASSUME NEW l, NEW found, LookupDone(l, found) PROVE sock[s].state = "DISCONNECTED"
    BY <1>10 DEF LookupDone
  <1>11. ASSUME NEW k, CoreTimer(k) PROVE sock[s].state = "DISCONNECTED"
    BY <1>11 DEF CoreTimer, sockVars
  <1> QED BY <1>3, <1>4, <1>5, <1>6, <1>7, <1>8, <1>9, <1>10, <1>11 DEF Next, Internal

\* A socket that is destroyed is no attempt any more and frees its slot, except one
\* whose login was refused.
THEOREM DestroyedFreesItsSlot == ASSUME ~AddressReuse PROVE Spec => DestroyedLeavesAttempts
  <1>1. ServerInv /\ [Next]_vars =>
          [\A s \in m_lstOpenSockets \ m_lstOpenSockets' :
             s \in Attempts' => sock[s].state = "DISCONNECTED"]_vars
    BY DestroyedStep
  <1> QED BY <1>1, ServerInvariant, PTL DEF Spec, DestroyedLeavesAttempts

==============================================================================
