------------------------- MODULE SharedObjectsProofs -------------------------
(***************************************************************************)
(* Proofs about SharedObjects, for any threads, variables and number of    *)
(* objects, whatever a class does in reset().                              *)
(***************************************************************************)
EXTENDS SharedObjects, FiniteSetTheorems, SequenceTheorems, TLAPS

(* The innermost calls that make an object, and those that have one which  *)
(* no handle points to: not yet, or no longer.                             *)
Making == {"lockToMake", "make", "own"}
Holding == {"own", "reset", "lockToFree", "destroy", "free"}

Frame ==
    [at : {"sub", "reset", "lockToFree", "destroy", "free"}, obj : Slots]
    \cup [at : {"own"}, obj : Slots, for : Vars]
    \cup [at : {"lockToMake", "make"}, for : Vars, arg : Vars]
    \cup [at : {"take"}, to : Vars, from : [var : Vars, obj : Slots \cup {Null}],
          want : Slots \cup {Null}]

Types ==
    /\ ptr \in [Threads -> [Vars -> Slots \cup {Null}]]
    /\ member \in [Slots -> Slots \cup {Null}]
    /\ refs \in [Slots -> Int]
    /\ built \subseteq Slots
    /\ calls \in [Threads -> Seq(Frame)]

-----------------------------------------------------------------------------
(* The stacks of calls as sets of frames.                                  *)
FramesOf(q) == {<<Len(q) - i, q[i]>> : i \in DOMAIN q}
Top(t) == <<Len(calls[t]) - 1, Doing(t)>>

LEMMA FramesOfReplaced ==
    ASSUME NEW S, NEW q \in Seq(S), q # << >>, NEW s \in Seq(S)
    PROVE  /\ s \o Tail(q) \in Seq(S) /\ Len(s \o Tail(q)) = Len(s) + (Len(q) - 1)
           /\ <<Len(q) - 1, Head(q)>> \in FramesOf(q)
           /\ FramesOf(s \o Tail(q)) =
                  (FramesOf(q) \ {<<Len(q) - 1, Head(q)>>})
                  \cup {<<(Len(q) - 1) + (Len(s) - i), s[i]>> : i \in DOMAIN s}
<1> DEFINE r == s \o Tail(q)
<1>1. /\ Len(q) \in Nat \ {0} /\ DOMAIN q = 1 .. Len(q) /\ Len(s) \in Nat /\ DOMAIN s = 1 .. Len(s)
      /\ Tail(q) \in Seq(S) /\ Len(Tail(q)) = Len(q) - 1 /\ Head(q) = q[1]
      /\ \A i \in 1 .. (Len(q) - 1) : Tail(q)[i] = q[i + 1]
  BY EmptySeq, LenProperties, HeadTailProperties
<1>2. /\ r \in Seq(S) /\ Len(r) = Len(s) + (Len(q) - 1) /\ DOMAIN r = 1 .. (Len(s) + (Len(q) - 1))
      /\ \A i \in 1 .. (Len(s) + (Len(q) - 1)) :
             r[i] = IF i <= Len(s) THEN s[i] ELSE Tail(q)[i - Len(s)]
  BY <1>1, ConcatProperties, LenProperties
<1> HIDE DEF r
<1>3. ASSUME NEW i \in DOMAIN r
      PROVE  <<Len(r) - i, r[i]>> \in (FramesOf(q) \ {<<Len(q) - 1, Head(q)>>})
                 \cup {<<(Len(q) - 1) + (Len(s) - j), s[j]>> : j \in DOMAIN s}
  <2>1. CASE i <= Len(s)
    <3>1. i \in DOMAIN s /\ Len(r) - i = (Len(q) - 1) + (Len(s) - i) /\ r[i] = s[i]
      BY <1>1, <1>2, <2>1
    <3>2. QED
      BY <3>1
  <2>2. CASE ~(i <= Len(s))
    <3>1. PICK j \in DOMAIN q : j = (i - Len(s)) + 1 /\ j # 1
      BY <1>1, <1>2, <2>2
    <3>2. i - Len(s) \in 1 .. (Len(q) - 1) /\ (i - Len(s)) + 1 = j
      BY <1>1, <1>2, <2>2, <3>1
    <3>3. r[i] = q[j]
      BY <1>1, <1>2, <2>2, <3>2
    <3>4. Len(r) - i = Len(q) - j /\ Len(q) - j # Len(q) - 1
      BY <1>1, <1>2, <3>1
    <3>5. QED
      BY <3>1, <3>3, <3>4 DEF FramesOf
  <2>3. QED
    BY <2>1, <2>2
<1>4. ASSUME NEW j \in DOMAIN s PROVE <<(Len(q) - 1) + (Len(s) - j), s[j]>> \in FramesOf(r)
  <2>1. j \in DOMAIN r /\ Len(r) - j = (Len(q) - 1) + (Len(s) - j) /\ r[j] = s[j]
    BY <1>1, <1>2
  <2>2. QED
    BY <2>1 DEF FramesOf
<1>5. ASSUME NEW j \in DOMAIN q, <<Len(q) - j, q[j]>> # <<Len(q) - 1, Head(q)>>
      PROVE  <<Len(q) - j, q[j]>> \in FramesOf(r)
  <2>1. j # 1
    BY <1>1, <1>5
  <2>2. PICK i \in DOMAIN r : i = Len(s) + (j - 1)
    BY <1>1, <1>2, <2>1
  <2>3. Len(r) - i = Len(q) - j /\ r[i] = q[j]
    BY <1>1, <1>2, <2>1, <2>2
  <2>4. QED
    BY <2>2, <2>3 DEF FramesOf
<1>6. <<Len(q) - 1, Head(q)>> \in FramesOf(q)
  BY <1>1 DEF FramesOf
<1>7. FramesOf(r) = (FramesOf(q) \ {<<Len(q) - 1, Head(q)>>})
                    \cup {<<(Len(q) - 1) + (Len(s) - i), s[i]>> : i \in DOMAIN s}
  BY <1>3, <1>4, <1>5 DEF FramesOf
<1>8. QED
  BY <1>2, <1>6, <1>7 DEF r

(* How the frames of the threads change: those in gone leave the stack of  *)
(* t, those in new come.                                                   *)
Becomes(t, gone, new) ==
    /\ calls' \in [Threads -> Seq(Frame)]
    /\ gone \subseteq Frames(t)
    /\ Frames(t)' = (Frames(t) \ gone) \cup new
    /\ \A u \in Threads \ {t} : calls'[u] = calls[u] /\ Frames(u)' = Frames(u)

LEMMA FramesNow ==
    ASSUME calls \in [Threads -> Seq(Frame)], NEW t \in Threads
    PROVE  /\ Idle(t) <=> Frames(t) = {}
           /\ Len(calls[t]) \in Nat
           /\ ~Idle(t) => Top(t) \in Frames(t) /\ Doing(t) \in Frame
           /\ \A f \in Frames(t) :
                  /\ f = <<f[1], f[2]>> /\ f[2] \in Frame /\ f[1] \in 0 .. (Len(calls[t]) - 1)
                  /\ f[1] = Len(calls[t]) - 1 => f = Top(t)
           /\ \A f, g \in Frames(t) : f[1] = g[1] => f = g
<1>1. Len(calls[t]) \in Nat /\ DOMAIN calls[t] = 1 .. Len(calls[t])
      /\ \A i \in 1 .. Len(calls[t]) : calls[t][i] \in Frame
  BY LenProperties, ElementOfSeq
<1>2. calls[t] # << >> => Len(calls[t]) > 0 /\ Head(calls[t]) = calls[t][1]
  BY EmptySeq
<1>3. calls[t] = << >> => Len(calls[t]) = 0
  OBVIOUS
<1>4. Idle(t) <=> Frames(t) = {}
  <2>1. CASE calls[t] = << >>
    <3>1. DOMAIN calls[t] = {}
      BY <1>1, <1>3, <2>1
    <3>2. QED
      BY <2>1, <3>1 DEF Idle, Frames
  <2>2. CASE calls[t] # << >>
    <3>1. 1 \in DOMAIN calls[t]
      BY <1>1, <1>2, <2>2
    <3>2. QED
      BY <2>2, <3>1 DEF Idle, Frames
  <2>3. QED
    BY <2>1, <2>2
<1>5. ~Idle(t) => Top(t) \in Frames(t) /\ Doing(t) \in Frame
  BY <1>1, <1>2 DEF Idle, Frames, Top, Doing
<1>6. ASSUME NEW f \in Frames(t)
      PROVE  /\ f = <<f[1], f[2]>> /\ f[2] \in Frame /\ f[1] \in 0 .. (Len(calls[t]) - 1)
             /\ f[1] = Len(calls[t]) - 1 => f = Top(t)
  <2>1. PICK i \in 1 .. Len(calls[t]) : f = <<Len(calls[t]) - i, calls[t][i]>>
    BY <1>1 DEF Frames
  <2>2. f = <<f[1], f[2]>> /\ f[1] = Len(calls[t]) - i /\ f[2] = calls[t][i]
    BY <2>1
  <2>3. f[1] \in 0 .. (Len(calls[t]) - 1)
    BY <1>1, <2>2
  <2>4. ASSUME f[1] = Len(calls[t]) - 1 PROVE f = Top(t)
    <3>1. i = 1
      BY <1>1, <2>2, <2>4
    <3>2. calls[t] # << >>
      BY <1>3, <2>1
    <3>3. QED
      BY <1>2, <2>1, <3>1, <3>2 DEF Top, Doing
  <2>5. QED
    BY <1>1, <2>2, <2>3, <2>4
<1>7. ASSUME NEW f \in Frames(t), NEW g \in Frames(t), f[1] = g[1] PROVE f = g
  <2>1. PICK i \in 1 .. Len(calls[t]) : f = <<Len(calls[t]) - i, calls[t][i]>>
    BY <1>1 DEF Frames
  <2>2. PICK j \in 1 .. Len(calls[t]) : g = <<Len(calls[t]) - j, calls[t][j]>>
    BY <1>1 DEF Frames
  <2>3. i = j
    BY <1>1, <1>7, <2>1, <2>2
  <2>4. QED
    BY <2>1, <2>2, <2>3
<1>8. QED
  BY <1>1, <1>4, <1>5, <1>6, <1>7

LEMMA FramesGoOn ==
    ASSUME calls \in [Threads -> Seq(Frame)], NEW t \in Threads, ~Idle(t), NEW s \in Seq(Frame), GoOn(t, s)
    PROVE  /\ Becomes(t, {Top(t)}, {<<(Len(calls[t]) - 1) + (Len(s) - i), s[i]>> : i \in DOMAIN s})
           /\ Len(calls'[t]) = Len(s) + (Len(calls[t]) - 1)
<1>1. calls' = [calls EXCEPT ![t] = s \o Tail(calls[t])]
  BY DEF GoOn
<1>2. /\ s \o Tail(calls[t]) \in Seq(Frame) /\ Len(s \o Tail(calls[t])) = Len(s) + (Len(calls[t]) - 1)
      /\ Top(t) \in FramesOf(calls[t])
      /\ FramesOf(s \o Tail(calls[t])) =
             (FramesOf(calls[t]) \ {Top(t)})
             \cup {<<(Len(calls[t]) - 1) + (Len(s) - i), s[i]>> : i \in DOMAIN s}
  <2>1. calls[t] \in Seq(Frame) /\ calls[t] # << >>
    BY DEF Idle
  <2> DEFINE q == calls[t]
  <2> HIDE DEF q
  <2>2. q \in Seq(Frame) /\ q # << >>
    BY <2>1 DEF q
  <2>3. /\ s \o Tail(q) \in Seq(Frame) /\ Len(s \o Tail(q)) = Len(s) + (Len(q) - 1)
        /\ <<Len(q) - 1, Head(q)>> \in FramesOf(q)
        /\ FramesOf(s \o Tail(q)) =
               (FramesOf(q) \ {<<Len(q) - 1, Head(q)>>})
               \cup {<<(Len(q) - 1) + (Len(s) - i), s[i]>> : i \in DOMAIN s}
    BY <2>2, FramesOfReplaced
  <2>4. QED
    BY <2>3 DEF q, Top, Doing
<1>3. calls'[t] = s \o Tail(calls[t]) /\ \A u \in Threads \ {t} : calls'[u] = calls[u]
  BY <1>1
<1>4. calls' \in [Threads -> Seq(Frame)]
  BY <1>1, <1>2
<1>5. Frames(t)' = FramesOf(s \o Tail(calls[t])) /\ Frames(t) = FramesOf(calls[t])
  BY <1>3 DEF Frames, FramesOf
<1>6. \A u \in Threads \ {t} : Frames(u)' = Frames(u)
  BY <1>3 DEF Frames
<1>7. QED
  BY <1>2, <1>3, <1>4, <1>5, <1>6 DEF Becomes

(* The stacks with which the calls go on.                                  *)
LEMMA FramesPop ==
    ASSUME calls \in [Threads -> Seq(Frame)], NEW t \in Threads, ~Idle(t), GoOn(t, << >>)
    PROVE  Becomes(t, {Top(t)}, {}) /\ Len(calls'[t]) = Len(calls[t]) - 1
<1> DEFINE s == << >>
<1>1. s \in Seq(Frame) /\ Len(s) = 0 /\ DOMAIN s = {}
  BY EmptySeq
<1>2. GoOn(t, s)
  OBVIOUS
<1> HIDE DEF s
<1>3. Len(calls[t]) \in Nat /\ 0 + (Len(calls[t]) - 1) = Len(calls[t]) - 1
  BY FramesNow
<1>4. Becomes(t, {Top(t)}, {<<(Len(calls[t]) - 1) + (Len(s) - i), s[i]>> : i \in DOMAIN s})
      /\ Len(calls'[t]) = Len(s) + (Len(calls[t]) - 1)
  BY <1>1, <1>2, FramesGoOn
<1>5. {<<(Len(calls[t]) - 1) + (Len(s) - i), s[i]>> : i \in DOMAIN s} = {}
  BY <1>1
<1>6. QED
  BY <1>1, <1>3, <1>4, <1>5

LEMMA FramesOne ==
    ASSUME calls \in [Threads -> Seq(Frame)], NEW t \in Threads, ~Idle(t), NEW c \in Frame, GoOn(t, <<c>>)
    PROVE  Becomes(t, {Top(t)}, {<<Len(calls[t]) - 1, c>>}) /\ Len(calls'[t]) = Len(calls[t])
<1>1. <<c>> \in Seq(Frame) /\ Len(<<c>>) = 1 /\ DOMAIN <<c>> = {1} /\ <<c>>[1] = c
  OBVIOUS
<1>2. Len(calls[t]) \in Nat
  BY FramesNow
<1> DEFINE s == <<c>>
<1> HIDE DEF s
<1>3. Becomes(t, {Top(t)}, {<<(Len(calls[t]) - 1) + (Len(s) - i), s[i]>> : i \in DOMAIN s})
      /\ Len(calls'[t]) = Len(s) + (Len(calls[t]) - 1)
  BY <1>1, FramesGoOn DEF s
<1>4. (Len(calls[t]) - 1) + (1 - 1) = Len(calls[t]) - 1 /\ 1 + (Len(calls[t]) - 1) = Len(calls[t])
  BY <1>2
<1>5. {<<(Len(calls[t]) - 1) + (Len(s) - i), s[i]>> : i \in DOMAIN s} = {<<Len(calls[t]) - 1, c>>}
  BY <1>1, <1>4 DEF s
<1>6. QED
  BY <1>1, <1>3, <1>4, <1>5 DEF s

LEMMA FramesTwo ==
    ASSUME calls \in [Threads -> Seq(Frame)], NEW t \in Threads, ~Idle(t),
           NEW c \in Frame, NEW d \in Frame, GoOn(t, <<c, d>>)
    PROVE  /\ Becomes(t, {Top(t)}, {<<Len(calls[t]), c>>, <<Len(calls[t]) - 1, d>>})
           /\ Len(calls'[t]) = Len(calls[t]) + 1
<1>1. /\ <<c, d>> \in Seq(Frame) /\ Len(<<c, d>>) = 2 /\ DOMAIN <<c, d>> = {1, 2}
      /\ <<c, d>>[1] = c /\ <<c, d>>[2] = d
  OBVIOUS
<1>2. Len(calls[t]) \in Nat
  BY FramesNow
<1> DEFINE s == <<c, d>>
<1> HIDE DEF s
<1>3. Becomes(t, {Top(t)}, {<<(Len(calls[t]) - 1) + (Len(s) - i), s[i]>> : i \in DOMAIN s})
      /\ Len(calls'[t]) = Len(s) + (Len(calls[t]) - 1)
  BY <1>1, FramesGoOn DEF s
<1>4. /\ (Len(calls[t]) - 1) + (2 - 1) = Len(calls[t])
      /\ (Len(calls[t]) - 1) + (2 - 2) = Len(calls[t]) - 1
      /\ 2 + (Len(calls[t]) - 1) = Len(calls[t]) + 1
  BY <1>2
<1>5. {<<(Len(calls[t]) - 1) + (Len(s) - i), s[i]>> : i \in DOMAIN s}
          = {<<Len(calls[t]), c>>, <<Len(calls[t]) - 1, d>>}
  BY <1>1, <1>4 DEF s
<1>6. QED
  BY <1>1, <1>3, <1>4, <1>5 DEF s

(* A thread that begins a call.                                            *)
LEMMA FramesBegin ==
    ASSUME calls \in [Threads -> Seq(Frame)], NEW t \in Threads, Idle(t), NEW s \in Seq(Frame),
           calls' = [calls EXCEPT ![t] = s]
    PROVE  Becomes(t, {}, FramesOf(s)) /\ Frames(t) = {} /\ Len(calls'[t]) = Len(s)
<1>1. Frames(t) = {}
  BY FramesNow
<1>2. Frames(t)' = FramesOf(s)
  BY DEF Frames, FramesOf
<1>3. \A u \in Threads \ {t} : calls'[u] = calls[u] /\ Frames(u)' = Frames(u)
  BY DEF Frames
<1>4. QED
  BY <1>1, <1>2, <1>3 DEF Becomes

LEMMA FramesOfNone == FramesOf(<< >>) = {} /\ Len(<< >>) = 0
<1>1. DOMAIN << >> = {}
  OBVIOUS
<1>2. QED
  BY <1>1, EmptySeq DEF FramesOf

LEMMA FramesOfOne == ASSUME NEW c PROVE FramesOf(<<c>>) = {<<0, c>>} /\ Len(<<c>>) = 1
<1>1. Len(<<c>>) = 1 /\ DOMAIN <<c>> = {1} /\ <<c>>[1] = c
  OBVIOUS
<1>2. QED
  BY <1>1 DEF FramesOf

LEMMA FramesOfTwo == ASSUME NEW c, NEW d PROVE FramesOf(<<c, d>>) = {<<1, c>>, <<0, d>>} /\ Len(<<c, d>>) = 2
<1>1. Len(<<c, d>>) = 2 /\ DOMAIN <<c, d>> = {1, 2} /\ <<c, d>>[1] = c /\ <<c, d>>[2] = d
  OBVIOUS
<1>2. QED
  BY <1>1 DEF FramesOf

-----------------------------------------------------------------------------
(* Owners, and how a step changes them.                                    *)
Variable(t, v) == <<"variable", <<t, v>>>>
Member(y) == <<"member", y>>
Release(t, f) == <<"release", <<t, f>>>>

Releases(f, x) == f[2].at = "sub" /\ f[2].obj = x

LEMMA OwnersAre ==
    ASSUME NEW x, NEW a
    PROVE  a \in Owners(x) <=>
               \/ \E t \in Threads, v \in Vars : a = Variable(t, v) /\ ptr[t][v] = x
               \/ \E y \in built : a = Member(y) /\ member[y] = x
               \/ \E t \in Threads : \E f \in Frames(t) : a = Release(t, f) /\ Releases(f, x)
<1>1. a \in {<<"variable", h>> : h \in {tv \in Threads \X Vars : ptr[tv[1]][tv[2]] = x}}
          <=> \E t \in Threads, v \in Vars : a = Variable(t, v) /\ ptr[t][v] = x
  BY DEF Variable
<1>2. a \in {<<"member", y>> : y \in {z \in built : member[z] = x}}
          <=> \E y \in built : a = Member(y) /\ member[y] = x
  BY DEF Member
<1>3. a \in UNION {{<<"release", <<t, f>>>> : f \in {g \in Frames(t) : g[2].at = "sub" /\ g[2].obj = x}} :
                      t \in Threads}
          <=> \E t \in Threads : \E f \in Frames(t) : a = Release(t, f) /\ Releases(f, x)
  BY DEF Release, Releases
<1>4. QED
  BY <1>1, <1>2, <1>3 DEF Owners

(* The tags are distinct, and tell owners of each kind.                    *)
LEMMA TagsDiffer ==
    /\ \A t, u, v, w : Variable(t, v) = Variable(u, w) <=> t = u /\ v = w
    /\ \A y, z : Member(y) = Member(z) <=> y = z
    /\ \A t, u, f, g : Release(t, f) = Release(u, g) <=> t = u /\ f = g
    /\ \A t, v, y : Variable(t, v) # Member(y)
    /\ \A t, v, u, f : Variable(t, v) # Release(u, f)
    /\ \A y, u, f : Member(y) # Release(u, f)
BY DEF Variable, Member, Release

OwnersByTag ==
    \A x :
        /\ \A t \in Threads, v \in Vars : Variable(t, v) \in Owners(x) <=> ptr[t][v] = x
        /\ \A y : Member(y) \in Owners(x) <=> y \in built /\ member[y] = x
        /\ \A t \in Threads : \A f : Release(t, f) \in Owners(x) <=> f \in Frames(t) /\ Releases(f, x)
        /\ \A a \in Owners(x) :
               \/ \E t \in Threads, v \in Vars : a = Variable(t, v)
               \/ \E y : a = Member(y)
               \/ \E t \in Threads : \E f : a = Release(t, f)

LEMMA OwnersTagged == OwnersByTag
<1> SUFFICES ASSUME NEW x
             PROVE  /\ \A t \in Threads, v \in Vars : Variable(t, v) \in Owners(x) <=> ptr[t][v] = x
                    /\ \A y : Member(y) \in Owners(x) <=> y \in built /\ member[y] = x
                    /\ \A t \in Threads : \A f :
                           Release(t, f) \in Owners(x) <=> f \in Frames(t) /\ Releases(f, x)
                    /\ \A a \in Owners(x) :
                           \/ \E t \in Threads, v \in Vars : a = Variable(t, v)
                           \/ \E y : a = Member(y)
                           \/ \E t \in Threads : \E f : a = Release(t, f)
  BY DEF OwnersByTag
<1>1. \A t \in Threads, v \in Vars : Variable(t, v) \in Owners(x) <=> ptr[t][v] = x
  <2> TAKE t \in Threads, v \in Vars
  <2>1. QED
    BY OwnersAre, TagsDiffer
<1>2. \A y : Member(y) \in Owners(x) <=> y \in built /\ member[y] = x
  <2> TAKE y
  <2>1. QED
    BY OwnersAre, TagsDiffer
<1>3. \A t \in Threads : \A f : Release(t, f) \in Owners(x) <=> f \in Frames(t) /\ Releases(f, x)
  <2> TAKE t \in Threads
  <2> TAKE f
  <2>1. QED
    BY OwnersAre, TagsDiffer
<1>4. \A a \in Owners(x) :
          \/ \E t \in Threads, v \in Vars : a = Variable(t, v)
          \/ \E y : a = Member(y)
          \/ \E t \in Threads : \E f : a = Release(t, f)
  BY OwnersAre
<1>5. QED
  BY <1>1, <1>2, <1>3, <1>4

LEMMA OwnersTaggedNext == OwnersByTag'
BY OwnersTagged, PTL

IsTag(a) ==
    \/ \E t \in Threads, v \in Vars : a = Variable(t, v)
    \/ \E y : a = Member(y)
    \/ \E t \in Threads : \E f : a = Release(t, f)

(* A step takes the tags in gone from the owners of x, and adds those in   *)
(* new.                                                                    *)
LEMMA OwnersBecome ==
    ASSUME NEW x, NEW gone, NEW new, \A a \in new : IsTag(a),
           \A t \in Threads, v \in Vars :
               ptr'[t][v] = x <=> \/ ptr[t][v] = x /\ Variable(t, v) \notin gone
                                  \/ Variable(t, v) \in new,
           \A y : y \in built' /\ member'[y] = x
                      <=> \/ y \in built /\ member[y] = x /\ Member(y) \notin gone
                          \/ Member(y) \in new,
           \A t \in Threads : \A f :
               f \in Frames(t)' /\ Releases(f, x)
                   <=> \/ f \in Frames(t) /\ Releases(f, x) /\ Release(t, f) \notin gone
                       \/ Release(t, f) \in new
    PROVE  Owners(x)' = (Owners(x) \ gone) \cup new
<1>1. /\ \A t \in Threads, v \in Vars : Variable(t, v) \in Owners(x) <=> ptr[t][v] = x
      /\ \A y : Member(y) \in Owners(x) <=> y \in built /\ member[y] = x
      /\ \A t \in Threads : \A f : Release(t, f) \in Owners(x) <=> f \in Frames(t) /\ Releases(f, x)
      /\ \A a \in Owners(x) : IsTag(a)
  BY OwnersTagged DEF OwnersByTag, IsTag
<1> DEFINE next == Owners(x)'
<1>2. /\ \A t \in Threads, v \in Vars : Variable(t, v) \in next <=> ptr'[t][v] = x
      /\ \A y : Member(y) \in next <=> y \in built' /\ member'[y] = x
      /\ \A t \in Threads : \A f : Release(t, f) \in next <=> f \in Frames(t)' /\ Releases(f, x)
      /\ \A a \in next : IsTag(a)
  BY OwnersTaggedNext DEF OwnersByTag, IsTag
<1> HIDE DEF next
<1>3. /\ \A t \in Threads, v \in Vars :
             Variable(t, v) \in next <=> Variable(t, v) \in (Owners(x) \ gone) \cup new
      /\ \A y : Member(y) \in next <=> Member(y) \in (Owners(x) \ gone) \cup new
      /\ \A t \in Threads : \A f : Release(t, f) \in next <=> Release(t, f) \in (Owners(x) \ gone) \cup new
  BY <1>1, <1>2
<1>4. ASSUME NEW a, IsTag(a) PROVE a \in next <=> a \in (Owners(x) \ gone) \cup new
  BY <1>3, <1>4 DEF IsTag
<1>5. next = (Owners(x) \ gone) \cup new
  BY <1>1, <1>2, <1>4
<1>6. QED
  BY <1>5 DEF next

-----------------------------------------------------------------------------
(* The inductive invariant.                                                *)

Holds(f) == f[2].at \in Holding

(* What each call on the stack relies on: the object it has exists and     *)
(* nothing points to it; the handle it will set is null; and what a move   *)
(* assignment is to take over is still there.                              *)
FrameOK(t, f) ==
    /\ Holds(f) => f[2].obj \in built /\ refs[f[2].obj] = 0
    /\ f[2].at = "free" => member[f[2].obj] = Null
    /\ f[2].at \in Making => Len(calls[t]) = 1 /\ ptr[t][f[2].for] = Null
    /\ f[2].at \in {"lockToMake", "make"} => f[2].arg # f[2].for
    /\ f[2].at = "take" =>
           /\ f[1] = 0 /\ ptr[t][f[2].to] = Null
           /\ IF f[2].from.obj = Null
              THEN f[2].from.var # f[2].to /\ ptr[t][f[2].from.var] = f[2].want
              ELSE MovesFromMember

FramesOK == \A t \in Threads : \A f \in Frames(t) : FrameOK(t, f)

(* No two calls have the same object in their hands.                       *)
HeldOnce ==
    \A t, u \in Threads : \A f \in Frames(t), g \in Frames(u) :
        Holds(f) /\ Holds(g) /\ f[2].obj = g[2].obj => t = u /\ f = g

BlankMembers == \A x \in Slots \ built : member[x] = Null

Count(x) == IF x \in built THEN refs[x] ELSE 0
Counted == \A x \in Slots : IsFiniteSet(Owners(x)) /\ Cardinality(Owners(x)) = Count(x)

ObjInv == Types /\ FramesOK /\ HeldOnce /\ BlankMembers /\ Counted

LEMMA Owned ==
    ASSUME ObjInv, NEW x \in Slots, NEW a \in Owners(x)
    PROVE  /\ x \in built /\ refs[x] \in Nat \ {0}
           /\ \A t \in Threads : \A f \in Frames(t) : Holds(f) => f[2].obj # x
<1>1. IsFiniteSet(Owners(x)) /\ Cardinality(Owners(x)) = Count(x)
  BY DEF ObjInv, Counted
<1>2. Cardinality(Owners(x)) \in Nat /\ Cardinality(Owners(x)) # 0
  BY <1>1, FS_CardinalityType, FS_EmptySet
<1>3. x \in built /\ refs[x] \in Nat \ {0}
  BY <1>1, <1>2 DEF Count
<1>4. QED
  BY <1>3 DEF ObjInv, FramesOK, FrameOK

LEMMA PointedTo ==
    ASSUME ObjInv, NEW t \in Threads, NEW v \in Vars, ptr[t][v] # Null
    PROVE  /\ ptr[t][v] \in Slots /\ ptr[t][v] \in built /\ refs[ptr[t][v]] \in Nat \ {0}
           /\ Variable(t, v) \in Owners(ptr[t][v])
           /\ \A u \in Threads : \A f \in Frames(u) : Holds(f) => f[2].obj # ptr[t][v]
<1>1. ptr[t][v] \in Slots
  BY DEF ObjInv, Types
<1>2. Variable(t, v) \in Owners(ptr[t][v])
  BY OwnersTagged DEF OwnersByTag
<1>3. QED
  BY <1>1, <1>2, Owned

LEMMA MemberTo ==
    ASSUME ObjInv, NEW y \in built, member[y] # Null
    PROVE  /\ y \in Slots /\ member[y] \in Slots /\ member[y] \in built /\ refs[member[y]] \in Nat \ {0}
           /\ Member(y) \in Owners(member[y])
           /\ \A u \in Threads : \A f \in Frames(u) : Holds(f) => f[2].obj # member[y]
<1>1. y \in Slots /\ member[y] \in Slots
  BY DEF ObjInv, Types
<1>2. Member(y) \in Owners(member[y])
  BY OwnersTagged DEF OwnersByTag
<1>3. QED
  BY <1>1, <1>2, Owned

(* A step of t that leaves the other calls what they rely on.              *)
LEMMA FramesStay ==
    ASSUME ObjInv, NEW t \in Threads, NEW gone, NEW new, Becomes(t, gone, new),
           \A u \in Threads \ {t} : ptr'[u] = ptr[u],
           \A f \in Frames(t) \ gone : f[2].at \notin Making /\ (f[2].at = "take" => ptr'[t] = ptr[t]),
           \A u \in Threads : \A f \in Frames(u) :
               Holds(f) /\ ~(u = t /\ f \in gone) => f[2].obj \in built' /\ refs'[f[2].obj] = 0,
           \A x \in built : member'[x] \in {member[x], Null},
           \A f \in new : FrameOK(t, f)'
    PROVE  FramesOK'
<1> SUFFICES ASSUME NEW u \in Threads, NEW f \in Frames(u)' PROVE FrameOK(u, f)'
  BY DEF FramesOK
<1>1. CASE u = t /\ f \in new
  BY <1>1
<1>2. CASE ~(u = t /\ f \in new)
  <2>1. f \in Frames(u) /\ ~(u = t /\ f \in gone)
    BY <1>2 DEF Becomes
  <2>2. FrameOK(u, f)
    BY <2>1 DEF ObjInv, FramesOK
  <2>3. f[2].at \in Making => calls'[u] = calls[u] /\ ptr'[u] = ptr[u]
    BY <2>1 DEF Becomes
  <2>4. f[2].at = "take" => ptr'[u] = ptr[u]
    BY <2>1 DEF Becomes
  <2>5. Holds(f) => f[2].obj \in built' /\ refs'[f[2].obj] = 0
    BY <2>1
  <2>6. f[2].at = "free" => member'[f[2].obj] = Null
    BY <2>2 DEF FrameOK, Holds, Holding
  <2>7. Holds(f)' <=> Holds(f)
    BY DEF Holds
  <2>8. QED
    BY <2>2, <2>3, <2>4, <2>5, <2>6, <2>7 DEF FrameOK
<1>3. QED
  BY <1>1, <1>2

LEMMA HeldStays ==
    ASSUME ObjInv, NEW t \in Threads, NEW gone, NEW new, Becomes(t, gone, new),
           \A f, g \in new : Holds(f) /\ Holds(g) => f = g,
           \A f \in new : Holds(f) =>
               \A u \in Threads : \A g \in Frames(u) :
                   Holds(g) /\ ~(u = t /\ g \in gone) => g[2].obj # f[2].obj
    PROVE  HeldOnce'
<1> SUFFICES ASSUME NEW u \in Threads, NEW w \in Threads, NEW f \in Frames(u)', NEW g \in Frames(w)',
                    Holds(f), Holds(g), f[2].obj = g[2].obj
             PROVE  u = w /\ f = g
  BY DEF HeldOnce, Holds
<1>0. ASSUME NEW z \in Threads, NEW h \in Frames(z)'
      PROVE  (z = t /\ h \in new) \/ (h \in Frames(z) /\ ~(z = t /\ h \in gone))
  <2>1. CASE z = t
    BY <2>1 DEF Becomes
  <2>2. CASE z # t
    BY <2>2 DEF Becomes
  <2>3. QED
    BY <2>1, <2>2
<1>1. (u = t /\ f \in new) \/ (f \in Frames(u) /\ ~(u = t /\ f \in gone))
  BY <1>0
<1>2. (w = t /\ g \in new) \/ (g \in Frames(w) /\ ~(w = t /\ g \in gone))
  BY <1>0
<1>3. CASE f \in Frames(u) /\ g \in Frames(w)
  BY <1>3 DEF ObjInv, HeldOnce
<1>4. QED
  BY <1>1, <1>2, <1>3

(* Counting.                                                               *)
LEMMA AddTag ==
    ASSUME NEW S, IsFiniteSet(S), NEW a, a \notin S
    PROVE  IsFiniteSet(S \cup {a}) /\ Cardinality(S \cup {a}) = Cardinality(S) + 1
BY FS_AddElement

LEMMA RemoveTag ==
    ASSUME NEW S, IsFiniteSet(S), NEW a \in S
    PROVE  IsFiniteSet(S \ {a}) /\ Cardinality(S \ {a}) = Cardinality(S) - 1
BY FS_RemoveElement

LEMMA SwapTag ==
    ASSUME NEW S, IsFiniteSet(S), NEW a \in S, NEW b, b \notin S
    PROVE  IsFiniteSet((S \ {a}) \cup {b}) /\ Cardinality((S \ {a}) \cup {b}) = Cardinality(S)
<1>1. IsFiniteSet(S \ {a}) /\ Cardinality(S \ {a}) = Cardinality(S) - 1 /\ Cardinality(S) \in Nat
  BY RemoveTag, FS_CardinalityType
<1>2. IsFiniteSet((S \ {a}) \cup {b}) /\ Cardinality((S \ {a}) \cup {b}) = (Cardinality(S) - 1) + 1
  BY <1>1, AddTag
<1>3. QED
  BY <1>1, <1>2

-----------------------------------------------------------------------------
(* The pool: the slots that are free, those that hold an object, and those *)
(* promised to the threads that are making one.                            *)
FreeSlots == {pool.free[i] : i \in 1 .. Len(pool.free)}

PoolInv ==
    /\ pool \in [free : Seq(Slots), made : Nat, live : Int, locked : BOOLEAN]
    /\ \A i, j \in 1 .. Len(pool.free) : pool.free[i] = pool.free[j] => i = j
    /\ FreeSlots \cap built = {}
    /\ FreeSlots \cup built = 1 .. pool.made
    /\ Len(pool.free) + Cardinality(built) = pool.made
    /\ pool.live = Cardinality(built)
    /\ IsFiniteSet(Makers)
    /\ Cardinality(built) + Cardinality(Makers) <= MaxObjects

-----------------------------------------------------------------------------
(* What the frames hold, and which are left when the innermost call ends.  *)
LEMMA FrameFields ==
    ASSUME NEW c \in Frame
    PROVE  /\ c.at \in {"sub", "reset", "lockToFree", "destroy", "free", "own"} => c.obj \in Slots
           /\ c.at \in Making => c.for \in Vars
           /\ c.at \in {"lockToMake", "make"} => c.arg \in Vars
           /\ c.at = "take" => /\ c.to \in Vars /\ c.from.var \in Vars
                               /\ c.from.obj \in Slots \cup {Null} /\ c.want \in Slots \cup {Null}
BY DEF Frame, Making

LEMMA FramesMade ==
    /\ \A x \in Slots, l \in {"sub", "reset", "lockToFree", "destroy", "free"} :
           [at |-> l, obj |-> x] \in Frame
    /\ \A x \in Slots, v \in Vars : [at |-> "own", obj |-> x, for |-> v] \in Frame
    /\ \A v, w \in Vars : [at |-> "lockToMake", for |-> v, arg |-> w] \in Frame
    /\ \A c \in Frame : c.at = "lockToMake" => [c EXCEPT !.at = "make"] \in Frame
    /\ \A c \in Frame : c.at = "lockToFree" => [c EXCEPT !.at = "destroy"] \in Frame
BY DEF Frame

LEMMA TopIs ==
    ASSUME ObjInv, NEW t \in Threads, ~Idle(t)
    PROVE  /\ Top(t) \in Frames(t) /\ FrameOK(t, Top(t))
           /\ Top(t)[1] = Len(calls[t]) - 1 /\ Top(t)[2] = Doing(t)
           /\ Doing(t) \in Frame /\ Len(calls[t]) \in Nat \ {0}
           /\ calls \in [Threads -> Seq(Frame)]
<1>1. calls \in [Threads -> Seq(Frame)]
  BY DEF ObjInv, Types
<1>2. Top(t) \in Frames(t) /\ Doing(t) \in Frame /\ Len(calls[t]) \in Nat
      /\ \A f \in Frames(t) : f[1] \in 0 .. (Len(calls[t]) - 1)
  BY <1>1, FramesNow
<1>3. Top(t)[1] = Len(calls[t]) - 1 /\ Top(t)[2] = Doing(t)
  BY DEF Top
<1>4. Len(calls[t]) # 0
  BY <1>2
<1>5. QED
  BY <1>1, <1>2, <1>3, <1>4 DEF ObjInv, FramesOK

LEMMA OnlyTop ==
    ASSUME ObjInv, NEW t \in Threads, ~Idle(t), Len(calls[t]) = 1
    PROVE  Frames(t) = {Top(t)}
<1>1. \A f \in Frames(t) : f[1] \in 0 .. (Len(calls[t]) - 1) /\ (f[1] = Len(calls[t]) - 1 => f = Top(t))
  BY FramesNow DEF ObjInv, Types
<1>2. Top(t) \in Frames(t)
  BY TopIs
<1>3. QED
  BY <1>1, <1>2

LEMMA BelowTop ==
    ASSUME ObjInv, NEW t \in Threads, ~Idle(t), NEW f \in Frames(t) \ {Top(t)}
    PROVE  f[2].at \notin Making
<1>1. FrameOK(t, f)
  BY DEF ObjInv, FramesOK
<1>2. Len(calls[t]) # 1
  BY OnlyTop
<1>3. QED
  BY <1>1, <1>2 DEF FrameOK

(* OwnersBecome, for a step of t that leaves frames of t and brings others. *)
LEMMA StepOwners ==
    ASSUME NEW t \in Threads, NEW gone, NEW new, Becomes(t, gone, new),
           NEW x, NEW out, NEW in, \A a \in in : IsTag(a),
           \A u \in Threads, v \in Vars :
               ptr'[u][v] = x <=> \/ ptr[u][v] = x /\ Variable(u, v) \notin out
                                  \/ Variable(u, v) \in in,
           \A y : y \in built' /\ member'[y] = x
                      <=> \/ y \in built /\ member[y] = x /\ Member(y) \notin out
                          \/ Member(y) \in in,
           \A f \in gone : Releases(f, x) => Release(t, f) \in out \/ f \in new,
           \A f \in new : Releases(f, x) => Release(t, f) \in in,
           \A u \in Threads : \A f : Release(u, f) \in out => u = t /\ f \in gone,
           \A u \in Threads : \A f : Release(u, f) \in in => u = t /\ f \in new /\ Releases(f, x)
    PROVE  Owners(x)' = (Owners(x) \ out) \cup in
<1>1. ASSUME NEW u \in Threads, NEW f
      PROVE  f \in Frames(u)' /\ Releases(f, x)
                 <=> \/ f \in Frames(u) /\ Releases(f, x) /\ Release(u, f) \notin out
                     \/ Release(u, f) \in in
  <2>1. CASE u = t
    <3>1. f \in Frames(t)' <=> (f \in Frames(t) /\ f \notin gone) \/ f \in new
      BY DEF Becomes
    <3>2. QED
      BY <2>1, <3>1
  <2>2. CASE u # t
    <3>1. Frames(u)' = Frames(u)
      BY <2>2 DEF Becomes
    <3>2. QED
      BY <2>2, <3>1
  <2>3. QED
    BY <2>1, <2>2
<1>2. QED
  BY <1>1, OwnersBecome

(* Nothing that the owners of x depend on changes.                         *)
LEMMA OwnersSame ==
    ASSUME NEW t \in Threads, NEW gone, NEW new, Becomes(t, gone, new), NEW x,
           \A u \in Threads, v \in Vars : ptr'[u][v] = x <=> ptr[u][v] = x,
           \A y : y \in built' /\ member'[y] = x <=> y \in built /\ member[y] = x,
           \A f \in gone \cup new : ~Releases(f, x)
    PROVE  Owners(x)' = Owners(x)
<1> DEFINE none == {}
<1>1. none = {}
  OBVIOUS
<1> HIDE DEF none
<1>2. /\ \A a \in none : IsTag(a)
      /\ \A u \in Threads, v \in Vars :
             ptr'[u][v] = x <=> \/ ptr[u][v] = x /\ Variable(u, v) \notin none
                                \/ Variable(u, v) \in none
      /\ \A y : y \in built' /\ member'[y] = x
                    <=> \/ y \in built /\ member[y] = x /\ Member(y) \notin none
                        \/ Member(y) \in none
      /\ \A f \in gone : Releases(f, x) => Release(t, f) \in none \/ f \in new
      /\ \A f \in new : Releases(f, x) => Release(t, f) \in none
      /\ \A u \in Threads : \A f : Release(u, f) \in none => u = t /\ f \in gone
      /\ \A u \in Threads : \A f : Release(u, f) \in none => u = t /\ f \in new /\ Releases(f, x)
  BY <1>1
<1>3. Owners(x)' = (Owners(x) \ none) \cup none
  BY <1>2, StepOwners
<1>4. QED
  BY <1>1, <1>3

LEMMA Uncalled ==
    ASSUME calls \in [Threads -> Seq(Frame)], UNCHANGED calls, NEW t \in Threads
    PROVE  Becomes(t, {}, {})
<1>1. \A u \in Threads : calls'[u] = calls[u] /\ Frames(u)' = Frames(u)
  BY DEF Frames
<1>2. QED
  BY <1>1 DEF Becomes

(* The counts of the objects for which nothing changes.                    *)
LEMMA CountSame ==
    ASSUME ObjInv, NEW x \in Slots, Owners(x)' = Owners(x), Count(x)' = Count(x)
    PROVE  (IsFiniteSet(Owners(x)) /\ Cardinality(Owners(x)) = Count(x))'
BY DEF ObjInv, Counted

LEMMA CountMore ==
    ASSUME ObjInv, NEW x \in Slots, NEW a, a \notin Owners(x),
           Owners(x)' = Owners(x) \cup {a}, Count(x)' = Count(x) + 1
    PROVE  (IsFiniteSet(Owners(x)) /\ Cardinality(Owners(x)) = Count(x))'
BY AddTag DEF ObjInv, Counted

LEMMA CountLess ==
    ASSUME ObjInv, NEW x \in Slots, NEW a \in Owners(x),
           Owners(x)' = Owners(x) \ {a}, Count(x)' = Count(x) - 1
    PROVE  (IsFiniteSet(Owners(x)) /\ Cardinality(Owners(x)) = Count(x))'
BY RemoveTag DEF ObjInv, Counted

LEMMA CountSwap ==
    ASSUME ObjInv, NEW x \in Slots, NEW a \in Owners(x), NEW b, b \notin Owners(x),
           Owners(x)' = (Owners(x) \ {a}) \cup {b}, Count(x)' = Count(x)
    PROVE  (IsFiniteSet(Owners(x)) /\ Cardinality(Owners(x)) = Count(x))'
BY SwapTag DEF ObjInv, Counted

(* The steps after which x has one owner more, one less, or another one    *)
(* instead of an owner it had; and those that leave it its owners.         *)
CountedNext(x) == (IsFiniteSet(Owners(x)) /\ Cardinality(Owners(x)) = Count(x))'

LEMMA OwnersStay ==
    ASSUME ObjInv, NEW t \in Threads, NEW gone, NEW new, Becomes(t, gone, new), NEW x \in Slots,
           Count(x)' = Count(x),
           \A u \in Threads, v \in Vars : ptr'[u][v] = x <=> ptr[u][v] = x,
           \A y : y \in built' /\ member'[y] = x <=> y \in built /\ member[y] = x,
           \A f \in gone \cup new : ~Releases(f, x)
    PROVE  CountedNext(x)
<1>1. Owners(x)' = Owners(x)
  BY OwnersSame
<1>2. QED
  BY <1>1, CountSame DEF CountedNext

LEMMA OwnerComes ==
    ASSUME ObjInv, NEW t \in Threads, NEW gone, NEW new, Becomes(t, gone, new), NEW x \in Slots,
           NEW a, IsTag(a), a \notin Owners(x), Count(x)' = Count(x) + 1,
           \A u \in Threads, v \in Vars : ptr'[u][v] = x <=> ptr[u][v] = x \/ Variable(u, v) = a,
           \A y : y \in built' /\ member'[y] = x <=> (y \in built /\ member[y] = x) \/ Member(y) = a,
           \A f \in gone : ~Releases(f, x),
           \A f \in new : Releases(f, x) => Release(t, f) = a,
           \A u \in Threads : \A f : Release(u, f) = a => u = t /\ f \in new /\ Releases(f, x)
    PROVE  CountedNext(x)
<1> DEFINE in == {a}
           out == {}
<1>1. \A b : (b \in in <=> b = a) /\ b \notin out
  OBVIOUS
<1>2. in = {a} /\ out = {}
  OBVIOUS
<1> HIDE DEF in, out
<1>3. Owners(x)' = (Owners(x) \ out) \cup in
  BY <1>1, StepOwners
<1>4. Owners(x)' = Owners(x) \cup {a}
  BY <1>2, <1>3
<1>5. QED
  BY <1>4, CountMore DEF CountedNext

LEMMA OwnerGoes ==
    ASSUME ObjInv, NEW t \in Threads, NEW gone, NEW new, Becomes(t, gone, new), NEW x \in Slots,
           NEW a \in Owners(x), Count(x)' = Count(x) - 1,
           \A u \in Threads, v \in Vars : ptr'[u][v] = x <=> ptr[u][v] = x /\ Variable(u, v) # a,
           \A y : y \in built' /\ member'[y] = x <=> y \in built /\ member[y] = x /\ Member(y) # a,
           \A f \in gone : Releases(f, x) => Release(t, f) = a,
           \A f \in new : ~Releases(f, x),
           \A u \in Threads : \A f : Release(u, f) = a => u = t /\ f \in gone
    PROVE  CountedNext(x)
<1> DEFINE out == {a}
           in == {}
<1>1. \A b : (b \in out <=> b = a) /\ b \notin in
  OBVIOUS
<1>2. out = {a} /\ in = {}
  OBVIOUS
<1> HIDE DEF in, out
<1>3. Owners(x)' = (Owners(x) \ out) \cup in
  BY <1>1, StepOwners
<1>4. Owners(x)' = Owners(x) \ {a}
  BY <1>2, <1>3
<1>5. QED
  BY <1>4, CountLess DEF CountedNext

LEMMA OwnerSwapped ==
    ASSUME ObjInv, NEW t \in Threads, NEW gone, NEW new, Becomes(t, gone, new), NEW x \in Slots,
           NEW a \in Owners(x), NEW b, IsTag(b), b \notin Owners(x), Count(x)' = Count(x),
           \A u \in Threads, v \in Vars :
               ptr'[u][v] = x <=> (ptr[u][v] = x /\ Variable(u, v) # a) \/ Variable(u, v) = b,
           \A y : y \in built' /\ member'[y] = x
                      <=> (y \in built /\ member[y] = x /\ Member(y) # a) \/ Member(y) = b,
           \A f \in gone : Releases(f, x) => Release(t, f) = a,
           \A f \in new : Releases(f, x) => Release(t, f) = b,
           \A u \in Threads : \A f : Release(u, f) = a => u = t /\ f \in gone,
           \A u \in Threads : \A f : Release(u, f) = b => u = t /\ f \in new /\ Releases(f, x)
    PROVE  CountedNext(x)
<1> DEFINE out == {a}
           in == {b}
<1>1. \A c : (c \in out <=> c = a) /\ (c \in in <=> c = b)
  OBVIOUS
<1>2. out = {a} /\ in = {b}
  OBVIOUS
<1> HIDE DEF in, out
<1>3. Owners(x)' = (Owners(x) \ out) \cup in
  BY <1>1, StepOwners
<1>4. Owners(x)' = (Owners(x) \ {a}) \cup {b}
  BY <1>2, <1>3
<1>5. QED
  BY <1>4, CountSwap DEF CountedNext

LEMMA AllCounted == ASSUME \A x \in Slots : CountedNext(x) PROVE Counted'
BY DEF CountedNext, Counted

(* The threads that were promised a slot are those with such a call.       *)
Promised(f) == f[2].at \in {"lockToMake", "make"}
MakersPromised == \A t \in Threads : t \in Makers <=> \E f \in Frames(t) : Promised(f)

LEMMA MakersAre == ObjInv => MakersPromised
<1> SUFFICES ASSUME ObjInv, NEW t \in Threads
             PROVE  t \in Makers <=> \E f \in Frames(t) : Promised(f)
  BY DEF MakersPromised
<1>1. ASSUME t \in Makers PROVE \E f \in Frames(t) : Promised(f)
  <2>1. ~Idle(t) /\ Doing(t).at \in {"lockToMake", "make"}
    BY <1>1 DEF Makers, At, Doing
  <2>2. Top(t) \in Frames(t) /\ Top(t)[2] = Doing(t)
    BY <2>1, TopIs
  <2>3. QED
    BY <2>1, <2>2 DEF Promised
<1>2. ASSUME NEW f \in Frames(t), Promised(f) PROVE t \in Makers
  <2>1. ~Idle(t)
    BY FramesNow DEF ObjInv, Types
  <2>2. f[2].at \in Making
    BY <1>2 DEF Promised, Making
  <2>3. f = Top(t) /\ Top(t)[2] = Doing(t)
    BY <2>1, <2>2, BelowTop, TopIs
  <2>4. QED
    BY <1>2, <2>1, <2>3 DEF Promised, Makers, At, Doing
<1>3. QED
  BY <1>1, <1>2

LEMMA MakersAreNext == ObjInv' => MakersPromised'
BY MakersAre, PTL

LEMMA MakersStay ==
    ASSUME ObjInv, ObjInv', NEW t \in Threads, NEW gone, NEW new, Becomes(t, gone, new),
           (\E f \in gone : Promised(f)) <=> (\E f \in new : Promised(f))
    PROVE  Makers' = Makers
<1>1. \A u \in Threads : u \in Makers <=> \E f \in Frames(u) : Promised(f)
  BY MakersAre DEF MakersPromised
<1>2. \A u \in Threads : u \in Makers' <=> \E f \in Frames(u)' : Promised(f)
  BY MakersAreNext DEF MakersPromised, Promised
<1>3. ASSUME NEW u \in Threads PROVE u \in Makers <=> u \in Makers'
  <2>1. CASE u = t
    <3>1. \A f : f \in Frames(t)' <=> (f \in Frames(t) /\ f \notin gone) \/ f \in new
      BY DEF Becomes
    <3>2. \A f \in gone : f \in Frames(t)
      BY DEF Becomes
    <3>3. QED
      BY <1>1, <1>2, <2>1, <3>1, <3>2
  <2>2. CASE u # t
    <3>1. Frames(u)' = Frames(u)
      BY <2>2 DEF Becomes
    <3>2. QED
      BY <1>1, <1>2, <3>1
  <2>3. QED
    BY <2>1, <2>2
<1>4. Makers \subseteq Threads /\ Makers' \subseteq Threads
  BY DEF Makers
<1>5. QED
  BY <1>3, <1>4

-----------------------------------------------------------------------------
(* One lemma for each action.                                              *)
LEMMA CopyKeeps ==
    ASSUME ObjInv, NEW t \in Threads, NEW v \in Vars, NEW u \in Threads, NEW w \in Vars, Copy(t, v, u, w)
    PROVE  ObjInv' /\ Makers' = Makers
<1> DEFINE x0 == ptr[t][v]
<1>1. /\ x0 \in Slots /\ x0 \in built /\ refs[x0] \in Nat \ {0}
      /\ \A z \in Threads : \A f \in Frames(z) : Holds(f) => f[2].obj # x0
  BY PointedTo DEF Copy
<1>2. /\ ptr[u][w] = Null /\ ptr' = [ptr EXCEPT ![u][w] = x0]
      /\ refs' = [refs EXCEPT ![x0] = @ + 1] /\ x0 # Null
      /\ UNCHANGED <<member, pool, built, calls>>
  BY DEF Copy, Set, AddRef
<1> HIDE DEF x0
<1>3. Types
  BY DEF ObjInv
<1>4. Types'
  BY <1>1, <1>2, <1>3 DEF Types
<1>5. Becomes(u, {}, {}) /\ Frames(u) = {}
  BY <1>2, <1>3, Uncalled, FramesNow DEF Types, Copy
<1>6. /\ \A z \in Threads, y \in Vars : ptr'[z][y] = IF z = u /\ y = w THEN x0 ELSE ptr[z][y]
      /\ \A z \in Slots : refs'[z] = IF z = x0 THEN refs[z] + 1 ELSE refs[z]
      /\ \A z \in Threads \ {u} : ptr'[z] = ptr[z]
  BY <1>2, <1>3 DEF Types
<1>7. FramesOK'
  <2>1. \A z \in Threads : \A f \in Frames(z) :
            Holds(f) => f[2].obj \in built' /\ refs'[f[2].obj] = 0
    BY <1>1, <1>2, <1>3, <1>6 DEF ObjInv, FramesOK, FrameOK, Types
  <2>2. QED
    BY <1>2, <1>5, <1>6, <2>1, FramesStay
<1>8. HeldOnce'
  BY <1>5, HeldStays
<1>9. BlankMembers'
  BY <1>2 DEF ObjInv, BlankMembers
<1>10. ASSUME NEW x \in Slots PROVE CountedNext(x)
  <2>1. CASE x = x0
    <3>1. IsTag(Variable(u, w)) /\ Variable(u, w) \notin Owners(x)
      BY <1>1, <1>2, <2>1, OwnersTagged, TagsDiffer DEF IsTag, OwnersByTag
    <3>2. Count(x)' = Count(x) + 1
      BY <1>1, <1>2, <1>6, <2>1 DEF Count
    <3>3. QED
      BY <1>2, <1>5, <1>6, <2>1, <3>1, <3>2, OwnerComes, TagsDiffer
  <2>2. CASE x # x0
    <3>1. Count(x)' = Count(x)
      BY <1>2, <1>6, <2>2 DEF Count
    <3>2. QED
      BY <1>2, <1>5, <1>6, <2>2, <3>1, OwnersStay, ObjectsAssumption
  <2>3. QED
    BY <2>1, <2>2
<1>11. ObjInv'
  BY <1>4, <1>7, <1>8, <1>9, <1>10, AllCounted DEF ObjInv
<1>12. QED
  BY <1>11, <1>5, MakersStay DEF Promised

(* A release of x at depth d of a stack.                                   *)
Sub(d, x) == <<d, [at |-> "sub", obj |-> x]>>

LEMMA SubIs ==
    /\ \A d, x : ~Holds(Sub(d, x)) /\ Sub(d, x)[2].at = "sub"
    /\ \A d, x, y : Releases(Sub(d, x), y) <=> x = y
    /\ \A t, d, x : FrameOK(t, Sub(d, x))
    /\ \A t, d, x : Sub(d, x)[1] = d
BY DEF Sub, Holds, Holding, Releases, FrameOK, Making

LEMMA SubIsNext == \A t, d, x : FrameOK(t, Sub(d, x))'
BY DEF Sub, Holds, Holding, FrameOK, Making

LEMMA ReleaseBegins ==
    ASSUME calls \in [Threads -> Seq(Frame)], NEW t \in Threads, Idle(t), NEW x \in Slots \cup {Null},
           calls' = [calls EXCEPT ![t] = Released(x)]
    PROVE  /\ Frames(t) = {}
           /\ x # Null => Becomes(t, {}, {Sub(0, x)})
           /\ x = Null => Becomes(t, {}, {})
<1>1. CASE x = Null
  <2>1. Released(x) = << >> /\ << >> \in Seq(Frame)
    BY <1>1 DEF Released
  <2>2. QED
    BY <1>1, <2>1, FramesBegin, FramesOfNone
<1>2. CASE x # Null
  <2> DEFINE c == [at |-> "sub", obj |-> x]
  <2>1. Released(x) = <<c>>
    BY <1>2 DEF Released
  <2>2. c \in Frame
    BY <1>2, FramesMade
  <2>3. Sub(0, x) = <<0, c>>
    BY DEF Sub
  <2> HIDE DEF c
  <2>4. Released(x) \in Seq(Frame)
    BY <2>1, <2>2
  <2>5. Becomes(t, {}, FramesOf(Released(x))) /\ Frames(t) = {}
    BY <2>4, FramesBegin
  <2>6. FramesOf(Released(x)) = {Sub(0, x)}
    BY <2>1, <2>3, FramesOfOne
  <2>7. QED
    BY <1>2, <2>5, <2>6
<1>3. QED
  BY <1>1, <1>2

LEMMA DropKeeps ==
    ASSUME ObjInv, NEW t \in Threads, NEW v \in Vars, Drop(t, v)
    PROVE  ObjInv' /\ Makers' = Makers
<1> DEFINE x0 == ptr[t][v]
<1>1. /\ x0 \in Slots /\ x0 # Null
      /\ Variable(t, v) \in Owners(x0)
  BY PointedTo DEF Drop
<1>2. /\ ptr' = [ptr EXCEPT ![t][v] = Null]
      /\ calls' = [calls EXCEPT ![t] = Released(x0)] /\ Idle(t)
      /\ UNCHANGED <<member, refs, pool, built>>
  BY DEF Drop, Set
<1>3. PICK r : r = Sub(0, x0) /\ x0 = ptr[t][v]
  OBVIOUS
<1> HIDE DEF x0
<1>4. Types
  BY DEF ObjInv
<1>5. Becomes(t, {}, {r}) /\ Frames(t) = {}
  BY <1>1, <1>2, <1>3, <1>4, ReleaseBegins DEF Types
<1>6. Types'
  BY <1>2, <1>4, <1>5 DEF Types, Becomes
<1>7. /\ \A z \in Threads, y \in Vars : ptr'[z][y] = IF z = t /\ y = v THEN Null ELSE ptr[z][y]
      /\ \A z \in Threads \ {t} : ptr'[z] = ptr[z]
  BY <1>2, <1>4 DEF Types
<1>8. FramesOK'
  <2>1. \A z \in Threads : \A f \in Frames(z) :
            Holds(f) => f[2].obj \in built' /\ refs'[f[2].obj] = 0
    BY <1>2 DEF ObjInv, FramesOK, FrameOK
  <2>2. \A f \in {r} : FrameOK(t, f)'
    BY <1>3, SubIsNext
  <2>3. QED
    BY <1>2, <1>5, <1>7, <2>1, <2>2, FramesStay
<1>9. HeldOnce'
  BY <1>3, <1>5, HeldStays, SubIs
<1>10. BlankMembers'
  BY <1>2 DEF ObjInv, BlankMembers
<1>11. ASSUME NEW x \in Slots PROVE CountedNext(x)
  <2>0. Count(x)' = Count(x)
    BY <1>2 DEF Count
  <2>1. CASE x = x0
    <3>1. IsTag(Release(t, r)) /\ Release(t, r) \notin Owners(x)
      BY <1>5, OwnersTagged DEF IsTag, OwnersByTag
    <3>2. Releases(r, x)
      BY <1>3, <2>1, SubIs
    <3>3. QED
      BY <1>1, <1>2, <1>3, <1>5, <1>7, <2>0, <2>1, <3>1, <3>2, OwnerSwapped, TagsDiffer, ObjectsAssumption
  <2>2. CASE x # x0
    <3>1. ~Releases(r, x)
      BY <1>3, <2>2, SubIs
    <3>2. QED
      BY <1>2, <1>3, <1>5, <1>7, <2>0, <2>2, <3>1, OwnersStay, ObjectsAssumption
  <2>3. QED
    BY <2>1, <2>2
<1>12. ObjInv'
  BY <1>6, <1>8, <1>9, <1>10, <1>11, AllCounted DEF ObjInv
<1>13. QED
  BY <1>12, <1>3, <1>5, SubIs, MakersStay DEF Promised

LEMMA TwoCalls == ASSUME NEW S, NEW c \in S, NEW d \in S PROVE <<c>> \o <<d>> = <<c, d>>
<1>1. /\ <<c>> \in Seq(S) /\ <<d>> \in Seq(S) /\ <<c, d>> \in Seq(S)
      /\ Len(<<c>>) = 1 /\ Len(<<d>>) = 1 /\ Len(<<c, d>>) = 2
      /\ <<c>>[1] = c /\ <<d>>[1] = d /\ <<c, d>>[1] = c /\ <<c, d>>[2] = d
  OBVIOUS
<1> DEFINE p == <<c>>
           q == <<d>>
           r == <<c, d>>
<1> HIDE DEF p, q, r
<1>2. /\ p \o q \in Seq(S) /\ Len(p \o q) = 1 + 1
      /\ \A i \in 1 .. 1 + 1 : (p \o q)[i] = IF i <= 1 THEN p[i] ELSE q[i - 1]
  BY <1>1, ConcatProperties DEF p, q
<1>3. r \in Seq(S) /\ Len(r) = 2 /\ r[1] = c /\ r[2] = d /\ p[1] = c /\ q[1] = d
  BY <1>1 DEF p, q, r
<1>4. Len(p \o q) = Len(r) /\ \A i \in 1 .. Len(p \o q) : (p \o q)[i] = r[i]
  BY <1>2, <1>3
<1>5. p \o q = r
  <2>1. p \o q \in Seq(S) /\ r \in Seq(S)
    BY <1>2, <1>3
  <2>2. QED
    BY <1>4, <2>1, SeqEqual
<1>6. QED
  BY <1>5 DEF p, q, r

LEMMA AssignKeeps ==
    ASSUME ObjInv, NEW t \in Threads, NEW v \in Vars, Assign(t, v)
    PROVE  ObjInv' /\ Makers' = Makers
<1> DEFINE x0 == ptr[t][v]
<1>1. PICK x1 \in Sources(t, v) : AddRef(x1) /\ Set(t, v, x1)
  BY DEF Assign
<1>2. PICK r : r = Sub(0, x0)
  OBVIOUS
<1>3. PICK new : new = IF x0 = Null THEN {} ELSE {r}
  OBVIOUS
<1>4. Types
  BY DEF ObjInv
<1>5. x0 \in Slots \cup {Null} /\ x1 \in Slots \cup {Null}
  BY <1>1, <1>4 DEF Types, Sources
<1>6. x1 # Null =>
          /\ x1 \in Slots /\ x1 \in built /\ refs[x1] \in Nat \ {0}
          /\ \A z \in Threads : \A f \in Frames(z) : Holds(f) => f[2].obj # x1
  <2>1. CASE \E w \in Vars \ {v} : x1 = ptr[t][w]
    BY <2>1, PointedTo
  <2>2. CASE x0 # Null /\ x1 = member[x0]
    <3>1. x0 \in built
      BY <2>2, PointedTo
    <3>2. QED
      BY <2>2, <3>1, MemberTo
  <2>3. QED
    BY <1>1, <2>1, <2>2 DEF Sources
<1>7. /\ ptr' = [ptr EXCEPT ![t][v] = x1]
      /\ calls' = [calls EXCEPT ![t] = Released(x0)] /\ Idle(t)
      /\ refs' = IF x1 = Null THEN refs ELSE [refs EXCEPT ![x1] = @ + 1]
      /\ UNCHANGED <<member, pool, built>>
  BY <1>1 DEF Assign, Set, AddRef
<1>8. x0 = ptr[t][v] /\ (x0 # Null => Variable(t, v) \in Owners(x0))
  BY PointedTo
<1> HIDE DEF x0
<1>9. Becomes(t, {}, new) /\ Frames(t) = {}
  BY <1>2, <1>3, <1>4, <1>5, <1>7, ReleaseBegins DEF Types
<1>10. Types'
  BY <1>4, <1>5, <1>7, <1>9 DEF Types, Becomes
<1>11. /\ \A z \in Threads, y \in Vars : ptr'[z][y] = IF z = t /\ y = v THEN x1 ELSE ptr[z][y]
       /\ \A z \in Threads \ {t} : ptr'[z] = ptr[z]
       /\ \A z \in Slots : refs'[z] = IF z = x1 THEN refs[z] + 1 ELSE refs[z]
  BY <1>4, <1>7, ObjectsAssumption DEF Types
<1>12. FramesOK'
  <2>1. \A z \in Threads : \A f \in Frames(z) :
            Holds(f) => f[2].obj \in built' /\ refs'[f[2].obj] = 0
    BY <1>4, <1>6, <1>7, <1>11 DEF ObjInv, FramesOK, FrameOK, Types
  <2>2. \A f \in new : FrameOK(t, f)'
    BY <1>2, <1>3, SubIsNext
  <2>3. QED
    BY <1>7, <1>9, <1>11, <2>1, <2>2, FramesStay
<1>13. HeldOnce'
  BY <1>2, <1>3, <1>9, HeldStays, SubIs
<1>14. BlankMembers'
  BY <1>7 DEF ObjInv, BlankMembers
<1>15. ASSUME NEW x \in Slots PROVE CountedNext(x)
  <2>1. Count(x)' = IF x = x1 THEN Count(x) + 1 ELSE Count(x)
    BY <1>4, <1>6, <1>7, <1>11 DEF Count, Types
  <2>2. /\ IsTag(Release(t, r)) /\ Release(t, r) \notin Owners(x) /\ IsTag(Variable(t, v))
        /\ Variable(t, v) \in Owners(x) <=> x = x0
    BY <1>8, <1>9, OwnersTagged DEF IsTag, OwnersByTag
  <2>3. /\ \A f \in new : f = r /\ (Releases(f, x) <=> x = x0)
        /\ x = x0 => r \in new /\ Releases(r, x)
    BY <1>2, <1>3, SubIs, ObjectsAssumption
  <2>4. CASE x = x0 /\ x = x1
    <3>1. \A u \in Threads, y \in Vars : ptr'[u][y] = x <=> ptr[u][y] = x \/ Variable(u, y) = Release(t, r)
      <4>1. \A u \in Threads, y \in Vars : ptr'[u][y] = x <=> ptr[u][y] = x
        BY <1>8, <1>11, <2>4
      <4>2. QED
        BY <4>1, TagsDiffer
    <3>2. \A y : y \in built' /\ member'[y] = x <=> (y \in built /\ member[y] = x) \/ Member(y) = Release(t, r)
      BY <1>7, TagsDiffer
    <3>3. \A f \in new : Releases(f, x) => Release(t, f) = Release(t, r)
      BY <2>3
    <3>4. \A u \in Threads : \A f : Release(u, f) = Release(t, r) => u = t /\ f \in new /\ Releases(f, x)
      BY <2>3, <2>4, TagsDiffer
    <3>5. Count(x)' = Count(x) + 1
      BY <2>1, <2>4
    <3>6. QED
      BY <1>9, <2>2, <3>1, <3>2, <3>3, <3>4, <3>5, OwnerComes
  <2>5. CASE x = x0 /\ x # x1
    BY <1>7, <1>8, <1>9, <1>11, <2>1, <2>2, <2>3, <2>5, OwnerSwapped, TagsDiffer
  <2>6. CASE x # x0 /\ x = x1
    BY <1>7, <1>8, <1>9, <1>11, <2>1, <2>2, <2>3, <2>6, OwnerComes, TagsDiffer
  <2>7. CASE x # x0 /\ x # x1
    BY <1>7, <1>8, <1>9, <1>11, <2>1, <2>2, <2>3, <2>7, OwnersStay, TagsDiffer
  <2>8. QED
    BY <2>4, <2>5, <2>6, <2>7
<1>16. ObjInv'
  BY <1>10, <1>12, <1>13, <1>14, <1>15, AllCounted DEF ObjInv
<1>17. QED
  BY <1>16, <1>2, <1>3, <1>9, SubIs, MakersStay DEF Promised

LEMMA MoveAssignKeeps ==
    ASSUME ObjInv, NEW t \in Threads, NEW v \in Vars, MoveAssign(t, v)
    PROVE  ObjInv' /\ Makers' = Makers
<1> DEFINE x0 == ptr[t][v]
           Want(from) == IF from.obj = Null THEN ptr[t][from.var] ELSE member[from.obj]
           Move(from) == [at |-> "take", to |-> v, from |-> from, want |-> Want(from)]
<1>1. /\ x0 \in Slots /\ x0 # Null /\ x0 \in built
      /\ Variable(t, v) \in Owners(x0)
  BY PointedTo DEF MoveAssign
<1>2. PICK from \in [var : Vars \ {v}, obj : {Null}]
                    \cup (IF MovesFromMember THEN [var : {v}, obj : {x0}] ELSE {}) :
          calls' = [calls EXCEPT ![t] = Released(x0) \o <<Move(from)>>]
  BY DEF MoveAssign
<1>3. PICK m : m = Move(from)
  OBVIOUS
<1>4. PICK c : c = [at |-> "sub", obj |-> x0]
  OBVIOUS
<1>5. Types
  BY DEF ObjInv
<1>6. /\ m.at = "take" /\ m.to = v /\ m.from = from
      /\ m.from.obj = Null => m.from.var \in Vars \ {v} /\ m.want = ptr[t][m.from.var]
      /\ m.from.obj # Null => MovesFromMember
      /\ m \in Frame /\ c \in Frame
  <2>1. /\ from \in [var : Vars, obj : Slots \cup {Null}]
        /\ from.obj = Null => from.var \in Vars \ {v}
        /\ from.obj # Null => MovesFromMember
    BY <1>1, <1>2
  <2>2. Want(from) \in Slots \cup {Null}
    BY <1>5, <2>1 DEF Types
  <2>3. m \in Frame
    BY <1>3, <2>1, <2>2 DEF Frame
  <2>4. c \in Frame
    BY <1>1, <1>4, FramesMade
  <2>5. QED
    BY <1>3, <2>1, <2>3, <2>4
<1>7. /\ ptr' = [ptr EXCEPT ![t][v] = Null] /\ Idle(t)
      /\ calls' = [calls EXCEPT ![t] = <<c, m>>]
      /\ UNCHANGED <<member, refs, pool, built>>
  <2>1. Released(x0) = <<c>>
    BY <1>1, <1>4 DEF Released
  <2>2. <<c>> \o <<m>> = <<c, m>>
    BY <1>6, TwoCalls
  <2>3. QED
    BY <1>2, <1>3, <2>1, <2>2 DEF MoveAssign, Set
<1>8. x0 = ptr[t][v]
  OBVIOUS
<1> HIDE DEF x0, Want, Move
<1>9. PICK r, k : r = Sub(1, x0) /\ k = <<0, m>>
  OBVIOUS
<1>10. Becomes(t, {}, {r, k}) /\ Frames(t) = {}
  <2>1. <<c, m>> \in Seq(Frame)
    BY <1>6
  <2>2. FramesOf(<<c, m>>) = {r, k}
    BY <1>4, <1>9, FramesOfTwo DEF Sub
  <2>3. calls \in [Threads -> Seq(Frame)]
    BY <1>5 DEF Types
  <2>4. PICK s : s = <<c, m>>
    OBVIOUS
  <2>5. Becomes(t, {}, FramesOf(s)) /\ Frames(t) = {}
    BY <1>7, <2>1, <2>3, <2>4, FramesBegin
  <2>6. QED
    BY <2>2, <2>4, <2>5
<1>11. Types'
  BY <1>5, <1>7, <1>10 DEF Types, Becomes
<1>12. /\ \A z \in Threads, y \in Vars : ptr'[z][y] = IF z = t /\ y = v THEN Null ELSE ptr[z][y]
       /\ \A z \in Threads \ {t} : ptr'[z] = ptr[z]
  BY <1>5, <1>7 DEF Types
<1>13. ~Holds(k) /\ k[1] = 0 /\ k[2] = m /\ \A x : ~Releases(k, x)
  BY <1>6, <1>9 DEF Holds, Holding, Releases
<1>14. FramesOK'
  <2>1. \A z \in Threads : \A f \in Frames(z) :
            Holds(f) => f[2].obj \in built' /\ refs'[f[2].obj] = 0
    BY <1>7 DEF ObjInv, FramesOK, FrameOK
  <2>2. FrameOK(t, k)'
    BY <1>6, <1>12, <1>13 DEF FrameOK, Holds, Making
  <2>3. \A f \in {r, k} : FrameOK(t, f)'
    BY <1>9, <2>2, SubIsNext
  <2>4. QED
    BY <1>7, <1>10, <1>12, <2>1, <2>3, FramesStay
<1>15. HeldOnce'
  BY <1>9, <1>10, <1>13, HeldStays, SubIs
<1>16. BlankMembers'
  BY <1>7 DEF ObjInv, BlankMembers
<1>17. ASSUME NEW x \in Slots PROVE CountedNext(x)
  <2>0. Count(x)' = Count(x)
    BY <1>7 DEF Count
  <2>1. CASE x = x0
    <3>1. IsTag(Release(t, r)) /\ Release(t, r) \notin Owners(x)
      BY <1>10, OwnersTagged DEF IsTag, OwnersByTag
    <3>2. Releases(r, x)
      BY <1>9, <2>1, SubIs
    <3>3. QED
      BY <1>1, <1>7, <1>8, <1>10, <1>12, <1>13, <2>0, <2>1, <3>1, <3>2, OwnerSwapped, TagsDiffer,
         ObjectsAssumption
  <2>2. CASE x # x0
    <3>1. ~Releases(r, x)
      BY <1>9, <2>2, SubIs
    <3>2. QED
      BY <1>7, <1>8, <1>10, <1>12, <1>13, <2>0, <2>2, <3>1, OwnersStay, ObjectsAssumption
  <2>3. QED
    BY <2>1, <2>2
<1>18. ObjInv'
  BY <1>11, <1>14, <1>15, <1>16, <1>17, AllCounted DEF ObjInv
<1>19. QED
  BY <1>18, <1>6, <1>9, <1>10, <1>13, SubIs, MakersStay DEF Promised

LEMMA MakeKeeps ==
    ASSUME ObjInv, NEW t \in Threads, NEW v \in Vars, NEW w \in Vars, Make(t, v, w)
    PROVE  ObjInv' /\ Makers' = Makers \cup {t} /\ t \notin Makers
<1>1. PICK c : c = [at |-> "lockToMake", for |-> v, arg |-> w]
  OBVIOUS
<1>2. PICK k : k = <<0, c>>
  OBVIOUS
<1>3. /\ Idle(t) /\ v # w /\ ptr[t][v] = Null
      /\ calls' = [calls EXCEPT ![t] = <<c>>]
      /\ UNCHANGED <<ptr, member, refs, built>>
  BY <1>1 DEF Make
<1>4. Types /\ calls \in [Threads -> Seq(Frame)]
  BY DEF ObjInv, Types
<1>5. c \in Frame /\ <<c>> \in Seq(Frame)
  BY <1>1, FramesMade
<1>6. Becomes(t, {}, {k}) /\ Frames(t) = {} /\ Len(calls'[t]) = 1
  <2>1. Becomes(t, {}, FramesOf(<<c>>)) /\ Frames(t) = {} /\ Len(calls'[t]) = Len(<<c>>)
    BY <1>3, <1>4, <1>5, FramesBegin
  <2>2. FramesOf(<<c>>) = {k} /\ Len(<<c>>) = 1
    BY <1>2, FramesOfOne
  <2>3. QED
    BY <2>1, <2>2
<1>7. Types'
  BY <1>3, <1>4, <1>6 DEF Types, Becomes
<1>8. ~Holds(k) /\ k[2] = c /\ \A x : ~Releases(k, x)
  BY <1>1, <1>2 DEF Holds, Holding, Releases
<1>9. FramesOK'
  <2>1. \A z \in Threads : \A f \in Frames(z) :
            Holds(f) => f[2].obj \in built' /\ refs'[f[2].obj] = 0
    BY <1>3 DEF ObjInv, FramesOK, FrameOK
  <2>2. FrameOK(t, k)'
    BY <1>1, <1>3, <1>6, <1>8 DEF FrameOK, Holds, Making
  <2>3. QED
    BY <1>3, <1>6, <2>1, <2>2, FramesStay
<1>10. HeldOnce'
  BY <1>6, <1>8, HeldStays
<1>11. BlankMembers'
  BY <1>3 DEF ObjInv, BlankMembers
<1>12. ASSUME NEW x \in Slots PROVE CountedNext(x)
  <2>1. Count(x)' = Count(x)
    BY <1>3 DEF Count
  <2>2. QED
    BY <1>3, <1>6, <1>8, <2>1, OwnersStay
<1>13. Makers' = Makers \cup {t} /\ t \notin Makers
  <2>1. \A u \in Threads \ {t} : calls'[u] = calls[u]
    BY <1>6 DEF Becomes
  <2>2. t \notin Makers
    BY <1>3 DEF Makers, At
  <2>3. calls'[t] = <<c>> /\ c.at = "lockToMake"
    BY <1>1, <1>3, <1>4
  <2>4. calls'[t] # << >> /\ Head(calls'[t]).at = "lockToMake"
    BY <2>3
  <2>5. QED
    BY <2>1, <2>2, <2>4 DEF Makers, At, Idle
<1>14. QED
  BY <1>7, <1>9, <1>10, <1>11, <1>12, <1>13, AllCounted DEF ObjInv

(* The innermost call goes on to another label.                            *)
LEMMA RelabelKeeps ==
    ASSUME ObjInv, NEW t \in Threads, ~Idle(t), NEW c \in Frame, GoOn(t, <<c>>),
           UNCHANGED <<ptr, member, refs, built>>,
           c.at \in {"lockToMake", "make"} <=> Doing(t).at \in {"lockToMake", "make"},
           c.at # "sub", Doing(t).at # "sub", c.at # "free", c.at # "take",
           c.at \in Holding => Doing(t).at \in Holding /\ Doing(t).obj = c.obj,
           c.at \in Making => /\ Doing(t).at \in Making /\ Doing(t).for = c.for
                              /\ c.at \in {"lockToMake", "make"} => c.arg # c.for
    PROVE  ObjInv' /\ Makers' = Makers
<1>1. PICK k : k = <<Len(calls[t]) - 1, c>>
  OBVIOUS
<1>2. PICK h : h = Top(t)
  OBVIOUS
<1>3. /\ h \in Frames(t) /\ FrameOK(t, h) /\ h[2] = Doing(t)
      /\ Types /\ calls \in [Threads -> Seq(Frame)]
  BY <1>2, TopIs DEF ObjInv
<1>4. Becomes(t, {h}, {k}) /\ Len(calls'[t]) = Len(calls[t])
  BY <1>1, <1>2, <1>3, FramesOne
<1>5. Types'
  BY <1>3, <1>4 DEF Types, Becomes
<1>6. /\ k[2] = c /\ \A x : ~Releases(k, x) /\ ~Releases(h, x)
      /\ Holds(k) => Holds(h) /\ h[2].obj = k[2].obj
  BY <1>1, <1>3 DEF Holds, Releases
<1>7. FramesOK'
  <2>1. \A z \in Threads : \A f \in Frames(z) :
            Holds(f) => f[2].obj \in built' /\ refs'[f[2].obj] = 0
    BY DEF ObjInv, FramesOK, FrameOK
  <2>2. FrameOK(t, k)'
    <3>1. c.at \in Holding => c.obj \in built' /\ refs'[c.obj] = 0
      BY <1>3 DEF FrameOK, Holds
    <3>2. c.at \in Making => Len(calls'[t]) = 1 /\ ptr'[t][c.for] = Null
      BY <1>3, <1>4 DEF FrameOK
    <3>3. c.at \in {"lockToMake", "make"} => c.arg # c.for
      BY DEF Making
    <3>4. QED
      BY <1>6, <3>1, <3>2, <3>3 DEF FrameOK, Holds
  <2>3. \A f \in Frames(t) \ {h} : f[2].at \notin Making
    BY <1>2, BelowTop
  <2>4. QED
    BY <1>4, <2>1, <2>2, <2>3, FramesStay
<1>8. HeldOnce'
  <2>1. Holds(k) => \A u \in Threads : \A g \in Frames(u) :
            Holds(g) /\ ~(u = t /\ g \in {h}) => g[2].obj # k[2].obj
    BY <1>3, <1>6 DEF ObjInv, HeldOnce
  <2>2. QED
    BY <1>4, <2>1, HeldStays
<1>9. BlankMembers'
  BY DEF ObjInv, BlankMembers
<1>10. ASSUME NEW x \in Slots PROVE CountedNext(x)
  <2>1. Count(x)' = Count(x)
    BY DEF Count
  <2>2. QED
    BY <1>4, <1>6, <2>1, OwnersStay
<1>11. ObjInv'
  BY <1>5, <1>7, <1>8, <1>9, <1>10, AllCounted DEF ObjInv
<1>12. QED
  BY <1>11, <1>3, <1>4, <1>6, MakersStay DEF Promised

LEMMA LockKeeps ==
    ASSUME ObjInv, NEW t \in Threads, Lock(t)
    PROVE  ObjInv' /\ Makers' = Makers
<1>1. PICK c : c = [Doing(t) EXCEPT !.at = IF @ = "lockToMake" THEN "make" ELSE "destroy"]
  OBVIOUS
<1>2. /\ ~Idle(t) /\ Doing(t).at \in {"lockToMake", "lockToFree"} /\ GoOn(t, <<c>>)
      /\ UNCHANGED <<ptr, member, refs, built>>
  BY <1>1 DEF Lock, At, Doing
<1>3. Doing(t) \in Frame /\ FrameOK(t, Top(t)) /\ Top(t)[2] = Doing(t)
  BY <1>2, TopIs
<1>4. CASE Doing(t).at = "lockToMake"
  <2>1. c = [Doing(t) EXCEPT !.at = "make"] /\ c \in Frame
    BY <1>1, <1>3, <1>4, FramesMade
  <2>2. c.at = "make" /\ c.for = Doing(t).for /\ c.arg = Doing(t).arg
    BY <1>3, <1>4, <2>1 DEF Frame
  <2>3. QED
    BY <1>2, <1>3, <1>4, <2>1, <2>2, RelabelKeeps DEF FrameOK, Making, Holding
<1>5. CASE Doing(t).at = "lockToFree"
  <2>1. c = [Doing(t) EXCEPT !.at = "destroy"] /\ c \in Frame
    BY <1>1, <1>3, <1>5, FramesMade
  <2>2. c.at = "destroy" /\ c.obj = Doing(t).obj
    BY <1>3, <1>5, <2>1 DEF Frame
  <2>3. QED
    BY <1>2, <1>3, <1>5, <2>1, <2>2, RelabelKeeps DEF Making, Holding
<1>6. QED
  BY <1>2, <1>4, <1>5

LEMMA OwnKeeps ==
    ASSUME ObjInv, NEW t \in Threads, Own(t)
    PROVE  ObjInv' /\ Makers' = Makers
<1>1. PICK c \in Frame : c = Doing(t)
  BY TopIs DEF Own, At
<1>2. PICK h : h = Top(t)
  OBVIOUS
<1>3. /\ ~Idle(t) /\ c.at = "own" /\ GoOn(t, << >>)
      /\ refs' = [refs EXCEPT ![c.obj] = 1] /\ ptr' = [ptr EXCEPT ![t][c.for] = c.obj]
      /\ UNCHANGED <<member, built>>
  BY <1>1 DEF Own, At, Doing, Set
<1>4. /\ h \in Frames(t) /\ FrameOK(t, h) /\ h[2] = c
      /\ Types /\ calls \in [Threads -> Seq(Frame)]
  BY <1>1, <1>2, <1>3, TopIs DEF ObjInv
<1>5. c.obj \in Slots /\ c.for \in Vars
  BY <1>3, FrameFields DEF Making
<1>6. /\ c.obj \in built /\ refs[c.obj] = 0 /\ ptr[t][c.for] = Null /\ Holds(h)
      /\ Len(calls[t]) = 1 /\ \A x : ~Releases(h, x)
  BY <1>3, <1>4 DEF FrameOK, Holds, Holding, Making, Releases
<1>7. Becomes(t, {h}, {}) /\ Frames(t) = {h}
  BY <1>2, <1>3, <1>4, <1>6, FramesPop, OnlyTop
<1>8. /\ \A z \in Threads, y \in Vars : ptr'[z][y] = IF z = t /\ y = c.for THEN c.obj ELSE ptr[z][y]
      /\ \A z \in Threads \ {t} : ptr'[z] = ptr[z]
      /\ \A z \in Slots : refs'[z] = IF z = c.obj THEN 1 ELSE refs[z]
  BY <1>3, <1>4, <1>5 DEF Types
<1>9. Types'
  BY <1>3, <1>4, <1>5, <1>7 DEF Types, Becomes
<1>10. FramesOK'
  <2>1. \A z \in Threads : \A f \in Frames(z) :
            Holds(f) /\ ~(z = t /\ f \in {h}) => f[2].obj \in built' /\ refs'[f[2].obj] = 0
    BY <1>3, <1>4, <1>6, <1>8 DEF ObjInv, FramesOK, FrameOK, HeldOnce, Types
  <2>2. QED
    BY <1>3, <1>7, <1>8, <2>1, FramesStay
<1>11. HeldOnce'
  BY <1>7, HeldStays
<1>12. BlankMembers'
  BY <1>3 DEF ObjInv, BlankMembers
<1>13. ASSUME NEW x \in Slots PROVE CountedNext(x)
  <2>1. CASE x = c.obj
    <3>1. IsTag(Variable(t, c.for)) /\ Variable(t, c.for) \notin Owners(x)
      BY <1>5, <1>6, <2>1, OwnersTagged, ObjectsAssumption DEF IsTag, OwnersByTag
    <3>2. Count(x)' = Count(x) + 1
      BY <1>3, <1>6, <1>8, <2>1 DEF Count
    <3>3. QED
      BY <1>3, <1>6, <1>7, <1>8, <2>1, <3>1, <3>2, OwnerComes, TagsDiffer
  <2>2. CASE x # c.obj
    <3>1. Count(x)' = Count(x)
      BY <1>3, <1>8, <2>2 DEF Count
    <3>2. QED
      BY <1>3, <1>6, <1>7, <1>8, <2>2, <3>1, OwnersStay, ObjectsAssumption
  <2>3. QED
    BY <2>1, <2>2
<1>14. ObjInv'
  BY <1>9, <1>10, <1>11, <1>12, <1>13, AllCounted DEF ObjInv
<1>15. QED
  BY <1>14, <1>3, <1>4, <1>7, MakersStay DEF Promised

LEMMA SubtractKeeps ==
    ASSUME ObjInv, NEW t \in Threads, Subtract(t)
    PROVE  ObjInv' /\ Makers' = Makers
<1>1. PICK c \in Frame : c = Doing(t)
  BY TopIs DEF Subtract, At
<1>2. PICK h : h = Top(t)
  OBVIOUS
<1>3. PICK k : k = <<Len(calls[t]) - 1, [at |-> "reset", obj |-> c.obj]>>
  OBVIOUS
<1>4. PICK new : new = IF refs[c.obj] = 1 THEN {k} ELSE {}
  OBVIOUS
<1>5. /\ ~Idle(t) /\ c.at = "sub"
      /\ GoOn(t, IF refs[c.obj] = 1 THEN <<[at |-> "reset", obj |-> c.obj]>> ELSE << >>)
      /\ refs' = [refs EXCEPT ![c.obj] = @ - 1]
      /\ UNCHANGED <<ptr, member, built>>
  BY <1>1 DEF Subtract, At, Doing
<1>6. /\ h \in Frames(t) /\ h[2] = c
      /\ Types /\ calls \in [Threads -> Seq(Frame)]
  BY <1>1, <1>2, <1>5, TopIs DEF ObjInv
<1>7. c.obj \in Slots /\ ~Holds(h) /\ \A x : Releases(h, x) <=> x = c.obj
  BY <1>5, <1>6, FrameFields DEF Holds, Holding, Releases
<1>8. /\ Release(t, h) \in Owners(c.obj)
      /\ c.obj \in built /\ refs[c.obj] \in Nat \ {0}
      /\ \A z \in Threads : \A f \in Frames(z) : Holds(f) => f[2].obj # c.obj
  <2>1. Release(t, h) \in Owners(c.obj)
    BY <1>6, <1>7, OwnersTagged DEF OwnersByTag
  <2>2. QED
    BY <1>7, <2>1, Owned
<1>9. /\ k[2].at = "reset" /\ k[2].obj = c.obj /\ \A x : ~Releases(k, x)
  BY <1>3 DEF Releases
<1>10. Becomes(t, {h}, new)
  <2>1. CASE refs[c.obj] = 1
    <3>1. [at |-> "reset", obj |-> c.obj] \in Frame
      BY <1>7, FramesMade
    <3>2. QED
      BY <1>2, <1>3, <1>4, <1>5, <1>6, <2>1, <3>1, FramesOne
  <2>2. CASE refs[c.obj] # 1
    BY <1>2, <1>4, <1>5, <1>6, <2>2, FramesPop
  <2>3. QED
    BY <2>1, <2>2
<1>11. \A z \in Slots : refs'[z] = IF z = c.obj THEN refs[z] - 1 ELSE refs[z]
  BY <1>5, <1>6 DEF Types
<1>12. Types'
  BY <1>5, <1>6, <1>7, <1>10 DEF Types, Becomes
<1>13. FramesOK'
  <2>1. \A z \in Threads : \A f \in Frames(z) :
            Holds(f) => f[2].obj \in built' /\ refs'[f[2].obj] = 0
    BY <1>5, <1>6, <1>8, <1>11 DEF ObjInv, FramesOK, FrameOK, Types
  <2>2. refs[c.obj] = 1 => FrameOK(t, k)'
    <3>1. refs[c.obj] = 1 => c.obj \in built' /\ refs'[c.obj] = 0
      BY <1>5, <1>7, <1>8, <1>11
    <3>2. QED
      BY <1>9, <3>1 DEF FrameOK, Holds, Making
  <2>3. \A f \in new : FrameOK(t, f)'
    BY <1>4, <2>2
  <2>4. \A f \in Frames(t) \ {h} : f[2].at \notin Making
    BY <1>2, <1>5, BelowTop
  <2>5. QED
    BY <1>5, <1>10, <2>1, <2>3, <2>4, FramesStay
<1>14. HeldOnce'
  BY <1>4, <1>8, <1>9, <1>10, HeldStays
<1>15. BlankMembers'
  BY <1>5 DEF ObjInv, BlankMembers
<1>16. ASSUME NEW x \in Slots PROVE CountedNext(x)
  <2>1. \A f \in new : ~Releases(f, x)
    BY <1>4, <1>9
  <2>2. CASE x = c.obj
    <3>1. Count(x)' = Count(x) - 1
      BY <1>5, <1>8, <1>11, <2>2 DEF Count
    <3>2. QED
      BY <1>5, <1>7, <1>8, <1>10, <2>1, <2>2, <3>1, OwnerGoes, TagsDiffer
  <2>3. CASE x # c.obj
    <3>1. Count(x)' = Count(x)
      BY <1>5, <1>11, <2>3 DEF Count
    <3>2. QED
      BY <1>5, <1>7, <1>10, <2>1, <2>3, <3>1, OwnersStay
  <2>4. QED
    BY <2>2, <2>3
<1>17. ObjInv'
  BY <1>12, <1>13, <1>14, <1>15, <1>16, AllCounted DEF ObjInv
<1>18. QED
  BY <1>17, <1>4, <1>5, <1>6, <1>9, <1>10, MakersStay DEF Promised

LEMMA DropMemberKeeps ==
    ASSUME ObjInv, NEW t \in Threads, ~Idle(t), NEW x \in Slots, NEW label, DropMember(t, x, label),
           Doing(t).obj = x,
           \/ Doing(t).at = "reset" /\ label = "lockToFree"
           \/ Doing(t).at = "destroy" /\ label = "free"
    PROVE  ObjInv' /\ Makers' = Makers
<1> DEFINE y == member[x]
<1>1. PICK c \in Frame : c = Doing(t)
  BY TopIs
<1>2. PICK h : h = Top(t)
  OBVIOUS
<1>3. PICK d : d = [at |-> label, obj |-> x]
  OBVIOUS
<1>4. PICK k : k = <<Len(calls[t]) - 1, d>>
  OBVIOUS
<1>5. PICK r : r = Sub(Len(calls[t]), y)
  OBVIOUS
<1>6. PICK new : new = IF y = Null THEN {k} ELSE {r, k}
  OBVIOUS
<1>7. /\ h \in Frames(t) /\ FrameOK(t, h) /\ h[2] = c
      /\ Types /\ calls \in [Threads -> Seq(Frame)]
  BY <1>1, <1>2, TopIs DEF ObjInv
<1>8. /\ member' = [member EXCEPT ![x] = Null]
      /\ GoOn(t, Released(y) \o <<d>>)
      /\ UNCHANGED <<ptr, refs, pool, built>>
  BY <1>3 DEF DropMember
<1>9. /\ Holds(h) /\ h[2].obj = x /\ x \in built /\ refs[x] = 0
      /\ \A z : ~Releases(h, z)
  BY <1>1, <1>7 DEF Holds, Holding, FrameOK, Releases
<1>10. y \in Slots \cup {Null} /\ y = member[x]
  BY <1>7 DEF Types
<1>11. y # Null => Member(x) \in Owners(y)
  BY <1>9, MemberTo
<1> HIDE DEF y
<1>12. d \in Frame /\ d.at = label /\ d.obj = x
  BY <1>3, FramesMade
<1>13. Becomes(t, {h}, new)
  <2>1. CASE y = Null
    <3>1. <<d>> \in Seq(Frame)
      BY <1>12
    <3>2. << >> \o <<d>> = <<d>>
      BY <3>1, ConcatEmptySeq
    <3>3. GoOn(t, <<d>>)
      BY <1>8, <2>1, <3>2 DEF Released
    <3>4. QED
      BY <1>2, <1>4, <1>6, <1>7, <1>12, <2>1, <3>3, FramesOne
  <2>2. CASE y # Null
    <3>1. PICK e \in Frame : e = [at |-> "sub", obj |-> y]
      BY <1>10, <2>2, FramesMade
    <3>2. Released(y) = <<e>>
      BY <2>2, <3>1 DEF Released
    <3>3. <<e>> \o <<d>> = <<e, d>>
      BY <1>12, TwoCalls
    <3>4. GoOn(t, <<e, d>>)
      BY <1>8, <3>2, <3>3
    <3>5. Becomes(t, {h}, {<<Len(calls[t]), e>>, k})
      BY <1>2, <1>4, <1>7, <1>12, <3>4, FramesTwo
    <3>6. QED
      BY <1>5, <1>6, <2>2, <3>1, <3>5 DEF Sub
  <2>3. QED
    BY <2>1, <2>2
<1>14. /\ k[2] = d /\ Holds(k) /\ \A z : ~Releases(k, z)
  BY <1>4, <1>12 DEF Holds, Holding, Releases
<1>15. \A z \in Slots : member'[z] = IF z = x THEN Null ELSE member[z]
  BY <1>7, <1>8 DEF Types
<1>16. Types'
  BY <1>7, <1>8, <1>13 DEF Types, Becomes
<1>17. FramesOK'
  <2>1. \A z \in Threads : \A f \in Frames(z) :
            Holds(f) => f[2].obj \in built' /\ refs'[f[2].obj] = 0
    BY <1>8 DEF ObjInv, FramesOK, FrameOK
  <2>2. FrameOK(t, k)'
    <3>1. x \in built' /\ refs'[x] = 0 /\ member'[x] = Null
      BY <1>8, <1>9, <1>15
    <3>2. QED
      BY <1>12, <1>14, <3>1 DEF FrameOK, Holds, Making
  <2>3. \A f \in new : FrameOK(t, f)'
    BY <1>5, <1>6, <2>2, SubIsNext
  <2>4. \A f \in Frames(t) \ {h} : f[2].at \notin Making
    BY <1>2, BelowTop
  <2>5. \A z \in built : member'[z] \in {member[z], Null}
    BY <1>7, <1>15 DEF Types
  <2>6. QED
    BY <1>8, <1>13, <2>1, <2>3, <2>4, <2>5, FramesStay
<1>18. HeldOnce'
  <2>1. \A u \in Threads : \A g \in Frames(u) : Holds(g) /\ ~(u = t /\ g \in {h}) => g[2].obj # k[2].obj
    BY <1>7, <1>9, <1>12, <1>14 DEF ObjInv, HeldOnce
  <2>2. \A f \in new : Holds(f) => f = k
    BY <1>5, <1>6, SubIs
  <2>3. QED
    BY <1>13, <2>1, <2>2, HeldStays
<1>19. BlankMembers'
  BY <1>7, <1>8, <1>15 DEF ObjInv, BlankMembers, Types
<1>20. ASSUME NEW z \in Slots PROVE CountedNext(z)
  <2>1. Count(z)' = Count(z)
    BY <1>8 DEF Count
  <2>2. CASE z = y
    <3>1. IsTag(Release(t, r)) /\ r \notin Frames(t)
      <4>1. \A f \in Frames(t) : f[1] \in 0 .. (Len(calls[t]) - 1) /\ Len(calls[t]) \in Nat
        BY <1>7, FramesNow
      <4>2. r[1] = Len(calls[t])
        BY <1>5, SubIs
      <4>3. IsTag(Release(t, r))
        BY DEF IsTag
      <4>4. QED
        BY <4>1, <4>2, <4>3
    <3>2. Release(t, r) \notin Owners(z)
      BY <3>1, OwnersTagged DEF OwnersByTag
    <3>3. y # Null /\ r \in new /\ Releases(r, z) /\ \A f \in new : Releases(f, z) => f = r
      BY <1>5, <1>6, <1>14, <2>2, ObjectsAssumption, SubIs
    <3>4. \A q : q \in built' /\ member'[q] = z <=> q \in built /\ member[q] = z /\ q # x
      BY <1>7, <1>8, <1>15, ObjectsAssumption DEF Types
    <3>5. QED
      BY <1>8, <1>9, <1>11, <1>13, <2>1, <2>2, <3>1, <3>2, <3>3, <3>4, OwnerSwapped, TagsDiffer
  <2>3. CASE z # y
    <3>1. \A f \in new : ~Releases(f, z)
      BY <1>5, <1>6, <1>14, <2>3, SubIs
    <3>2. \A q : q \in built' /\ member'[q] = z <=> q \in built /\ member[q] = z
      BY <1>7, <1>8, <1>10, <1>15, <2>3, ObjectsAssumption DEF Types
    <3>3. QED
      BY <1>8, <1>9, <1>13, <2>1, <3>1, <3>2, OwnersStay
  <2>4. QED
    BY <2>2, <2>3
<1>21. ObjInv'
  BY <1>16, <1>17, <1>18, <1>19, <1>20, AllCounted DEF ObjInv
<1>22. QED
  BY <1>21, <1>1, <1>5, <1>6, <1>7, <1>12, <1>13, <1>14, SubIs, MakersStay DEF Promised

LEMMA ResetKeeps ==
    ASSUME ObjInv, NEW t \in Threads, Reset(t)
    PROVE  ObjInv' /\ Makers' = Makers
<1>1. ~Idle(t) /\ Doing(t).at = "reset"
  BY DEF Reset, At, Doing
<1>2. Doing(t) \in Frame
  BY <1>1, TopIs
<1>3. Doing(t).obj \in Slots
  BY <1>1, <1>2, FrameFields
<1>4. CASE ResetDropsMember
  <2>1. DropMember(t, Doing(t).obj, "lockToFree")
    BY <1>4 DEF Reset
  <2>2. QED
    BY <1>1, <1>3, <2>1, DropMemberKeeps
<1>5. CASE ~ResetDropsMember
  <2>1. PICK c \in Frame : c = [at |-> "lockToFree", obj |-> Doing(t).obj]
    BY <1>3, FramesMade
  <2>2. GoOn(t, <<c>>) /\ UNCHANGED <<ptr, member, refs, built>>
    BY <1>5, <2>1 DEF Reset
  <2>3. QED
    BY <1>1, <2>1, <2>2, RelabelKeeps DEF Holding, Making
<1>6. QED
  BY <1>4, <1>5

LEMMA DestroyKeeps ==
    ASSUME ObjInv, NEW t \in Threads, Destroy(t)
    PROVE  ObjInv' /\ Makers' = Makers
<1>1. ~Idle(t) /\ Doing(t).at = "destroy" /\ DropMember(t, Doing(t).obj, "free")
  BY DEF Destroy, At, Doing
<1>2. Doing(t) \in Frame
  BY <1>1, TopIs
<1>3. Doing(t).obj \in Slots
  BY <1>1, <1>2, FrameFields
<1>4. QED
  BY <1>1, <1>3, DropMemberKeeps

LEMMA FreeKeeps ==
    ASSUME ObjInv, NEW t \in Threads, Free(t)
    PROVE  ObjInv' /\ Makers' = Makers
<1>1. PICK c \in Frame : c = Doing(t)
  BY TopIs DEF Free, At
<1>2. PICK h : h = Top(t)
  OBVIOUS
<1>3. /\ ~Idle(t) /\ c.at = "free" /\ GoOn(t, << >>)
      /\ built' = built \ {c.obj}
      /\ UNCHANGED <<ptr, member, refs>>
  BY <1>1 DEF Free, At, Doing
<1>4. /\ h \in Frames(t) /\ FrameOK(t, h) /\ h[2] = c
      /\ Types /\ calls \in [Threads -> Seq(Frame)]
  BY <1>1, <1>2, <1>3, TopIs DEF ObjInv
<1>5. /\ c.obj \in Slots /\ Holds(h) /\ member[c.obj] = Null /\ refs[c.obj] = 0
      /\ \A x : ~Releases(h, x)
  BY <1>3, <1>4, FrameFields DEF Holds, Holding, FrameOK, Releases
<1>6. Becomes(t, {h}, {})
  BY <1>2, <1>3, <1>4, FramesPop
<1>7. Types'
  BY <1>3, <1>4, <1>6 DEF Types, Becomes
<1>8. FramesOK'
  <2>1. \A z \in Threads : \A f \in Frames(z) :
            Holds(f) /\ ~(z = t /\ f \in {h}) => f[2].obj \in built' /\ refs'[f[2].obj] = 0
    BY <1>3, <1>4, <1>5 DEF ObjInv, FramesOK, FrameOK, HeldOnce
  <2>2. \A f \in Frames(t) \ {h} : f[2].at \notin Making
    BY <1>2, <1>3, BelowTop
  <2>3. QED
    BY <1>3, <1>6, <2>1, <2>2, FramesStay
<1>9. HeldOnce'
  BY <1>6, HeldStays
<1>10. BlankMembers'
  BY <1>3, <1>5 DEF ObjInv, BlankMembers
<1>11. ASSUME NEW x \in Slots PROVE CountedNext(x)
  <2>1. Count(x)' = Count(x)
    BY <1>3, <1>5 DEF Count
  <2>2. \A y : y \in built' /\ member'[y] = x <=> y \in built /\ member[y] = x
    BY <1>3, <1>5, ObjectsAssumption
  <2>3. QED
    BY <1>3, <1>5, <1>6, <2>1, <2>2, OwnersStay
<1>12. ObjInv'
  BY <1>7, <1>8, <1>9, <1>10, <1>11, AllCounted DEF ObjInv
<1>13. QED
  BY <1>12, <1>3, <1>4, <1>6, MakersStay DEF Promised

(* The handle that t takes over, as the owner it was; nothing if it is     *)
(* null by now.                                                            *)
LEMMA TakeOverKeeps ==
    ASSUME ObjInv, NEW t \in Threads, TakeOver(t)
    PROVE  ObjInv' /\ Makers' = Makers
<1>1. PICK c \in Frame : c = Doing(t)
  BY TopIs DEF TakeOver, At
<1>2. PICK h : h = Top(t)
  OBVIOUS
<1>3. ~Idle(t) /\ c.at = "take" /\ GoOn(t, << >>) /\ UNCHANGED <<refs, built>>
  BY <1>1 DEF TakeOver, At, Doing
<1>4. /\ h \in Frames(t) /\ FrameOK(t, h) /\ h[2] = c /\ h[1] = Len(calls[t]) - 1 /\ Len(calls[t]) \in Nat
      /\ Types /\ calls \in [Threads -> Seq(Frame)]
  BY <1>1, <1>2, <1>3, TopIs DEF ObjInv
<1>5. /\ c.to \in Vars /\ c.from.var \in Vars /\ c.from.obj \in Slots \cup {Null}
      /\ \A x : ~Releases(h, x)
  BY <1>3, <1>4, FrameFields DEF Releases
<1>6. h[1] = 0 /\ ptr[t][c.to] = Null /\ (c.from.obj = Null => c.from.var # c.to)
  BY <1>3, <1>4 DEF FrameOK
<1>7. Becomes(t, {h}, {}) /\ Frames(t) = {h}
  <2>1. Len(calls[t]) = 1
    <3>1. PICK n \in Nat : n = Len(calls[t])
      BY <1>4
    <3>2. n - 1 = 0
      BY <1>4, <1>6, <3>1
    <3>3. QED
      BY <3>1, <3>2
  <2>2. Becomes(t, {h}, {})
    BY <1>2, <1>3, <1>4, FramesPop
  <2>3. QED
    BY <1>2, <1>3, <2>1, <2>2, OnlyTop
<1>8. Types' /\ (\A z \in Threads \ {t} : ptr'[z] = ptr[z])
      /\ \A x \in Slots : member'[x] \in {member[x], Null}
  <2>1. /\ ptr' \in [Threads -> [Vars -> Slots \cup {Null}]]
        /\ \A z \in Threads \ {t} : ptr'[z] = ptr[z]
        /\ member' \in [Slots -> Slots \cup {Null}]
        /\ \A x \in Slots : member'[x] \in {member[x], Null}
    <3>1. CASE c.from.obj = Null
      <4>1. PICK w \in Vars : w = c.from.var
        BY <1>5
      <4>2. member' = member /\ ptr' = [ptr EXCEPT ![t][c.to] = ptr[t][w], ![t][w] = Null]
        BY <1>1, <3>1, <4>1 DEF TakeOver
      <4>3. PICK p : p = [ptr EXCEPT ![t][c.to] = ptr[t][w]]
        OBVIOUS
      <4>4. /\ p \in [Threads -> [Vars -> Slots \cup {Null}]] /\ ptr' = [p EXCEPT ![t][w] = Null]
            /\ \A z \in Threads \ {t} : p[z] = ptr[z]
        BY <1>4, <1>5, <4>2, <4>3 DEF Types
      <4>5. /\ ptr' \in [Threads -> [Vars -> Slots \cup {Null}]]
            /\ \A z \in Threads \ {t} : ptr'[z] = ptr[z]
        BY <4>1, <4>4
      <4>6. QED
        BY <1>4, <4>2, <4>5 DEF Types
    <3>2. CASE c.from.obj # Null
      <4>1. PICK o \in Slots : o = c.from.obj
        BY <1>5, <3>2
      <4>2. member' = [member EXCEPT ![o] = Null] /\ ptr' = [ptr EXCEPT ![t][c.to] = member[o]]
        BY <1>1, <3>2, <4>1 DEF TakeOver, Set
      <4>3. QED
        BY <1>4, <1>5, <4>1, <4>2 DEF Types
    <3>3. QED
      BY <3>1, <3>2
  <2>2. QED
    BY <1>3, <1>4, <1>7, <2>1 DEF Types, Becomes
<1>9. FramesOK'
  <2>1. \A z \in Threads : \A f \in Frames(z) :
            Holds(f) => f[2].obj \in built' /\ refs'[f[2].obj] = 0
    BY <1>3 DEF ObjInv, FramesOK, FrameOK
  <2>2. \A x \in built : member'[x] \in {member[x], Null}
    BY <1>4, <1>8 DEF Types
  <2>3. QED
    BY <1>7, <1>8, <2>1, <2>2, FramesStay
<1>10. HeldOnce'
  BY <1>7, HeldStays
<1>11. BlankMembers'
  BY <1>3, <1>8 DEF ObjInv, BlankMembers
<1>12. ASSUME NEW x \in Slots PROVE CountedNext(x)
  <2>0. Count(x)' = Count(x) /\ x # Null
    BY <1>3, ObjectsAssumption DEF Count
  <2>1. IsTag(Variable(t, c.to)) /\ Variable(t, c.to) \notin Owners(x)
    BY <1>5, <1>6, <2>0, OwnersTagged DEF IsTag, OwnersByTag
  <2>2. CASE c.from.obj = Null
    <3>1. PICK w \in Vars : w = c.from.var /\ w # c.to
      BY <1>5, <1>6, <2>2
    <3>2. member' = member /\ ptr' = [ptr EXCEPT ![t][c.to] = ptr[t][w], ![t][w] = Null]
      BY <1>1, <2>2, <3>1 DEF TakeOver
    <3>3. \A z \in Threads, y \in Vars :
              ptr'[z][y] = IF z = t /\ y = w THEN Null
                           ELSE IF z = t /\ y = c.to THEN ptr[t][w] ELSE ptr[z][y]
      BY <1>4, <1>5, <3>1, <3>2 DEF Types
    <3>4. CASE x = ptr[t][w]
      <4>1. Variable(t, w) \in Owners(x)
        BY <3>4, OwnersTagged DEF OwnersByTag
      <4>0. PICK a, b : a = Variable(t, w) /\ b = Variable(t, c.to)
        OBVIOUS
      <4>2. \A u \in Threads, y \in Vars :
                ptr'[u][y] = x <=> (ptr[u][y] = x /\ Variable(u, y) # a) \/ Variable(u, y) = b
        <5>1. \A u \in Threads, y \in Vars :
                  ptr'[u][y] = x <=> (ptr[u][y] = x /\ ~(u = t /\ y = w)) \/ (u = t /\ y = c.to)
          BY <1>6, <2>0, <3>1, <3>3, <3>4
        <5>2. QED
          BY <4>0, <5>1, TagsDiffer
      <4>3. \A y : y \in built' /\ member'[y] = x
                       <=> (y \in built /\ member[y] = x /\ Member(y) # a) \/ Member(y) = b
        BY <1>3, <3>2, <4>0, TagsDiffer
      <4>4. \A u \in Threads : \A f : Release(u, f) # a /\ Release(u, f) # b
        BY <4>0, TagsDiffer
      <4>5. a \in Owners(x) /\ IsTag(b) /\ b \notin Owners(x)
        BY <2>1, <4>0, <4>1
      <4>6. Becomes(t, {h}, {}) /\ \A f \in {h} : ~Releases(f, x)
        BY <1>5, <1>7
      <4>7. QED
        BY <2>0, <4>2, <4>3, <4>4, <4>5, <4>6, OwnerSwapped
    <3>5. CASE x # ptr[t][w]
      <4>1. \A u \in Threads, y \in Vars : ptr'[u][y] = x <=> ptr[u][y] = x
        <5> TAKE u \in Threads, y \in Vars
        <5>1. CASE u = t /\ y = w
          BY <2>0, <3>3, <3>5, <5>1
        <5>2. CASE u = t /\ y = c.to
          BY <1>5, <1>6, <2>0, <3>1, <3>3, <3>5, <5>2
        <5>3. CASE ~(u = t /\ y = w) /\ ~(u = t /\ y = c.to)
          BY <3>3, <5>3
        <5>4. QED
          BY <5>1, <5>2, <5>3
      <4>2. \A y : y \in built' /\ member'[y] = x <=> y \in built /\ member[y] = x
        BY <1>3, <3>2
      <4>3. Becomes(t, {h}, {}) /\ \A f \in {h} \cup {} : ~Releases(f, x)
        BY <1>5, <1>7
      <4>4. QED
        BY <2>0, <4>1, <4>2, <4>3, OwnersStay
    <3>6. QED
      BY <3>4, <3>5
  <2>3. CASE c.from.obj # Null
    <3>1. PICK o \in Slots : o = c.from.obj
      BY <1>5, <2>3
    <3>2. /\ member' = [member EXCEPT ![o] = Null] /\ ptr' = [ptr EXCEPT ![t][c.to] = member[o]]
      BY <1>1, <2>3, <3>1 DEF TakeOver, Set
    <3>3. /\ \A z \in Threads, y \in Vars :
                 ptr'[z][y] = IF z = t /\ y = c.to THEN member[o] ELSE ptr[z][y]
          /\ \A z \in Slots : member'[z] = IF z = o THEN Null ELSE member[z]
      BY <1>4, <1>5, <3>2 DEF Types
    <3>4. CASE x = member[o]
      <4>1. o \in built /\ Member(o) \in Owners(x)
        BY <2>0, <3>4, OwnersTagged DEF OwnersByTag, ObjInv, BlankMembers
      <4>2. \A y : y \in built' /\ member'[y] = x <=> y \in built /\ member[y] = x /\ y # o
        BY <1>3, <1>4, <2>0, <3>3 DEF Types
      <4>3. QED
        BY <1>5, <1>6, <1>7, <2>0, <2>1, <3>3, <3>4, <4>1, <4>2, OwnerSwapped, TagsDiffer
    <3>5. CASE x # member[o]
      <4>1. \A y : y \in built' /\ member'[y] = x <=> y \in built /\ member[y] = x
        BY <1>3, <1>4, <2>0, <3>3, <3>5 DEF Types
      <4>2. QED
        BY <1>5, <1>6, <1>7, <2>0, <3>3, <3>5, <4>1, OwnersStay
    <3>6. QED
      BY <3>4, <3>5
  <2>4. QED
    BY <2>2, <2>3
<1>13. ObjInv'
  BY <1>8, <1>9, <1>10, <1>11, <1>12, AllCounted DEF ObjInv
<1>14. QED
  BY <1>13, <1>3, <1>4, <1>7, MakersStay DEF Promised

(* The slot that a thread in allocate() gets: it holds no object yet.      *)
Slot == IF pool.free # << >> THEN Head(pool.free) ELSE pool.made + 1

LEMMA FreeSlot ==
    ASSUME ObjInv, PoolInv, NEW t \in Threads, At(t, "make")
    PROVE  /\ Slot \in Slots \ built
           /\ pool.free # << >> =>
                  /\ Tail(pool.free) \in Seq(Slots) /\ Len(Tail(pool.free)) = Len(pool.free) - 1
                  /\ \A i \in 1 .. (Len(pool.free) - 1) : Tail(pool.free)[i] = pool.free[i + 1]
                  /\ Len(pool.free) \in Nat \ {0} /\ Slot = pool.free[1]
<1>1. /\ pool.free \in Seq(Slots) /\ pool.made \in Nat /\ Len(pool.free) \in Nat
      /\ FreeSlots \cap built = {} /\ FreeSlots \cup built = 1 .. pool.made
      /\ Len(pool.free) + Cardinality(built) = pool.made
      /\ IsFiniteSet(Makers) /\ Cardinality(built) + Cardinality(Makers) <= MaxObjects
  BY LenProperties DEF PoolInv
<1>2. CASE pool.free # << >>
  <2>1. /\ Tail(pool.free) \in Seq(Slots) /\ Len(Tail(pool.free)) = Len(pool.free) - 1
        /\ \A i \in 1 .. (Len(pool.free) - 1) : Tail(pool.free)[i] = pool.free[i + 1]
        /\ Len(pool.free) \in Nat \ {0} /\ Head(pool.free) = pool.free[1]
    <3> DEFINE q == pool.free
    <3>1. q \in Seq(Slots) /\ q # << >>
      BY <1>1, <1>2
    <3> HIDE DEF q
    <3>2. /\ Tail(q) \in Seq(Slots) /\ Len(Tail(q)) = Len(q) - 1
          /\ \A i \in 1 .. (Len(q) - 1) : Tail(q)[i] = q[i + 1]
          /\ Len(q) \in Nat \ {0} /\ Head(q) = q[1]
      BY <3>1, EmptySeq, LenProperties, HeadTailProperties
    <3>3. QED
      BY <3>2 DEF q
  <2>2. pool.free[1] \in FreeSlots /\ pool.free[1] \in Slots
    BY <1>1, <2>1, ElementOfSeq DEF FreeSlots
  <2>3. QED
    BY <1>1, <1>2, <2>1, <2>2 DEF Slot
<1>3. CASE pool.free = << >>
  <2>1. Len(pool.free) = 0
    BY <1>3, EmptySeq
  <2>2. t \in Makers
    BY DEF Makers
  <2>3. Cardinality(Makers) \in Nat \ {0}
    BY <1>1, <2>2, FS_CardinalityType, FS_EmptySet
  <2>4. Cardinality(built) = pool.made
    <3>1. IsFiniteSet(Slots) /\ built \subseteq Slots
      BY FS_Interval, ObjectsAssumption DEF Slots, ObjInv, Types
    <3>2. Cardinality(built) \in Nat
      BY <3>1, FS_Subset, FS_CardinalityType
    <3>3. QED
      BY <1>1, <2>1, <3>2
  <2>5. pool.made + 1 \in 1 .. MaxObjects
    <3>1. PICK n, k : n = pool.made /\ k = Cardinality(Makers)
      OBVIOUS
    <3>2. n \in Nat /\ k \in Nat \ {0} /\ n + k <= MaxObjects /\ MaxObjects \in Nat
      BY <1>1, <2>3, <2>4, <3>1, ObjectsAssumption
    <3>3. n + 1 \in 1 .. MaxObjects
      BY <3>2
    <3>4. QED
      BY <3>1, <3>3
  <2>6. pool.made + 1 \notin built
    BY <1>1
  <2>7. QED
    BY <1>3, <2>5, <2>6 DEF Slot, Slots
<1>4. QED
  BY <1>2, <1>3

(* What Allocate does, with its slot and its call.                         *)
LEMMA AllocateIs ==
    ASSUME NEW t, Allocate(t)
    PROVE  /\ ~Idle(t) /\ Doing(t).at = "make"
           /\ member' = [member EXCEPT ![Slot] = ptr[t][Doing(t).arg]]
           /\ ptr' = [ptr EXCEPT ![t][Doing(t).arg] = Null]
           /\ refs' = [refs EXCEPT ![Slot] = 0]
           /\ built' = built \cup {Slot}
           /\ GoOn(t, <<[at |-> "own", obj |-> Slot, for |-> Doing(t).for]>>)
           /\ pool' = [pool EXCEPT !.free = IF pool.free # << >> THEN Tail(@) ELSE @,
                                   !.made = IF pool.free # << >> THEN @ ELSE @ + 1,
                                   !.live = @ + 1, !.locked = FALSE]
BY DEF Allocate, At, Doing, Slot, Set

LEMMA AllocateKeeps ==
    ASSUME ObjInv, PoolInv, NEW t \in Threads, Allocate(t)
    PROVE  ObjInv' /\ Makers' = Makers \ {t} /\ t \in Makers
<1>1. PICK c \in Frame : c = Doing(t)
  BY TopIs, AllocateIs
<1>2. PICK h : h = Top(t)
  OBVIOUS
<1>3. PICK s \in Slots \ built : s = Slot
  BY FreeSlot DEF Allocate
<1>4. PICK w : w = c.arg
  OBVIOUS
<1>5. PICK d : d = [at |-> "own", obj |-> s, for |-> c.for]
  OBVIOUS
<1>6. PICK k : k = <<Len(calls[t]) - 1, d>>
  OBVIOUS
<1> DEFINE y == ptr[t][w]
<1>7. /\ ~Idle(t) /\ c.at = "make" /\ GoOn(t, <<d>>)
      /\ member' = [member EXCEPT ![s] = y] /\ ptr' = [ptr EXCEPT ![t][w] = Null]
      /\ refs' = [refs EXCEPT ![s] = 0] /\ built' = built \cup {s}
  BY <1>1, <1>3, <1>4, <1>5, AllocateIs
<1>8. /\ h \in Frames(t) /\ FrameOK(t, h) /\ h[2] = c
      /\ Types /\ calls \in [Threads -> Seq(Frame)]
  BY <1>1, <1>2, <1>7, TopIs DEF ObjInv
<1>9. /\ c.for \in Vars /\ w \in Vars /\ c.for # w /\ ptr[t][c.for] = Null
      /\ Len(calls[t]) = 1 /\ \A x : ~Releases(h, x)
  BY <1>4, <1>7, <1>8, FrameFields DEF FrameOK, Making, Releases
<1>10. /\ d \in Frame /\ d.at = "own" /\ d.obj = s /\ d.for = c.for
       /\ k[2] = d /\ Holds(k) /\ \A x : ~Releases(k, x)
  BY <1>5, <1>6, <1>9, FramesMade DEF Holds, Holding, Releases
<1>11. Becomes(t, {h}, {k}) /\ Frames(t) = {h} /\ Len(calls'[t]) = 1
  BY <1>2, <1>6, <1>7, <1>8, <1>9, <1>10, FramesOne, OnlyTop
<1>12. y \in Slots \cup {Null} /\ y = ptr[t][w] /\ y # s
  <2>1. y \in Slots \cup {Null} /\ s # Null
    BY <1>8, <1>9, ObjectsAssumption DEF Types
  <2>2. QED
    BY <1>3, <1>9, <2>1, PointedTo
<1> HIDE DEF y
<1>13. /\ \A z \in Threads, v \in Vars : ptr'[z][v] = IF z = t /\ v = w THEN Null ELSE ptr[z][v]
       /\ \A z \in Threads \ {t} : ptr'[z] = ptr[z]
       /\ \A z \in Slots : refs'[z] = IF z = s THEN 0 ELSE refs[z]
       /\ \A z \in Slots : member'[z] = IF z = s THEN y ELSE member[z]
  BY <1>7, <1>8, <1>9 DEF Types
<1>14. Types'
  BY <1>3, <1>7, <1>8, <1>9, <1>11, <1>12 DEF Types, Becomes
<1>15. \A z \in Threads : \A f \in Frames(z) : Holds(f) => f[2].obj \in built /\ f[2].obj # s
  BY <1>3 DEF ObjInv, FramesOK, FrameOK
<1>16. FramesOK'
  <2>1. \A z \in Threads : \A f \in Frames(z) :
            Holds(f) => f[2].obj \in built' /\ refs'[f[2].obj] = 0
    BY <1>7, <1>8, <1>13, <1>15 DEF ObjInv, FramesOK, FrameOK, Types
  <2>2. FrameOK(t, k)'
    <3>1. s \in built' /\ refs'[s] = 0 /\ ptr'[t][c.for] = Null
      BY <1>3, <1>7, <1>9, <1>13
    <3>2. QED
      BY <1>10, <1>11, <3>1 DEF FrameOK, Holds
  <2>3. \A x \in built : member'[x] \in {member[x], Null}
    BY <1>3, <1>8, <1>13 DEF Types
  <2>4. QED
    BY <1>11, <1>13, <2>1, <2>2, <2>3, FramesStay
<1>17. HeldOnce'
  BY <1>10, <1>11, <1>15, HeldStays
<1>18. BlankMembers'
  BY <1>7, <1>8, <1>13 DEF ObjInv, BlankMembers, Types
<1>19. ASSUME NEW x \in Slots PROVE CountedNext(x)
  <2>1. Count(x)' = Count(x)
    <3>1. CASE x = s
      BY <1>3, <1>7, <1>13, <3>1 DEF Count
    <3>2. CASE x # s
      BY <1>7, <1>13, <3>2 DEF Count
    <3>3. QED
      BY <3>1, <3>2
  <2>2. CASE x = y
    <3>1. Variable(t, w) \in Owners(x) /\ IsTag(Member(s)) /\ Member(s) \notin Owners(x)
      BY <1>3, <1>9, <1>12, <2>2, OwnersTagged DEF OwnersByTag, IsTag
    <3>2. \A z : z \in built' /\ member'[z] = x <=> (z \in built /\ member[z] = x) \/ z = s
      BY <1>3, <1>7, <1>8, <1>13, <2>2 DEF Types
    <3>3. \A z \in Threads, v \in Vars : ptr'[z][v] = x <=> ptr[z][v] = x /\ ~(z = t /\ v = w)
      BY <1>13, ObjectsAssumption
    <3>4. QED
      BY <1>9, <1>10, <1>11, <2>1, <3>1, <3>2, <3>3, OwnerSwapped, TagsDiffer
  <2>3. CASE x # y
    <3>1. \A z : z \in built' /\ member'[z] = x <=> z \in built /\ member[z] = x
      BY <1>3, <1>7, <1>8, <1>13, <2>3 DEF Types
    <3>2. \A z \in Threads, v \in Vars : ptr'[z][v] = x <=> ptr[z][v] = x
      BY <1>12, <1>13, <2>3, ObjectsAssumption
    <3>3. QED
      BY <1>9, <1>10, <1>11, <2>1, <3>1, <3>2, OwnersStay
  <2>4. QED
    BY <2>2, <2>3
<1>20. ObjInv'
  BY <1>14, <1>16, <1>17, <1>18, <1>19, AllCounted DEF ObjInv
<1>21. Makers' = Makers \ {t} /\ t \in Makers
  <2>1. \A u \in Threads \ {t} : calls'[u] = calls[u]
    BY <1>11 DEF Becomes
  <2>2. t \in Makers
    BY DEF Makers, Allocate
  <2>3. t \notin Makers'
    <3>1. \A f \in Frames(t)' : f = k
      BY <1>11 DEF Becomes
    <3>2. QED
      BY <1>10, <1>20, <3>1, MakersAreNext DEF MakersPromised, Promised
  <2>4. QED
    BY <2>1, <2>2, <2>3 DEF Makers, At, Idle
<1>22. QED
  BY <1>20, <1>21

-----------------------------------------------------------------------------
(* The pool's part of the invariant.                                       *)
LEMMA FiniteBuilt == ASSUME ObjInv PROVE IsFiniteSet(built) /\ Cardinality(built) \in Nat
<1>1. IsFiniteSet(Slots) /\ built \subseteq Slots
  BY FS_Interval, ObjectsAssumption DEF Slots, ObjInv, Types
<1>2. QED
  BY <1>1, FS_Subset, FS_CardinalityType

LEMMA PoolStays == ASSUME PoolInv, UNCHANGED <<pool, built>>, Makers' = Makers PROVE PoolInv'
BY DEF PoolInv, FreeSlots

LEMMA PoolMake ==
    ASSUME ObjInv, PoolInv, NEW t \in Threads, NEW v, NEW w, Make(t, v, w),
           Makers' = Makers \cup {t}, t \notin Makers
    PROVE  PoolInv'
<1>1. UNCHANGED <<pool, built>> /\ Cardinality(built) + Cardinality(Makers) < MaxObjects
  BY DEF Make
<1>2. IsFiniteSet(Makers) /\ Cardinality(Makers) \in Nat /\ Cardinality(built) \in Nat
  BY FS_CardinalityType, FiniteBuilt DEF PoolInv
<1>3. IsFiniteSet(Makers') /\ Cardinality(Makers') = Cardinality(Makers) + 1
  BY <1>2, FS_AddElement
<1>4. (Cardinality(built) + Cardinality(Makers) <= MaxObjects)'
  BY <1>1, <1>2, <1>3, ObjectsAssumption
<1>5. QED
  BY <1>1, <1>3, <1>4 DEF PoolInv, FreeSlots

LEMMA PoolLock ==
    ASSUME PoolInv, NEW t \in Threads, Lock(t), Makers' = Makers
    PROVE  PoolInv'
<1>1. pool' = [pool EXCEPT !.locked = TRUE] /\ built' = built
  BY DEF Lock
<1>2. /\ pool' \in [free : Seq(Slots), made : Nat, live : Int, locked : BOOLEAN]
      /\ pool'.free = pool.free /\ pool'.made = pool.made /\ pool'.live = pool.live
  BY <1>1 DEF PoolInv
<1>3. QED
  BY <1>1, <1>2 DEF PoolInv, FreeSlots

LEMMA PoolAllocate ==
    ASSUME ObjInv, PoolInv, NEW t \in Threads, Allocate(t), Makers' = Makers \ {t}, t \in Makers
    PROVE  PoolInv'
<1>1. At(t, "make")
  BY DEF Allocate
<1>2. PICK s \in Slots \ built : s = Slot
  BY <1>1, FreeSlot
<1>3. /\ built' = built \cup {s}
      /\ pool' = [pool EXCEPT !.free = IF pool.free # << >> THEN Tail(@) ELSE @,
                              !.made = IF pool.free # << >> THEN @ ELSE @ + 1,
                              !.live = @ + 1, !.locked = FALSE]
  BY <1>2, AllocateIs
<1>4. /\ IsFiniteSet(built) /\ Cardinality(built) \in Nat
      /\ IsFiniteSet(Makers) /\ Cardinality(Makers) \in Nat
  BY FiniteBuilt, FS_CardinalityType DEF PoolInv
<1>5. /\ Cardinality(built') = Cardinality(built) + 1
      /\ IsFiniteSet(Makers') /\ Cardinality(Makers') = Cardinality(Makers) - 1
  BY <1>2, <1>3, <1>4, FS_AddElement, FS_RemoveElement
<1>6. (Cardinality(built) + Cardinality(Makers) <= MaxObjects)'
  BY <1>4, <1>5, ObjectsAssumption DEF PoolInv
<1>7. pool \in [free : Seq(Slots), made : Nat, live : Int, locked : BOOLEAN]
  BY DEF PoolInv
<1>8. pool'.live = Cardinality(built)'
  BY <1>3, <1>5, <1>7 DEF PoolInv
<1>9. CASE pool.free # << >>
  <2>1. /\ pool'.free = Tail(pool.free) /\ pool'.made = pool.made
        /\ Tail(pool.free) \in Seq(Slots) /\ Len(Tail(pool.free)) = Len(pool.free) - 1
        /\ \A i \in 1 .. (Len(pool.free) - 1) : Tail(pool.free)[i] = pool.free[i + 1]
        /\ Len(pool.free) \in Nat \ {0} /\ s = pool.free[1]
    BY <1>1, <1>2, <1>3, <1>7, <1>9, FreeSlot
  <2>2. pool' \in [free : Seq(Slots), made : Nat, live : Int, locked : BOOLEAN]
    <3>1. pool' = [free |-> Tail(pool.free), made |-> pool.made, live |-> pool.live + 1, locked |-> FALSE]
      BY <1>3, <1>7, <1>9
    <3>2. QED
      BY <1>7, <2>1, <3>1
  <2>3. \A i, j \in 1 .. Len(pool'.free) : pool'.free[i] = pool'.free[j] => i = j
    <3>1. \A i, j \in 1 .. Len(pool.free) : pool.free[i] = pool.free[j] => i = j
      BY DEF PoolInv
    <3>2. QED
      BY <2>1, <3>1
  <2>4. FreeSlots' = FreeSlots \ {s}
    <3>1. \A i \in 1 .. Len(pool'.free) : pool'.free[i] = pool.free[i + 1] /\ pool.free[i + 1] # s
                                          /\ i + 1 \in 1 .. Len(pool.free)
      BY <2>1 DEF PoolInv
    <3>2. \A j \in 1 .. Len(pool.free) : pool.free[j] # s => j - 1 \in 1 .. Len(pool'.free)
                                                            /\ pool'.free[j - 1] = pool.free[j]
      <4> TAKE j \in 1 .. Len(pool.free)
      <4> HAVE pool.free[j] # s
      <4>1. j # 1
        BY <2>1
      <4>2. j - 1 \in 1 .. (Len(pool.free) - 1) /\ (j - 1) + 1 = j
        BY <2>1, <4>1
      <4>3. QED
        BY <2>1, <4>2
    <3>3. ASSUME NEW x \in FreeSlots' PROVE x \in FreeSlots \ {s}
      <4>1. PICK i \in 1 .. Len(pool'.free) : x = pool'.free[i]
        BY <3>3 DEF FreeSlots
      <4>2. QED
        BY <3>1, <4>1 DEF FreeSlots
    <3>4. ASSUME NEW x \in FreeSlots \ {s} PROVE x \in FreeSlots'
      <4>1. PICK j \in 1 .. Len(pool.free) : x = pool.free[j]
        BY DEF FreeSlots
      <4>2. QED
        BY <3>2, <4>1 DEF FreeSlots
    <3>5. QED
      BY <3>3, <3>4
  <2>5. s \in FreeSlots
    BY <2>1 DEF FreeSlots
  <2>6. FreeSlots' \cap built' = {} /\ FreeSlots' \cup built' = 1 .. pool'.made
    BY <1>3, <2>1, <2>4, <2>5 DEF PoolInv
  <2>7. Len(pool'.free) + Cardinality(built') = pool'.made
    BY <1>4, <1>5, <1>7, <2>1 DEF PoolInv
  <2>8. QED
    BY <1>5, <1>6, <1>8, <2>2, <2>3, <2>6, <2>7 DEF PoolInv
<1>10. CASE pool.free = << >>
  <2>1. /\ pool'.free = << >> /\ pool'.made = pool.made + 1 /\ s = pool.made + 1
        /\ Len(pool.free) = 0
    BY <1>2, <1>3, <1>7, <1>10, EmptySeq DEF Slot
  <2>2. pool' \in [free : Seq(Slots), made : Nat, live : Int, locked : BOOLEAN]
    <3>1. pool' = [free |-> pool.free, made |-> pool.made + 1, live |-> pool.live + 1, locked |-> FALSE]
      BY <1>3, <1>7, <1>10
    <3>2. QED
      BY <1>7, <3>1
  <2>3. FreeSlots = {} /\ FreeSlots' = {} /\ Len(pool'.free) = 0
    BY <1>10, <2>1 DEF FreeSlots
  <2>4. FreeSlots' \cap built' = {} /\ FreeSlots' \cup built' = 1 .. pool'.made
    BY <1>3, <1>7, <2>1, <2>3 DEF PoolInv
  <2>5. Len(pool'.free) + Cardinality(built') = pool'.made
    BY <1>4, <1>5, <1>7, <2>1, <2>3 DEF PoolInv
  <2>6. \A i, j \in 1 .. Len(pool'.free) : pool'.free[i] = pool'.free[j] => i = j
    BY <2>3
  <2>7. QED
    BY <1>5, <1>6, <1>8, <2>2, <2>4, <2>5, <2>6 DEF PoolInv
<1>11. QED
  BY <1>9, <1>10

LEMMA PoolFree ==
    ASSUME ObjInv, PoolInv, NEW t \in Threads, Free(t), Makers' = Makers
    PROVE  PoolInv'
<1>1. PICK x \in Slots : x = Doing(t).obj /\ x \in built
  <2>1. ~Idle(t) /\ Doing(t).at = "free"
    BY DEF Free, At, Doing
  <2>2. Doing(t) \in Frame /\ FrameOK(t, Top(t)) /\ Top(t)[2] = Doing(t)
    BY <2>1, TopIs
  <2>3. QED
    BY <2>1, <2>2, FrameFields DEF FrameOK, Holds, Holding
<1> DEFINE q == pool.free
<1>2. /\ built' = built \ {x}
      /\ pool' = [pool EXCEPT !.free = <<x>> \o q, !.live = @ - 1, !.locked = FALSE]
  BY <1>1 DEF Free
<1>3. /\ pool \in [free : Seq(Slots), made : Nat, live : Int, locked : BOOLEAN]
      /\ \A i, j \in 1 .. Len(q) : q[i] = q[j] => i = j
      /\ FreeSlots \cap built = {}
      /\ FreeSlots \cup built = 1 .. pool.made
      /\ Len(q) + Cardinality(built) = pool.made
      /\ pool.live = Cardinality(built)
      /\ FreeSlots = {q[i] : i \in 1 .. Len(q)}
  BY DEF PoolInv, FreeSlots
<1>4. IsFiniteSet(built) /\ Cardinality(built) \in Nat /\ IsFiniteSet(Makers) /\ Cardinality(Makers) \in Nat
  BY FiniteBuilt, FS_CardinalityType DEF PoolInv
<1>5. Cardinality(built') = Cardinality(built) - 1
  BY <1>1, <1>2, <1>4, FS_RemoveElement
<1>6. q \in Seq(Slots) /\ Len(q) \in Nat /\ <<x>> \in Seq(Slots) /\ Len(<<x>>) = 1 /\ <<x>>[1] = x
  BY <1>3, LenProperties
<1> HIDE DEF q
<1>7. /\ <<x>> \o q \in Seq(Slots) /\ Len(<<x>> \o q) = Len(q) + 1
      /\ (<<x>> \o q)[1] = x
      /\ \A i \in 1 .. Len(q) : (<<x>> \o q)[i + 1] = q[i]
  <2> DEFINE e == <<x>>
  <2>1. e \in Seq(Slots) /\ Len(e) = 1 /\ e[1] = x
    BY <1>6
  <2> HIDE DEF e
  <2>2. /\ e \o q \in Seq(Slots) /\ Len(e \o q) = 1 + Len(q)
        /\ \A i \in 1 .. 1 + Len(q) : (e \o q)[i] = IF i <= 1 THEN e[i] ELSE q[i - 1]
    <3>1. /\ e \o q \in Seq(Slots) /\ Len(e \o q) = Len(e) + Len(q)
          /\ \A i \in 1 .. Len(e) + Len(q) : (e \o q)[i] = IF i <= Len(e) THEN e[i] ELSE q[i - Len(e)]
      BY <1>6, <2>1, ConcatProperties
    <3>2. QED
      BY <2>1, <3>1
  <2>3. \A i \in 1 .. Len(q) : (e \o q)[i + 1] = q[i]
    <3> TAKE i \in 1 .. Len(q)
    <3>1. i + 1 \in 1 .. 1 + Len(q) /\ ~(i + 1 <= 1) /\ (i + 1) - 1 = i
      BY <1>6
    <3>2. QED
      BY <2>2, <3>1
  <2>4. (e \o q)[1] = x
    BY <1>6, <2>1, <2>2
  <2>5. QED
    BY <1>6, <2>2, <2>3, <2>4 DEF e
<1>8. PICK p \in Seq(Slots) : p = <<x>> \o q
  BY <1>7
<1>9. /\ Len(p) = Len(q) + 1 /\ p[1] = x
      /\ \A i \in 1 .. Len(q) : p[i + 1] = q[i]
      /\ \A i \in 1 .. Len(p) : i # 1 => i - 1 \in 1 .. Len(q) /\ p[i] = q[i - 1]
  <2>1. /\ Len(p) = Len(q) + 1 /\ p[1] = x
        /\ \A i \in 1 .. Len(q) : p[i + 1] = q[i]
    BY <1>7, <1>8
  <2>2. ASSUME NEW i \in 1 .. Len(p), i # 1 PROVE i - 1 \in 1 .. Len(q) /\ p[i] = q[i - 1]
    <3>1. PICK j \in 1 .. Len(q) : j = i - 1 /\ j + 1 = i
      BY <1>6, <2>1, <2>2
    <3>2. QED
      BY <2>1, <3>1
  <2>3. QED
    BY <2>1, <2>2
<1>10. pool'.free = p /\ pool'.made = pool.made /\ pool'.live = pool.live - 1
       /\ pool' \in [free : Seq(Slots), made : Nat, live : Int, locked : BOOLEAN]
  <2>1. pool' = [free |-> p, made |-> pool.made, live |-> pool.live - 1, locked |-> FALSE]
    BY <1>2, <1>3, <1>8
  <2>2. QED
    BY <1>3, <2>1
<1>11. x \notin FreeSlots
  BY <1>1, <1>3
<1>12. \A i, j \in 1 .. Len(p) : p[i] = p[j] => i = j
  <2> TAKE i, j \in 1 .. Len(p)
  <2> HAVE p[i] = p[j]
  <2>1. \A l \in 1 .. Len(q) : q[l] # x
    BY <1>3, <1>11
  <2>2. i = 1 <=> j = 1
    BY <1>9, <2>1
  <2>3. CASE i # 1 /\ j # 1
    <3>1. i - 1 \in 1 .. Len(q) /\ j - 1 \in 1 .. Len(q) /\ q[i - 1] = q[j - 1]
      BY <1>9, <2>3
    <3>2. i - 1 = j - 1
      BY <1>3, <3>1
    <3>3. QED
      BY <3>2
  <2>4. QED
    BY <2>2, <2>3
<1>13. {p[i] : i \in 1 .. Len(p)} = FreeSlots \cup {x}
  <2>1. \A i \in 1 .. Len(p) : p[i] \in FreeSlots \cup {x}
    <3> TAKE i \in 1 .. Len(p)
    <3>1. CASE i = 1
      BY <1>9, <3>1
    <3>2. CASE i # 1
      BY <1>3, <1>9, <3>2
    <3>3. QED
      BY <3>1, <3>2
  <2>2. 1 \in 1 .. Len(p)
    BY <1>6, <1>9
  <2>3. \A i \in 1 .. Len(q) : i + 1 \in 1 .. Len(p)
    BY <1>6, <1>9
  <2>4. ASSUME NEW z \in FreeSlots PROVE z \in {p[i] : i \in 1 .. Len(p)}
    <3>1. PICK i \in 1 .. Len(q) : z = q[i]
      BY <1>3
    <3>2. z = p[i + 1] /\ i + 1 \in 1 .. Len(p)
      BY <1>9, <2>3, <3>1
    <3>3. QED
      BY <3>2
  <2>5. x \in {p[i] : i \in 1 .. Len(p)}
    BY <1>9, <2>2
  <2>6. QED
    BY <2>1, <2>4, <2>5
<1>14. FreeSlots' = FreeSlots \cup {x}
  BY <1>10, <1>13 DEF FreeSlots
<1>15. FreeSlots' \cap built' = {} /\ FreeSlots' \cup built' = 1 .. pool'.made
  <2>1. (FreeSlots \cup {x}) \cap (built \ {x}) = {}
    BY <1>3, <1>11
  <2>2. (FreeSlots \cup {x}) \cup (built \ {x}) = FreeSlots \cup built
    BY <1>1
  <2>3. FreeSlots' \cap built' = {}
    BY <1>2, <1>14, <2>1
  <2>4. FreeSlots' \cup built' = FreeSlots \cup built
    BY <1>2, <1>14, <2>2
  <2>5. FreeSlots \cup built = 1 .. pool.made /\ pool'.made = pool.made
    BY <1>3, <1>10
  <2>6. QED
    BY <2>3, <2>4, <2>5
<1>16. Len(pool'.free) + Cardinality(built') = pool'.made
  <2>1. Len(p) + Cardinality(built') = Len(q) + Cardinality(built)
    BY <1>4, <1>5, <1>6, <1>9
  <2>2. QED
    BY <1>3, <1>10, <2>1
<1>17. pool'.live = Cardinality(built')
  BY <1>3, <1>5, <1>10
<1>18. (Cardinality(built) + Cardinality(Makers) <= MaxObjects)' /\ IsFiniteSet(Makers')
  BY <1>4, <1>5, ObjectsAssumption DEF PoolInv
<1>19. QED
  BY <1>10, <1>12, <1>15, <1>16, <1>17, <1>18 DEF PoolInv

-----------------------------------------------------------------------------
LEMMA ObjStays ==
    ASSUME ObjInv, UNCHANGED <<ptr, member, refs, built, calls>>
    PROVE  ObjInv' /\ Makers' = Makers
<1>1. \A t : Frames(t)' = Frames(t)
  BY DEF Frames
<1>2. \A x : Owners(x)' = Owners(x)
  BY <1>1 DEF Owners
<1>3. \A x : Count(x)' = Count(x)
  BY DEF Count
<1>4. Types' /\ BlankMembers'
  BY DEF ObjInv, Types, BlankMembers
<1>5. FramesOK'
  BY <1>1 DEF ObjInv, FramesOK, FrameOK, Holds
<1>6. HeldOnce'
  BY <1>1 DEF ObjInv, HeldOnce, Holds
<1>7. Counted'
  BY <1>2, <1>3 DEF ObjInv, Counted
<1>8. Makers' = Makers
  BY DEF Makers, At, Idle
<1>9. QED
  BY <1>4, <1>5, <1>6, <1>7, <1>8 DEF ObjInv

(* Everything that is true of the objects, their handles and the pool.     *)
IInv == ObjInv /\ PoolInv

LEMMA InitInv == Init => IInv
<1> SUFFICES ASSUME Init PROVE IInv
  OBVIOUS
<1>1. \A t \in Threads : calls[t] = << >> /\ Frames(t) = {}
  BY FramesOfNone DEF Init, Frames, FramesOf
<1>2. Types
  BY <1>1, EmptySeq DEF Init, Types
<1>3. FramesOK /\ HeldOnce /\ BlankMembers
  BY <1>1 DEF Init, FramesOK, HeldOnce, BlankMembers
<1>4. Counted
  <2>1. ASSUME NEW x \in Slots PROVE Owners(x) = {} /\ Count(x) = 0
    <3>1. \A a : a \notin Owners(x)
      BY <1>1, <1>2, OwnersAre, ObjectsAssumption DEF Init
    <3>2. QED
      BY <3>1 DEF Init, Count
  <2>2. QED
    BY <2>1, FS_EmptySet DEF Counted
<1>5. PoolInv
  <2>1. Makers = {} /\ built = {}
    BY <1>1 DEF Makers, At, Idle, Init
  <2>2. /\ pool.free = << >> /\ pool.made = 0 /\ pool.live = 0 /\ Len(pool.free) = 0
        /\ pool \in [free : Seq(Slots), made : Nat, live : Int, locked : BOOLEAN]
    BY EmptySeq DEF Init
  <2>3. FreeSlots = {} /\ 1 .. pool.made = {}
    BY <2>2 DEF FreeSlots
  <2>4. Cardinality(built) = 0 /\ IsFiniteSet(Makers) /\ Cardinality(Makers) = 0
    BY <2>1, FS_EmptySet
  <2>5. QED
    BY <2>1, <2>2, <2>3, <2>4, ObjectsAssumption DEF PoolInv
<1>6. QED
  BY <1>2, <1>3, <1>4, <1>5 DEF IInv, ObjInv

LEMMA NextInv == ASSUME ~ClearsUsedPool PROVE IInv /\ [Next]_vars => IInv'
<1> SUFFICES ASSUME IInv, [Next]_vars PROVE IInv'
  OBVIOUS
<1>0. ObjInv /\ PoolInv
  BY DEF IInv
<1>1. CASE UNCHANGED vars
  BY <1>0, <1>1, ObjStays, PoolStays DEF vars, IInv
<1>2. CASE Clear
  <2>1. /\ built = {} /\ pool.free = << >>
        /\ UNCHANGED <<ptr, member, refs, built, calls>>
        /\ pool' = [pool EXCEPT !.made = 0, !.live = 0]
    BY <1>2 DEF Clear
  <2>2. pool.made = 0 /\ pool.live = 0
    <3>1. Len(pool.free) = 0 /\ Cardinality(built) = 0
      BY <2>1, EmptySeq, FS_EmptySet
    <3>2. QED
      BY <1>0, <3>1 DEF PoolInv
  <2>3. pool' = pool
    BY <1>0, <2>1, <2>2 DEF PoolInv
  <2>4. QED
    BY <1>0, <2>1, <2>3, ObjStays, PoolStays DEF IInv
<1>3. ASSUME NEW t \in Threads,
             \/ \E v, w \in Vars, u \in Threads : Copy(t, v, u, w)
             \/ \E v \in Vars : Assign(t, v) \/ Drop(t, v) \/ MoveAssign(t, v)
             \/ TakeOver(t) \/ Own(t) \/ Subtract(t) \/ Reset(t) \/ Destroy(t)
      PROVE  IInv'
  <2>1. UNCHANGED pool
    BY <1>3 DEF Copy, Assign, Drop, MoveAssign, TakeOver, Own, Subtract, Reset, Destroy, DropMember
  <2>2. ObjInv' /\ Makers' = Makers
    BY <1>0, <1>3, CopyKeeps, AssignKeeps, DropKeeps, MoveAssignKeeps, TakeOverKeeps, OwnKeeps,
       SubtractKeeps, ResetKeeps, DestroyKeeps
  <2>3. UNCHANGED built
    BY <1>3 DEF Copy, Assign, Drop, MoveAssign, TakeOver, Own, Subtract, Reset, Destroy, DropMember
  <2>4. QED
    BY <1>0, <2>1, <2>2, <2>3, PoolStays DEF IInv
<1>4. ASSUME NEW t \in Threads, NEW v \in Vars, NEW w \in Vars, Make(t, v, w) PROVE IInv'
  BY <1>0, <1>4, MakeKeeps, PoolMake DEF IInv
<1>5. ASSUME NEW t \in Threads, Lock(t) PROVE IInv'
  BY <1>0, <1>5, LockKeeps, PoolLock DEF IInv
<1>6. ASSUME NEW t \in Threads, Allocate(t) PROVE IInv'
  BY <1>0, <1>6, AllocateKeeps, PoolAllocate DEF IInv
<1>7. ASSUME NEW t \in Threads, Free(t) PROVE IInv'
  BY <1>0, <1>7, FreeKeeps, PoolFree DEF IInv
<1>8. QED
  BY <1>1, <1>2, <1>3, <1>4, <1>5, <1>6, <1>7 DEF Next, Step

(* The invariant of the objects and the pool holds in every state, unless  *)
(* a pool that gave slots out is cleared.                                  *)
THEOREM Invariant == ASSUME ~ClearsUsedPool PROVE Spec => []IInv
<1>1. Init => IInv
  BY InitInv
<1>2. IInv /\ [Next]_vars => IInv'
  BY NextInv
<1>3. QED
  BY <1>1, <1>2, PTL DEF Spec

(* The count of an object is the number of handles, members and releases   *)
(* still to come that refer to it, and nothing refers to a free slot       *)
(* (PooledSharedPtr, release_ref, atomic_make_shared), for any threads.    *)
THEOREM RefCountExactHolds == ASSUME ~ClearsUsedPool PROVE Spec => []RefCountExact
<1>1. IInv => RefCountExact
  BY DEF IInv, ObjInv, Counted, Count, RefCountExact
<1>2. QED
  BY <1>1, Invariant, PTL

(* Every slot the pool gave out holds an object or is once on the free     *)
(* stack, and live_count_ counts the former (atomic_allocate,              *)
(* atomic_deallocate), unless a pool that gave slots out is cleared.       *)
THEOREM SlotsOnceHolds == ASSUME ~ClearsUsedPool PROVE Spec => []SlotsOnce
<1>1. IInv => SlotsOnce
  BY DEF IInv, PoolInv, FreeSlots, SlotsOnce
<1>2. QED
  BY <1>1, Invariant, PTL

LEMMA TakesWhatItWanted ==
    ASSUME ObjInv, ~MovesFromMember, NEW t \in Threads, TakeOver(t)
    PROVE  ptr'[t][Doing(t).to] = Doing(t).want
<1>1. ~Idle(t) /\ Doing(t).at = "take"
  BY DEF TakeOver, At, Doing
<1>2. PICK c \in Frame : c = Doing(t) /\ FrameOK(t, Top(t)) /\ Top(t)[2] = c
  BY <1>1, TopIs
<1>3. /\ c.to \in Vars /\ c.from.var \in Vars /\ c.from.obj = Null
      /\ c.from.var # c.to /\ ptr[t][c.from.var] = c.want
  BY <1>1, <1>2, FrameFields DEF FrameOK
<1>4. PICK w \in Vars : w = c.from.var
  BY <1>3
<1>5. ptr' = [ptr EXCEPT ![t][c.to] = ptr[t][w], ![t][w] = Null]
  BY <1>2, <1>3, <1>4 DEF TakeOver
<1>6. ptr \in [Threads -> [Vars -> Slots \cup {Null}]]
  BY DEF ObjInv, Types
<1>7. ptr'[t][c.to] = ptr[t][w]
  BY <1>3, <1>4, <1>5, <1>6
<1>8. QED
  BY <1>2, <1>3, <1>4, <1>7

(* A handle that is move-assigned points to what the other handle pointed  *)
(* to when the call began (operator=), where no member of the object       *)
(* released is moved from and no used pool is cleared.                     *)
THEOREM MoveKeepsObjectHolds ==
    ASSUME ~ClearsUsedPool, ~MovesFromMember
    PROVE  Spec => MoveKeepsObject
<1>1. IInv /\ [Next]_vars => [\A t \in Threads : TakeOver(t) => ptr'[t][Doing(t).to] = Doing(t).want]_vars
  BY TakesWhatItWanted DEF IInv
<1>2. QED
  BY <1>1, Invariant, PTL DEF Spec, MoveKeepsObject
====
