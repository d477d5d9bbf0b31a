-------------------------- MODULE RoleSessionProofs --------------------------
(***************************************************************************)
(* What a role invocation keeps to in RoleSession, for any number of       *)
(* processes and effects, wherever frames are in the pipes.  No property   *)
(* is inductive by itself: Protocol follows each effect through the gates, *)
(* pipes and conversations between its process and the host.               *)
(***************************************************************************)
EXTENDS RoleSession, SequenceTheorems, TLAPS

\* The effects that frames and replies in a pipe are about.
Named(s, type) == {e \in Effects : \E i \in 1 .. Len(s) : s[i].type = type /\ s[i].e = e}
Answered(s) == {e \in Effects : \E i \in 1 .. Len(s) : s[i].e = e}
Approved(s) == {e \in Effects : \E i \in 1 .. Len(s) : s[i].e = e /\ s[i].allowed}

\* No effect is asked for or settled twice in a pipe, or answered twice.
OnceEach(s) ==
  \A i, j \in 1 .. Len(s) :
    s[i].type = s[j].type /\ s[i].e = s[j].e /\ s[i].type # "result" => i = j
AnsweredOnce(s) == \A i, j \in 1 .. Len(s) : s[i].e = s[j].e => i = j

\* Where an effect can be between process n and its parent.
Requested(n) == Named(up[n], "admit")
Settling(n) == Named(up[n], "settled")
Replied(n) == Answered(down[n])
Allowed(n) == Approved(down[n])
Served(n) == {e \in Effects : serve[n].pc = "asking" /\ serve[n].e = e}
Held(n) == gate[n].outstanding

Asks == {"waiting", "cleared", "granted", "refused"}
Ready == {"granted", "refused"}
InHand == {"running", "dropping"}
Ended == {"idle"} \union Finals

(***************************************************************************)
(* Pipes                                                                   *)
(***************************************************************************)
LEMMA AppendNamed ==
  ASSUME NEW s \in Seq(Frames), NEW f \in Frames, NEW type
  PROVE  /\ Append(s, f) \in Seq(Frames)
         /\ \A e \in Effects : e \in Named(Append(s, f), type) <=>
              e \in Named(s, type) \/ (f.type = type /\ f.e = e)
         /\ OnceEach(s) /\ (f.type = "result" \/ f.e \notin Named(s, f.type))
              => OnceEach(Append(s, f))
<1> DEFINE t == Append(s, f)
<1>1. /\ t \in Seq(Frames) /\ Len(t) = Len(s) + 1 /\ Len(s) \in Nat
      /\ t[Len(s) + 1] = f /\ \A i \in 1 .. Len(s) : t[i] = s[i]
  BY AppendProperties, LenProperties
<1> HIDE DEF t
<1>2. \A e \in Effects : e \in Named(t, type) <=> e \in Named(s, type) \/ (f.type = type /\ f.e = e)
  <2> TAKE e \in Effects
  <2>1. ASSUME e \in Named(t, type) PROVE e \in Named(s, type) \/ (f.type = type /\ f.e = e)
    <3>1. PICK i \in 1 .. Len(t) : t[i].type = type /\ t[i].e = e
      BY <2>1 DEF Named
    <3>2. i \in 1 .. Len(s) \/ i = Len(s) + 1
      BY <1>1
    <3> QED
      BY <1>1, <3>1, <3>2 DEF Named
  <2>2. ASSUME e \in Named(s, type) PROVE e \in Named(t, type)
    <3>1. PICK i \in 1 .. Len(s) : s[i].type = type /\ s[i].e = e
      BY <2>2 DEF Named
    <3> QED
      BY <1>1, <3>1 DEF Named
  <2>3. ASSUME f.type = type, f.e = e PROVE e \in Named(t, type)
    BY <1>1, <2>3 DEF Named
  <2> QED
    BY <2>1, <2>2, <2>3
<1>3. ASSUME OnceEach(s), f.type = "result" \/ f.e \notin Named(s, f.type)
      PROVE  OnceEach(t)
  <2> SUFFICES ASSUME NEW i \in 1 .. Len(t), NEW j \in 1 .. Len(t),
                      t[i].type = t[j].type, t[i].e = t[j].e, t[i].type # "result"
               PROVE  i = j
    BY DEF OnceEach
  <2>1. /\ i \in 1 .. Len(s) \/ i = Len(s) + 1
        /\ j \in 1 .. Len(s) \/ j = Len(s) + 1
    BY <1>1
  <2>2. \A k \in 1 .. Len(s) : t[k].type = f.type /\ t[k].e = f.e => f.type = "result"
    <3> TAKE k \in 1 .. Len(s)
    <3>1. s[k] \in Frames
      BY ElementOfSeq
    <3> QED
      BY <1>1, <1>3, <3>1 DEF Named, Frames, Result
  <2> QED
    BY <1>1, <1>3, <2>1, <2>2 DEF OnceEach
<1> QED
  BY <1>1, <1>2, <1>3 DEF t

LEMMA TailNamed ==
  ASSUME NEW s \in Seq(Frames), s # <<>>, NEW type
  PROVE  /\ Tail(s) \in Seq(Frames) /\ Head(s) \in Frames
         /\ Named(Tail(s), type) \subseteq Named(s, type)
         /\ \A e \in Named(s, type) :
              e \in Named(Tail(s), type) \/ (Head(s).type = type /\ Head(s).e = e)
         /\ Head(s).type = type /\ type # "result" => Head(s).e \in Named(s, type)
         /\ OnceEach(s) => OnceEach(Tail(s))
         /\ OnceEach(s) /\ Head(s).type = type /\ type # "result" =>
              Head(s).e \notin Named(Tail(s), type)
<1> DEFINE t == Tail(s)
<1>1. /\ t \in Seq(Frames) /\ Head(s) \in Frames /\ Head(s) = s[1]
      /\ Len(s) \in Nat \ {0} /\ Len(t) = Len(s) - 1
      /\ \A i \in 1 .. Len(t) : t[i] = s[i + 1]
  BY HeadTailProperties, LenProperties, EmptySeq
<1> HIDE DEF t
<1>2. ASSUME NEW e \in Named(t, type) PROVE e \in Named(s, type)
  <2>1. PICK i \in 1 .. Len(t) : t[i].type = type /\ t[i].e = e
    BY <1>2 DEF Named
  <2>2. i + 1 \in 1 .. Len(s)
    BY <1>1
  <2> QED
    BY <1>1, <2>1, <2>2 DEF Named
<1>3. ASSUME NEW e \in Named(s, type)
      PROVE  e \in Named(t, type) \/ (Head(s).type = type /\ Head(s).e = e)
  <2>1. PICK i \in 1 .. Len(s) : s[i].type = type /\ s[i].e = e
    BY <1>3 DEF Named
  <2>2. CASE i = 1
    BY <1>1, <2>1, <2>2
  <2>3. CASE i # 1
    <3>1. i - 1 \in 1 .. Len(t) /\ t[i - 1] = s[i]
      BY <1>1, <2>3
    <3> QED
      BY <2>1, <3>1 DEF Named
  <2> QED
    BY <2>2, <2>3
<1>4. Head(s).type = type /\ type # "result" => Head(s).e \in Named(s, type)
  BY <1>1 DEF Named, Frames, Result
<1>5. ASSUME OnceEach(s) PROVE OnceEach(t)
  <2> SUFFICES ASSUME NEW i \in 1 .. Len(t), NEW j \in 1 .. Len(t),
                      t[i].type = t[j].type, t[i].e = t[j].e, t[i].type # "result"
               PROVE  i = j
    BY DEF OnceEach
  <2>1. i + 1 \in 1 .. Len(s) /\ j + 1 \in 1 .. Len(s)
    BY <1>1
  <2>2. i + 1 = j + 1
    BY <1>1, <1>5, <2>1 DEF OnceEach
  <2> QED
    BY <2>2
<1>6. ASSUME OnceEach(s), Head(s).type = type, type # "result", Head(s).e \in Named(t, type)
      PROVE  FALSE
  <2>1. PICK i \in 1 .. Len(t) : t[i].type = type /\ t[i].e = Head(s).e
    BY <1>6 DEF Named
  <2>2. i + 1 \in 1 .. Len(s) /\ 1 \in 1 .. Len(s) /\ i + 1 # 1
    BY <1>1
  <2> QED
    BY <1>1, <1>6, <2>1, <2>2 DEF OnceEach
<1> QED
  BY <1>1, <1>2, <1>3, <1>4, <1>5, <1>6 DEF t

LEMMA AppendReply ==
  ASSUME NEW s \in Seq(Replies), NEW f \in Replies
  PROVE  /\ Append(s, f) \in Seq(Replies)
         /\ \A e \in Effects :
              /\ e \in Answered(Append(s, f)) <=> e \in Answered(s) \/ f.e = e
              /\ e \in Approved(Append(s, f)) <=> e \in Approved(s) \/ (f.e = e /\ f.allowed)
         /\ AnsweredOnce(s) /\ f.e \notin Answered(s) => AnsweredOnce(Append(s, f))
<1> DEFINE t == Append(s, f)
<1>1. /\ t \in Seq(Replies) /\ Len(t) = Len(s) + 1 /\ Len(s) \in Nat
      /\ t[Len(s) + 1] = f /\ \A i \in 1 .. Len(s) : t[i] = s[i]
  BY AppendProperties, LenProperties
<1> HIDE DEF t
<1>2. \A i \in 1 .. Len(t) : i \in 1 .. Len(s) \/ i = Len(s) + 1
  BY <1>1
<1>3. \A i \in 1 .. Len(s) : i \in 1 .. Len(t)
  BY <1>1
<1>4. Len(s) + 1 \in 1 .. Len(t)
  BY <1>1
<1>5. ASSUME NEW e \in Effects
      PROVE  /\ e \in Answered(t) <=> e \in Answered(s) \/ f.e = e
             /\ e \in Approved(t) <=> e \in Approved(s) \/ (f.e = e /\ f.allowed)
  <2>1. ASSUME e \in Answered(t) PROVE e \in Answered(s) \/ f.e = e
    BY <1>1, <1>2, <2>1 DEF Answered
  <2>2. ASSUME e \in Approved(t) PROVE e \in Approved(s) \/ (f.e = e /\ f.allowed)
    BY <1>1, <1>2, <2>2 DEF Approved
  <2>3. ASSUME e \in Answered(s) \/ f.e = e PROVE e \in Answered(t)
    BY <1>1, <1>3, <1>4, <2>3 DEF Answered
  <2>4. ASSUME e \in Approved(s) \/ (f.e = e /\ f.allowed) PROVE e \in Approved(t)
    BY <1>1, <1>3, <1>4, <2>4 DEF Approved
  <2> QED
    BY <2>1, <2>2, <2>3, <2>4
<1>6. ASSUME AnsweredOnce(s), f.e \notin Answered(s)
      PROVE  AnsweredOnce(t)
  <2>1. f.e \in Effects
    BY DEF Replies
  <2>2. \A i \in 1 .. Len(s) : s[i].e # f.e
    BY <1>6, <2>1 DEF Answered
  <2> QED
    BY <1>1, <1>2, <1>6, <2>2 DEF AnsweredOnce
<1> QED
  BY <1>1, <1>5, <1>6 DEF t

LEMMA TailReply ==
  ASSUME NEW s \in Seq(Replies), s # <<>>
  PROVE  /\ Tail(s) \in Seq(Replies) /\ Head(s) \in Replies
         /\ Answered(Tail(s)) \subseteq Answered(s) /\ Approved(Tail(s)) \subseteq Approved(s)
         /\ \A e \in Answered(s) : e \in Answered(Tail(s)) \/ Head(s).e = e
         /\ Head(s).e \in Answered(s)
         /\ Head(s).allowed => Head(s).e \in Approved(s)
         /\ AnsweredOnce(s) => AnsweredOnce(Tail(s)) /\ Head(s).e \notin Answered(Tail(s))
<1> DEFINE t == Tail(s)
<1>1. /\ t \in Seq(Replies) /\ Head(s) \in Replies /\ Head(s) = s[1]
      /\ Len(s) \in Nat \ {0} /\ Len(t) = Len(s) - 1
      /\ \A i \in 1 .. Len(t) : t[i] = s[i + 1]
  BY HeadTailProperties, LenProperties, EmptySeq
<1> HIDE DEF t
<1>2. \A i \in 1 .. Len(t) : i + 1 \in 1 .. Len(s) /\ t[i] = s[i + 1]
  BY <1>1
<1>3. \A i \in 1 .. Len(s) : i = 1 \/ (i - 1 \in 1 .. Len(t) /\ t[i - 1] = s[i])
  BY <1>1
<1>4. Answered(t) \subseteq Answered(s) /\ Approved(t) \subseteq Approved(s)
  BY <1>2 DEF Answered, Approved
<1>5. \A e \in Answered(s) : e \in Answered(t) \/ Head(s).e = e
  BY <1>1, <1>3 DEF Answered
<1>6. Head(s).e \in Answered(s) /\ (Head(s).allowed => Head(s).e \in Approved(s))
  BY <1>1 DEF Answered, Approved, Replies
<1>7. ASSUME AnsweredOnce(s) PROVE AnsweredOnce(t) /\ Head(s).e \notin Answered(t)
  <2>1. AnsweredOnce(t)
    <3> SUFFICES ASSUME NEW i \in 1 .. Len(t), NEW j \in 1 .. Len(t), t[i].e = t[j].e
                 PROVE  i = j
      BY DEF AnsweredOnce
    <3>1. i + 1 = j + 1
      BY <1>2, <1>7 DEF AnsweredOnce
    <3> QED
      BY <3>1
  <2>2. \A i \in 1 .. Len(t) : t[i].e # Head(s).e
    <3> SUFFICES ASSUME NEW i \in 1 .. Len(t), t[i].e = Head(s).e
                 PROVE  FALSE
      OBVIOUS
    <3>1. i + 1 \in 1 .. Len(s) /\ 1 \in 1 .. Len(s) /\ i + 1 # 1
      BY <1>1
    <3> QED
      BY <1>1, <1>7, <3>1 DEF AnsweredOnce
  <2> QED
    BY <2>1, <2>2 DEF Answered
<1> QED
  BY <1>1, <1>4, <1>5, <1>6, <1>7 DEF t
(***************************************************************************)
(* Types and the elementary changes                                        *)
(***************************************************************************)
Gates == [closed : BOOLEAN, outstanding : SUBSET Effects]

\* TypeOK but for what permits say of the launch.
Domains ==
  /\ gate \in [Levels -> Gates]
  /\ ask \in [Levels -> [Effects -> AskStates]]
  /\ effect \in [Effects -> EffectStates]
  /\ alive \subseteq Levels /\ 0 \in alive /\ reader \subseteq alive
  /\ serve \in [Children -> Talks]
  /\ permits \in [Children -> SUBSET Effects]
  /\ up \in [Children -> Seq(Frames)] /\ down \in [Children -> Seq(Replies)]
  /\ outcome \in [Effects -> Outcomes]
  /\ ack \in [sent : BOOLEAN, outstanding : SUBSET Effects]
  /\ orphaned \subseteq Effects

KeptByLaunch == \A n \in Children : permits[n] # {} => effect[Launch[n]] \in InHand

LEMMA TypeSplit == TypeOK <=> Domains /\ KeptByLaunch
BY DEF TypeOK, Domains, KeptByLaunch, Gates, InHand

LEMMA Places ==
  /\ Depth \in Nat /\ 0 \in Levels /\ Children \subseteq Levels /\ 0 \notin Children
  /\ \A n \in Levels : n \in Int /\ n >= 0 /\ (n = 0 \/ n \in Children)
  /\ \A n \in Children : n - 1 \in Levels /\ n - 1 # n /\ (n = 1 \/ n - 1 \in Children)
  /\ \A n \in Children : (n = 1 <=> n - 1 = 0)
  /\ \A e \in Effects : Level[e] \in Levels
  /\ \A e \in Effects, n \in Levels : n < Level[e] => n + 1 \in Children
  /\ \A n \in Children : Launch[n] \in Effects /\ Level[Launch[n]] = n - 1
  /\ \A e \in Effects : \A n \in Launches(e) : n \in Children /\ Launch[n] = e /\ n = Level[e] + 1
BY RoleAssumption DEF Levels, Children, Launches

\* In all of the following the pipes name no effect twice.
PipesOnce == \A m \in Children : OnceEach(up[m]) /\ AnsweredOnce(down[m])

UpTyped == up' \in [Children -> Seq(Frames)]
DownTyped == down' \in [Children -> Seq(Replies)]

\* Process n sends a frame about e, if it is not the host.
UpGains(n, type, e) ==
  /\ UpTyped
  /\ \A m \in Children : \A f \in Effects :
       /\ f \in Requested(m)' <=> f \in Requested(m) \/ (type = "admit" /\ m = n /\ f = e)
       /\ f \in Settling(m)' <=> f \in Settling(m) \/ (type = "settled" /\ m = n /\ f = e)
  /\ \A m \in Children :
       OnceEach(up[m]) /\ (m = n => e \notin Named(up[m], type)) => OnceEach(up[m])'

\* The frame of process n about e is read.
UpLoses(n, type, e) ==
  /\ UpTyped
  /\ \A m \in Children : \A f \in Effects :
       /\ f \in Requested(m)' <=> f \in Requested(m) /\ ~(type = "admit" /\ m = n /\ f = e)
       /\ f \in Settling(m)' <=> f \in Settling(m) /\ ~(type = "settled" /\ m = n /\ f = e)
  /\ \A m \in Children : OnceEach(up[m]) => OnceEach(up[m])'

\* The same, and it is passed on to the next process.
UpPasses(n, type, e) ==
  /\ UpTyped
  /\ \A m \in Children : \A f \in Effects :
       /\ f \in Requested(m)' <=> \/ f \in Requested(m) /\ ~(type = "admit" /\ m = n /\ f = e)
                                  \/ type = "admit" /\ m = n - 1 /\ f = e
       /\ f \in Settling(m)' <=> \/ f \in Settling(m) /\ ~(type = "settled" /\ m = n /\ f = e)
                                 \/ type = "settled" /\ m = n - 1 /\ f = e
  /\ \A m \in Children :
       OnceEach(up[m]) /\ (m = n - 1 => e \notin Named(up[m], type)) => OnceEach(up[m])'

DownGains(n, e, allowed) ==
  /\ DownTyped
  /\ \A m \in Children : \A f \in Effects :
       /\ f \in Replied(m)' <=> f \in Replied(m) \/ (m = n /\ f = e)
       /\ f \in Allowed(m)' <=> f \in Allowed(m) \/ (m = n /\ f = e /\ allowed)
  /\ \A m \in Children :
       AnsweredOnce(down[m]) /\ (m = n => e \notin Replied(m)) => AnsweredOnce(down[m])'

DownLoses(n, e) ==
  /\ DownTyped
  /\ \A m \in Children : \A f \in Effects :
       /\ f \in Replied(m)' <=> f \in Replied(m) /\ ~(m = n /\ f = e)
       /\ m # n => (f \in Allowed(m)' <=> f \in Allowed(m))
       /\ f \in Allowed(m)' => f \in Allowed(m)
  /\ \A m \in Children : AnsweredOnce(down[m]) => AnsweredOnce(down[m])'

LEMMA SendUpChange ==
  ASSUME Domains, NEW n \in Levels, NEW frame \in Frames, frame.type # "result",
         SendUp(n, frame)
  PROVE  UpGains(n, frame.type, frame.e)
<1>1. ASSUME n = 0 PROVE up' = up
  BY <1>1 DEF SendUp
<1>2. ASSUME n # 0 PROVE n \in Children /\ up' = [up EXCEPT ![n] = Append(up[n], frame)]
  BY <1>2, Places DEF SendUp
<1>3. \A m \in Children : up[m] \in Seq(Frames)
  BY DEF Domains
<1>4. UpTyped
  <2>1. n # 0 => Append(up[n], frame) \in Seq(Frames)
    BY <1>2, <1>3, AppendNamed
  <2> QED
    BY <1>1, <1>2, <2>1 DEF UpTyped, Domains
<1>5. \A m \in Children : m # n => up'[m] = up[m]
  BY <1>1, <1>2 DEF Domains
<1>6. n # 0 => up'[n] = Append(up[n], frame)
  BY <1>2 DEF Domains
<1>7. ASSUME NEW m \in Children, NEW f \in Effects
      PROVE  /\ f \in Requested(m)' <=>
                  f \in Requested(m) \/ (frame.type = "admit" /\ m = n /\ f = frame.e)
             /\ f \in Settling(m)' <=>
                  f \in Settling(m) \/ (frame.type = "settled" /\ m = n /\ f = frame.e)
  <2>1. CASE m = n
    <3>1. up'[m] = Append(up[m], frame)
      BY <1>6, <2>1, Places
    <3>2. f \in Named(Append(up[m], frame), "admit") <=>
            f \in Named(up[m], "admit") \/ (frame.type = "admit" /\ frame.e = f)
      BY <1>3, AppendNamed
    <3>3. f \in Named(Append(up[m], frame), "settled") <=>
            f \in Named(up[m], "settled") \/ (frame.type = "settled" /\ frame.e = f)
      BY <1>3, AppendNamed
    <3> QED
      BY <2>1, <3>1, <3>2, <3>3 DEF Requested, Settling
  <2>2. CASE m # n
    BY <1>5, <2>2 DEF Requested, Settling
  <2> QED
    BY <2>1, <2>2
<1>8. ASSUME NEW m \in Children, OnceEach(up[m]), m = n => frame.e \notin Named(up[m], frame.type)
      PROVE  OnceEach(up[m])'
  <2>1. CASE m = n
    <3>1. up'[m] = Append(up[m], frame)
      BY <1>6, <2>1, Places
    <3>2. OnceEach(Append(up[m], frame))
      BY <1>3, <1>8, <2>1, AppendNamed
    <3> QED
      BY <3>1, <3>2
  <2>2. CASE m # n
    BY <1>5, <1>8, <2>2
  <2> QED
    BY <2>1, <2>2
<1> QED
  BY <1>4, <1>7, <1>8 DEF UpGains

\* Reading the first frame of process n, without and with passing it on.
LEMMA ReadUpChange ==
  ASSUME Domains, PipesOnce, NEW n \in Children, up[n] # <<>>, Head(up[n]).type # "result",
         NEW frame \in Frames, frame.type = Head(up[n]).type, frame.e = Head(up[n]).e
  PROVE  /\ up' = [up EXCEPT ![n] = Tail(up[n])] => UpLoses(n, frame.type, frame.e)
         /\ up' = [m \in Children |->
              CASE m = n -> Tail(up[n])
                [] m = n - 1 -> Append(up[m], frame)
                [] OTHER -> up[m]] => UpPasses(n, frame.type, frame.e)
         /\ frame.e \in Named(up[n], frame.type)
         /\ frame.type \in {"admit", "settled"} /\ frame.e \in Effects
<1>1. \A m \in Children : up[m] \in Seq(Frames) /\ OnceEach(up[m])
  BY DEF Domains, PipesOnce
<1> DEFINE t == Tail(up[n])
<1>2. /\ t \in Seq(Frames) /\ Head(up[n]) \in Frames /\ OnceEach(t)
      /\ \A type : Named(t, type) \subseteq Named(up[n], type)
      /\ \A type : \A e \in Named(up[n], type) :
           e \in Named(t, type) \/ (Head(up[n]).type = type /\ Head(up[n]).e = e)
      /\ frame.e \in Named(up[n], frame.type)
      /\ frame.e \notin Named(t, frame.type)
  BY <1>1, TailNamed
<1> HIDE DEF t
<1>3. \A type : \A f \in Effects :
        f \in Named(t, type) <=> f \in Named(up[n], type) /\ ~(frame.type = type /\ f = frame.e)
  BY <1>2
<1>4. frame.type \in {"admit", "settled"} /\ frame.e \in Effects
  BY DEF Frames, Result
<1>5. ASSUME up' = [up EXCEPT ![n] = t] PROVE UpLoses(n, frame.type, frame.e)
  <2>1. UpTyped /\ up'[n] = t /\ \A m \in Children : m # n => up'[m] = up[m]
    BY <1>2, <1>5 DEF Domains, UpTyped
  <2> QED
    BY <1>1, <1>2, <1>3, <2>1 DEF UpLoses, Requested, Settling
<1>6. ASSUME up' = [m \in Children |->
                      CASE m = n -> t
                        [] m = n - 1 -> Append(up[m], frame)
                        [] OTHER -> up[m]]
      PROVE  UpPasses(n, frame.type, frame.e)
  <2>0. n # n - 1
    BY Places
  <2>1. /\ up'[n] = t
        /\ \A m \in Children : m = n - 1 => up'[m] = Append(up[m], frame)
        /\ \A m \in Children : m # n /\ m # n - 1 => up'[m] = up[m]
    BY <1>6, <2>0, Places
  <2>2. UpTyped
    <3>1. \A m \in Children : Append(up[m], frame) \in Seq(Frames)
      BY <1>1, AppendNamed
    <3>2. \A m \in Children : up'[m] \in Seq(Frames)
      BY <1>1, <1>2, <2>1, <3>1
    <3> QED
      BY <1>6, <3>2 DEF UpTyped
  <2>3. ASSUME NEW m \in Children, NEW f \in Effects
        PROVE  /\ f \in Requested(m)' <=> \/ f \in Requested(m) /\ ~(frame.type = "admit" /\ m = n /\ f = frame.e)
                                          \/ frame.type = "admit" /\ m = n - 1 /\ f = frame.e
               /\ f \in Settling(m)' <=> \/ f \in Settling(m) /\ ~(frame.type = "settled" /\ m = n /\ f = frame.e)
                                         \/ frame.type = "settled" /\ m = n - 1 /\ f = frame.e
    <3>1. CASE m = n
      BY <1>3, <2>0, <2>1, <3>1 DEF Requested, Settling
    <3>2. CASE m = n - 1
      <4>1. f \in Named(Append(up[m], frame), "admit") <=>
              f \in Named(up[m], "admit") \/ (frame.type = "admit" /\ frame.e = f)
        BY <1>1, AppendNamed
      <4>2. f \in Named(Append(up[m], frame), "settled") <=>
              f \in Named(up[m], "settled") \/ (frame.type = "settled" /\ frame.e = f)
        BY <1>1, AppendNamed
      <4> QED
        BY <2>0, <2>1, <3>2, <4>1, <4>2 DEF Requested, Settling
    <3>3. CASE m # n /\ m # n - 1
      BY <2>1, <3>3 DEF Requested, Settling
    <3> QED
      BY <3>1, <3>2, <3>3
  <2>4. ASSUME NEW m \in Children, m = n - 1 => frame.e \notin Named(up[m], frame.type)
        PROVE  OnceEach(up'[m])
    <3>1. CASE m = n - 1
      BY <1>1, <2>1, <2>4, <3>1, AppendNamed
    <3> QED
      BY <1>1, <1>2, <2>1, <3>1
  <2> QED
    BY <2>2, <2>3, <2>4 DEF UpPasses
<1> QED
  BY <1>2, <1>4, <1>5, <1>6 DEF t

LEMMA ReplyChange ==
  ASSUME Domains, NEW n \in Children, NEW e \in Effects, NEW ok \in BOOLEAN,
         down' = [down EXCEPT ![n] = Append(down[n], [e |-> e, allowed |-> ok])]
  PROVE  DownGains(n, e, ok)
<1> DEFINE r == [e |-> e, allowed |-> ok]
<1>1. r \in Replies /\ r.e = e /\ r.allowed = ok /\ down[n] \in Seq(Replies)
  BY DEF Replies, Domains
<1> HIDE DEF r
<1>2. down' = [down EXCEPT ![n] = Append(down[n], r)]
  BY DEF r
<1>3. /\ down'[n] = Append(down[n], r) /\ \A m \in Children : m # n => down'[m] = down[m]
      /\ DownTyped
  BY <1>1, <1>2, AppendReply DEF Domains, DownTyped
<1>4. ASSUME NEW m \in Children, NEW f \in Effects
      PROVE  /\ f \in Replied(m)' <=> f \in Replied(m) \/ (m = n /\ f = e)
             /\ f \in Allowed(m)' <=> f \in Allowed(m) \/ (m = n /\ f = e /\ ok)
  BY <1>1, <1>3, AppendReply DEF Replied, Allowed
<1>5. ASSUME NEW m \in Children, AnsweredOnce(down[m]), m = n => e \notin Replied(m)
      PROVE  AnsweredOnce(down'[m])
  BY <1>1, <1>3, <1>5, AppendReply DEF Replied
<1> QED
  BY <1>3, <1>4, <1>5 DEF DownGains

LEMMA ReadReplyChange ==
  ASSUME Domains, PipesOnce, NEW n \in Children, down[n] # <<>>,
         down' = [down EXCEPT ![n] = Tail(down[n])]
  PROVE  /\ DownLoses(n, Head(down[n]).e)
         /\ Head(down[n]) \in Replies /\ Head(down[n]).e \in Replied(n)
         /\ Head(down[n]).allowed => Head(down[n]).e \in Allowed(n)
<1>1. \A m \in Children : down[m] \in Seq(Replies) /\ AnsweredOnce(down[m])
  BY DEF Domains, PipesOnce
<1>2. /\ down'[n] = Tail(down[n]) /\ \A m \in Children : m # n => down'[m] = down[m]
      /\ DownTyped
  BY <1>1, TailReply DEF Domains, DownTyped
<1>3. /\ Tail(down[n]) \in Seq(Replies) /\ Head(down[n]) \in Replies
      /\ Answered(Tail(down[n])) \subseteq Answered(down[n])
      /\ Approved(Tail(down[n])) \subseteq Approved(down[n])
      /\ \A e \in Answered(down[n]) : e \in Answered(Tail(down[n])) \/ Head(down[n]).e = e
      /\ Head(down[n]).e \in Answered(down[n])
      /\ Head(down[n]).allowed => Head(down[n]).e \in Approved(down[n])
      /\ AnsweredOnce(Tail(down[n])) /\ Head(down[n]).e \notin Answered(Tail(down[n]))
  BY <1>1, TailReply
<1> DEFINE h == Head(down[n])  t == Tail(down[n])
<1> HIDE DEF h, t
<1>4. ASSUME NEW m \in Children, NEW f \in Effects
      PROVE  /\ f \in Replied(m)' <=> f \in Replied(m) /\ ~(m = n /\ f = h.e)
             /\ m # n => (f \in Allowed(m)' <=> f \in Allowed(m))
             /\ f \in Allowed(m)' => f \in Allowed(m)
  BY <1>2, <1>3 DEF Replied, Allowed, h, t
<1> QED
  BY <1>1, <1>2, <1>3, <1>4 DEF DownLoses, Replied, Allowed, h
(***************************************************************************)
(* The protocol of one effect                                              *)
(***************************************************************************)
\* A trace of an effect is found from its process upwards, once it is begun.
Placed(e) ==
  /\ \A n \in Children :
       e \in Requested(n) \union Settling(n) \union Replied(n) \union Served(n) \union permits[n] =>
         n <= Level[e] /\ effect[e] # "idle"
  /\ \A n \in Levels :
       ask[n][e] # "none" \/ e \in Held(n) => n <= Level[e] /\ effect[e] # "idle"
  /\ outcome[e] # "none" => effect[e] # "idle"

\* No process above n has heard of e, nor has the conversation with n.
Unseen(e, n) ==
  /\ \A m \in Levels : m < n => ask[m][e] = "none" /\ e \notin Held(m)
  /\ \A m \in Children : m < n => e \notin Requested(m)
  /\ \A m \in Children : m <= n =>
       e \notin Settling(m) /\ e \notin Replied(m) /\ e \notin Served(m) /\ e \notin permits[m]
  /\ outcome[e] = "none"

RequestedOnce(e) ==
  \A n \in Children : e \in Requested(n) => Unseen(e, n) /\ ask[n][e] \notin Ready

ServedOnce(e) ==
  \A n \in Children : e \in Served(n) =>
    /\ e \notin permits[n] /\ e \notin Replied(n) /\ e \notin Settling(n)
    /\ ask[n][e] \notin Ready

RepliedOnce(e) ==
  \A n \in Children :
    /\ e \in Allowed(n) => e \in permits[n]
    /\ e \in Replied(n) => ask[n][e] \notin Ready /\ e \notin Held(n) /\ e \notin Settling(n)

GrantedOnce(e) ==
  /\ \A n \in Children : ask[n][e] = "granted" =>
       e \in permits[n] /\ e \notin Settling(n) /\ e \notin Held(n)
  /\ ask[0][e] \in {"none", "granted"}
  /\ ask[0][e] = "granted" => e \notin Held(0) /\ outcome[e] = "none"

\* A permit is held by every process above, and settled from below.
HeldAbove(e) ==
  /\ \A n \in Children : e \in Held(n) =>
       e \in permits[n] /\ ask[n][e] = "none" /\ e \notin Settling(n)
  /\ e \in Held(0) => outcome[e] = "none"
  /\ \A n \in Children : e \in permits[n] => e \in Held(n - 1)
  /\ \A n \in Children : e \in Settling(n) => e \in permits[n] /\ ask[n][e] = "none"
  /\ \A m, n \in Levels : m <= n /\ e \in Held(n) => e \in Held(m)
  /\ \A n \in Levels : e \in Held(n) /\ n < Level[e] => e \in permits[n + 1]

\* A process asks for another one's effect only while it talks to the child.
Forwarded(e) ==
  \A n \in Levels : n < Level[e] /\ ask[n][e] \in Asks => e \in Served(n + 1)

\* What the effect's own process knows of it.
Own(e) ==
  /\ effect[e] \in InHand <=> e \in Held(Level[e])
  /\ effect[e] = "asking" <=> ask[Level[e]][e] \in Asks

Protocol(e) ==
  /\ Placed(e)
  /\ RequestedOnce(e)
  /\ ServedOnce(e)
  /\ RepliedOnce(e)
  /\ GrantedOnce(e)
  /\ HeldAbove(e)
  /\ Forwarded(e)
  /\ Own(e)

\* What a step leaves as it is.
FateSame(e) == effect'[e] = effect[e] /\ outcome'[e] = outcome[e]
AskSame(e) == \A m \in Levels : ask'[m][e] = ask[m][e]
HeldSame(e) == \A m \in Levels : e \in Held(m)' <=> e \in Held(m)
RequestedSame(e) == \A m \in Children : e \in Requested(m)' <=> e \in Requested(m)
SettlingSame(e) == \A m \in Children : e \in Settling(m)' <=> e \in Settling(m)
RepliedSame(e) ==
  \A m \in Children : (e \in Replied(m)' <=> e \in Replied(m)) /\ (e \in Allowed(m)' <=> e \in Allowed(m))
ServedSame(e) == \A m \in Children : e \in Served(m)' <=> e \in Served(m)
PermitsSame(e) == \A m \in Children : e \in permits'[m] <=> e \in permits[m]

\* Admissions may lose their sender or their entry without a task.
AskFades(e) ==
  \A m \in Levels :
    \/ ask'[m][e] = ask[m][e]
    \/ ask[m][e] = "waiting" /\ ask'[m][e] = "cleared"
    \/ ask[m][e] = "orphan" /\ ask'[m][e] = "none"

\* Frames may be read.
PipesFade(e) ==
  \A m \in Children :
    /\ e \in Requested(m)' => e \in Requested(m)
    /\ e \in Settling(m)' => e \in Settling(m)
    /\ e \in Replied(m)' => e \in Replied(m)
    /\ e \in Allowed(m)' => e \in Allowed(m)

\* The step is about other effects.
Rests(e) ==
  /\ FateSame(e) /\ AskFades(e) /\ HeldSame(e) /\ ServedSame(e) /\ PermitsSame(e)
  /\ PipesFade(e)

LEMMA AskTypes ==
  ASSUME Domains
  PROVE  /\ \A m \in Levels : \A e \in Effects : ask[m][e] \in AskStates
         /\ \A e \in Effects : effect[e] \in EffectStates /\ outcome[e] \in Outcomes
BY DEF Domains

LEMMA RestsKeeps ==
  ASSUME Domains, NEW e \in Effects, Protocol(e), Rests(e)
  PROVE  Protocol(e)'
<1> USE Places
<1> USE DEF Rests, FateSame, AskFades, HeldSame, ServedSame, PermitsSame, PipesFade
<1>1. Placed(e)'
  BY DEF Protocol, Placed
<1>2. RequestedOnce(e)'
  BY DEF Protocol, RequestedOnce, Unseen, Ready
<1>3. ServedOnce(e)'
  BY DEF Protocol, ServedOnce, Ready
<1>4. RepliedOnce(e)'
  BY DEF Protocol, RepliedOnce, Ready
<1>5. GrantedOnce(e)'
  BY DEF Protocol, GrantedOnce
<1>6. HeldAbove(e)'
  BY DEF Protocol, HeldAbove
<1>7. Forwarded(e)'
  BY DEF Protocol, Forwarded, Asks
<1>8. Own(e)'
  BY DEF Protocol, Own, Asks
<1> QED
  BY <1>1, <1>2, <1>3, <1>4, <1>5, <1>6, <1>7, <1>8 DEF Protocol

\* e is asked for by its own process.
LEMMA AskKeeps ==
  ASSUME Domains, NEW e \in Effects, Protocol(e),
         effect[e] = "idle", effect'[e] = "asking", outcome'[e] = outcome[e],
         \A m \in Levels : ask'[m][e] = IF m = Level[e]
                                       THEN IF m = 0 THEN "granted" ELSE "waiting"
                                       ELSE ask[m][e],
         \A m \in Children : e \in Requested(m)' <=> e \in Requested(m) \/ m = Level[e],
         HeldSame(e), SettlingSame(e), RepliedSame(e), ServedSame(e), PermitsSame(e)
  PROVE  Protocol(e)'
<1>0. /\ \A m \in Levels : ask[m][e] = "none" /\ e \notin Held(m)'
      /\ \A m \in Children :
           /\ e \notin Requested(m) /\ e \notin Settling(m)' /\ e \notin Replied(m)'
           /\ e \notin Served(m)' /\ e \notin permits'[m]
      /\ outcome'[e] = "none"
  BY DEF Protocol, Placed, HeldSame, SettlingSame, RepliedSame, ServedSame, PermitsSame
<1>1. \A m \in Children : e \notin Allowed(m)'
  BY <1>0 DEF Replied, Allowed, Answered, Approved
<1>2. Level[e] \in Levels
  BY Places
<1>3. Placed(e)'
  BY <1>0, <1>2, Places DEF Placed
<1>4. RequestedOnce(e)'
  BY <1>0, <1>2, Places DEF RequestedOnce, Unseen, Ready
<1>5. ServedOnce(e)' /\ RepliedOnce(e)'
  BY <1>0, <1>1 DEF ServedOnce, RepliedOnce
<1>6. GrantedOnce(e)'
  BY <1>0, <1>2, Places DEF GrantedOnce
<1>7. HeldAbove(e)'
  BY <1>0, Places DEF HeldAbove
<1>8. Forwarded(e)'
  BY <1>0, <1>2, Places DEF Forwarded, Asks
<1>9. Own(e)'
  BY <1>0, <1>2, Places DEF Own, Asks, InHand
<1> QED
  BY <1>3, <1>4, <1>5, <1>6, <1>7, <1>8, <1>9 DEF Protocol
\* The admission of e at process n is over, whatever came of it.
AskEnds(n, e) == \A m \in Levels : ask'[m][e] = IF m = n THEN "none" ELSE ask[m][e]

\* The conversation with child n + 1 goes on with an answer.
Answers(n, e, ok) ==
  \A m \in Children :
    /\ e \in Served(m)' <=> e \in Served(m) /\ m # n + 1
    /\ e \in Replied(m)' <=> e \in Replied(m) \/ m = n + 1
    /\ e \in Allowed(m)' <=> e \in Allowed(m) \/ (m = n + 1 /\ ok)

\* A permit is given up at process n; its parent will hear of it.
Tells(n, e) ==
  /\ \A m \in Children : e \in Settling(m)' <=> e \in Settling(m) \/ m = n
  /\ n # 0 => outcome'[e] = outcome[e]

LEMMA OwnRefusalKeeps ==
  ASSUME Domains, NEW e \in Effects, Protocol(e), NEW n \in Levels, n = Level[e],
         ask[n][e] \in Asks, AskEnds(n, e), effect'[e] = "refused",
         HeldSame(e), RequestedSame(e), RepliedSame(e), ServedSame(e), PermitsSame(e),
         \/ SettlingSame(e) /\ outcome'[e] = outcome[e]
         \/ ask[n][e] = "granted" /\ Tells(n, e)
  PROVE  Protocol(e)'
<1> USE Places
<1> USE DEF AskEnds, HeldSame, RequestedSame, RepliedSame, ServedSame, PermitsSame,
            SettlingSame, Tells
<1>1. Placed(e)'
  BY DEF Protocol, Placed, Asks
<1>2. RequestedOnce(e)'
  BY DEF Protocol, RequestedOnce, Unseen, Ready, Asks, Placed
<1>3. ServedOnce(e)'
  BY DEF Protocol, ServedOnce, Ready
<1>4. RepliedOnce(e)'
  BY DEF Protocol, RepliedOnce, Ready
<1>5. GrantedOnce(e)'
  BY DEF Protocol, GrantedOnce
<1>6. HeldAbove(e)'
  BY DEF Protocol, HeldAbove, GrantedOnce, Asks
<1>7. Forwarded(e)'
  BY DEF Protocol, Forwarded, Asks
<1>8. Own(e)'
  BY DEF Protocol, Own, Asks, InHand
<1> QED
  BY <1>1, <1>2, <1>3, <1>4, <1>5, <1>6, <1>7, <1>8 DEF Protocol

LEMMA PassedRefusalKeeps ==
  ASSUME Domains, NEW e \in Effects, Protocol(e), NEW n \in Levels, n < Level[e],
         ask[n][e] \in Asks, AskEnds(n, e), effect'[e] = effect[e],
         Answers(n, e, FALSE),
         HeldSame(e), RequestedSame(e), PermitsSame(e),
         \/ SettlingSame(e) /\ outcome'[e] = outcome[e]
         \/ ask[n][e] = "granted" /\ Tells(n, e)
  PROVE  Protocol(e)'
<1> USE Places
<1>0. e \in Served(n + 1) /\ n + 1 \in Children /\ n \in Int /\ n + 1 # n
  BY DEF Protocol, Forwarded
<1> USE DEF AskEnds, HeldSame, RequestedSame, PermitsSame, SettlingSame, Tells, Answers
<1>1. Placed(e)'
  BY <1>0 DEF Protocol, Placed, Asks
<1>2. RequestedOnce(e)'
  <2> SUFFICES ASSUME NEW k \in Children, e \in Requested(k)'
               PROVE  Unseen(e, k)' /\ ask'[k][e] \notin Ready
    BY DEF RequestedOnce
  <2>1. Unseen(e, k) /\ ask[k][e] \notin Ready
    BY DEF Protocol, RequestedOnce
  <2>2. ~(n < k) /\ ~(n + 1 <= k)
    BY <1>0, <2>1 DEF Unseen, Asks
  <2>3. k \in Int /\ \A m \in Levels : m \in Int
    OBVIOUS
  <2>4. outcome'[e] = "none"
    BY <2>1, <2>2, <2>3, <1>0 DEF Unseen
  <2>5. \A m \in Children : m <= k => e \notin Settling(m)'
    <3>1. ask[n][e] = "granted" => \A m \in Children : m <= k => m # n
      BY <2>1, <2>2, <2>3, <1>0 DEF Ready
    <3> QED
      BY <2>1, <3>1 DEF Unseen
  <2>6. \A m \in Levels : m < k => m # n
    BY <2>2, <2>3
  <2>7. \A m \in Children : m <= k => m # n + 1
    BY <2>2, <2>3, <1>0
  <2>8. \A m \in Levels : m < k => ask'[m][e] = "none" /\ e \notin Held(m)'
    BY <2>1, <2>6 DEF Unseen
  <2>9. \A m \in Children : m <= k => e \notin Replied(m)' /\ e \notin Served(m)' /\ e \notin permits'[m]
    BY <2>1, <2>7 DEF Unseen
  <2>10. \A m \in Children : m < k => e \notin Requested(m)'
    BY <2>1 DEF Unseen
  <2>11. ask'[k][e] \notin Ready
    BY <2>1 DEF Ready
  <2> QED
    BY <2>4, <2>5, <2>8, <2>9, <2>10, <2>11 DEF Unseen
<1>9. \A m \in Levels : m \in Int /\ (m # n => m + 1 # n + 1)
  OBVIOUS
<1>10. \A m \in Children : e \in Settling(m)' => e \in Settling(m) \/ (m = n /\ e \in permits[n] /\ ask[n][e] = "granted")
  BY DEF Protocol, GrantedOnce
<1>3. ServedOnce(e)'
  BY <1>10 DEF Protocol, ServedOnce, Ready
<1>4. RepliedOnce(e)'
  <2>1. e \notin Settling(n + 1) /\ ask[n + 1][e] \notin Ready /\ e \notin permits[n + 1]
    BY <1>0 DEF Protocol, ServedOnce
  <2>2. e \notin Held(n + 1)
    BY <1>0, <2>1 DEF Protocol, HeldAbove
  <2>3. e \notin Settling(n + 1)' /\ ask'[n + 1][e] \notin Ready /\ e \notin Held(n + 1)'
    BY <1>0, <2>1, <2>2, <1>10 DEF Ready
  <2>4. \A m \in Children : m # n + 1 => (e \in Replied(m)' <=> e \in Replied(m))
    OBVIOUS
  <2>5. \A m \in Children : e \in Allowed(m)' => e \in permits'[m]
    BY DEF Protocol, RepliedOnce
  <2>6. ASSUME NEW m \in Children, m # n + 1, e \in Replied(m)'
        PROVE  ask'[m][e] \notin Ready /\ e \notin Held(m)' /\ e \notin Settling(m)'
    <3>1. ask[m][e] \notin Ready /\ e \notin Held(m) /\ e \notin Settling(m)
      BY <2>4, <2>6 DEF Protocol, RepliedOnce
    <3> QED
      BY <3>1, <1>10 DEF Ready
  <2> QED
    BY <2>3, <2>5, <2>6 DEF RepliedOnce
<1>5. GrantedOnce(e)'
  BY DEF Protocol, GrantedOnce
<1>6. HeldAbove(e)'
  <2>1. e \in Held(0) => outcome'[e] = "none"
    BY DEF Protocol, HeldAbove, GrantedOnce
  <2>2. ASSUME NEW k \in Children, e \in Settling(k)'
        PROVE  e \in permits[k] /\ ask'[k][e] = "none"
    BY <1>10, <2>2 DEF Protocol, HeldAbove
  <2>3. ASSUME NEW k \in Children, e \in Held(k)
        PROVE  e \in permits[k] /\ ask'[k][e] = "none" /\ e \notin Settling(k)'
    <3>1. e \in permits[k] /\ ask[k][e] = "none" /\ e \notin Settling(k)
      BY <2>3 DEF Protocol, HeldAbove
    <3> QED
      BY <3>1, <1>10
  <2> QED
    BY <2>1, <2>2, <2>3 DEF Protocol, HeldAbove
<1>7. Forwarded(e)'
  BY <1>0, <1>9 DEF Protocol, Forwarded, Asks
<1>8. Own(e)'
  BY DEF Protocol, Own, Asks, InHand
<1> QED
  BY <1>1, <1>2, <1>3, <1>4, <1>5, <1>6, <1>7, <1>8 DEF Protocol

LEMMA OwnGrantKeeps ==
  ASSUME Domains, NEW e \in Effects, Protocol(e), NEW n \in Levels, n = Level[e],
         ask[n][e] = "granted", AskEnds(n, e), effect'[e] = "running",
         outcome'[e] = outcome[e],
         \A m \in Levels : e \in Held(m)' <=> e \in Held(m) \/ m = n,
         RequestedSame(e), RepliedSame(e), ServedSame(e), PermitsSame(e), SettlingSame(e)
  PROVE  Protocol(e)'
<1> USE Places
<1> USE DEF AskEnds, RequestedSame, RepliedSame, ServedSame, PermitsSame, SettlingSame
<1>1. Placed(e)'
  BY DEF Protocol, Placed, Asks
<1>2. RequestedOnce(e)'
  <2> SUFFICES ASSUME NEW k \in Children, e \in Requested(k)'
               PROVE  Unseen(e, k)' /\ ask'[k][e] \notin Ready
    BY DEF RequestedOnce
  <2>1. Unseen(e, k) /\ ask[k][e] \notin Ready
    BY DEF Protocol, RequestedOnce
  <2>2. ~(n < k)
    BY <2>1 DEF Unseen
  <2> QED
    BY <2>1, <2>2 DEF Unseen, Ready
<1>3. ServedOnce(e)'
  BY DEF Protocol, ServedOnce, Ready
<1>4. RepliedOnce(e)'
  BY DEF Protocol, RepliedOnce, Ready
<1>5. GrantedOnce(e)'
  BY DEF Protocol, GrantedOnce
<1>6. HeldAbove(e)'
  <2>0. n # 0 => e \in permits[n] /\ e \notin Settling(n) /\ e \in Held(n - 1)
    BY DEF Protocol, GrantedOnce, HeldAbove
  <2>1. \A m \in Levels : m < n => e \in Held(m)
    <3>1. n # 0 => n - 1 \in Levels /\ \A m \in Levels : m <= n - 1 => e \in Held(m)
      BY <2>0 DEF Protocol, HeldAbove
    <3> QED
      BY <3>1
  <2>2. \A k \in Children : e \in Held(k)' =>
          e \in permits'[k] /\ ask'[k][e] = "none" /\ e \notin Settling(k)'
    BY <2>0 DEF Protocol, HeldAbove
  <2>3. e \in Held(0)' => outcome'[e] = "none"
    BY DEF Protocol, HeldAbove, GrantedOnce
  <2>4. \A k \in Children : e \in permits'[k] => e \in Held(k - 1)'
    BY DEF Protocol, HeldAbove
  <2>5. \A k \in Children : e \in Settling(k)' => e \in permits'[k] /\ ask'[k][e] = "none"
    BY DEF Protocol, HeldAbove
  <2>6. \A m, k \in Levels : m <= k /\ e \in Held(k)' => e \in Held(m)'
    <3> SUFFICES ASSUME NEW m \in Levels, NEW k \in Levels, m <= k, e \in Held(k)'
                 PROVE  e \in Held(m)'
      OBVIOUS
    <3>1. CASE k = n
      <4>1. m = n \/ m < n
        BY <3>1
      <4> QED
        BY <2>1, <4>1
    <3>2. CASE k # n
      BY <3>2 DEF Protocol, HeldAbove
    <3> QED
      BY <3>1, <3>2
  <2>7. \A k \in Levels : e \in Held(k)' /\ k < Level[e] => e \in permits'[k + 1]
    BY DEF Protocol, HeldAbove
  <2> QED
    BY <2>2, <2>3, <2>4, <2>5, <2>6, <2>7 DEF HeldAbove
<1>7. Forwarded(e)'
  BY DEF Protocol, Forwarded, Asks
<1>8. Own(e)'
  BY DEF Protocol, Own, Asks, InHand
<1> QED
  BY <1>1, <1>2, <1>3, <1>4, <1>5, <1>6, <1>7, <1>8 DEF Protocol

LEMMA PassedGrantKeeps ==
  ASSUME Domains, NEW e \in Effects, Protocol(e), NEW n \in Levels, n < Level[e],
         ask[n][e] = "granted", AskEnds(n, e), FateSame(e),
         \A m \in Levels : e \in Held(m)' <=> e \in Held(m) \/ m = n,
         \A m \in Children : e \in permits'[m] <=> e \in permits[m] \/ m = n + 1,
         Answers(n, e, TRUE), RequestedSame(e), SettlingSame(e)
  PROVE  Protocol(e)'
<1> USE Places
<1>0. e \in Served(n + 1) /\ n + 1 \in Children /\ n \in Int /\ n + 1 # n
  BY DEF Protocol, Forwarded, Asks
<1>00. \A m \in Levels : m \in Int
  OBVIOUS
<1> USE DEF AskEnds, FateSame, RequestedSame, SettlingSame, Answers
<1>1. Placed(e)'
  BY <1>0 DEF Protocol, Placed, Asks
<1>2. RequestedOnce(e)'
  <2> SUFFICES ASSUME NEW k \in Children, e \in Requested(k)'
               PROVE  Unseen(e, k)' /\ ask'[k][e] \notin Ready
    BY DEF RequestedOnce
  <2>1. Unseen(e, k) /\ ask[k][e] \notin Ready
    BY DEF Protocol, RequestedOnce
  <2>2. ~(n < k) /\ ~(n + 1 <= k)
    BY <1>0, <2>1 DEF Unseen, Asks
  <2>3. k \in Int /\ \A m \in Levels : m \in Int
    OBVIOUS
  <2> QED
    BY <2>1, <2>2, <2>3 DEF Unseen, Ready
<1>3. ServedOnce(e)'
  BY <1>0 DEF Protocol, ServedOnce, Ready
<1>4. RepliedOnce(e)'
  <2>1. e \notin Settling(n + 1) /\ ask[n + 1][e] \notin Ready /\ e \notin permits[n + 1]
    BY <1>0 DEF Protocol, ServedOnce
  <2>2. e \notin Held(n + 1)
    BY <1>0, <2>1 DEF Protocol, HeldAbove
  <2> QED
    <3>1. ASSUME NEW m \in Children, m # n + 1, e \in Replied(m)'
          PROVE  ask'[m][e] \notin Ready /\ e \notin Held(m)' /\ e \notin Settling(m)'
      <4>1. ask[m][e] \notin Ready /\ e \notin Held(m) /\ e \notin Settling(m)
        BY <3>1 DEF Protocol, RepliedOnce
      <4> QED
        BY <4>1 DEF Ready
    <3>2. ask'[n + 1][e] \notin Ready /\ e \notin Held(n + 1)' /\ e \notin Settling(n + 1)'
      BY <1>0, <2>1, <2>2 DEF Ready
    <3>3. \A m \in Children : e \in Allowed(m)' => e \in permits'[m]
      BY DEF Protocol, RepliedOnce
    <3> QED
      BY <3>1, <3>2, <3>3 DEF RepliedOnce
<1>5. GrantedOnce(e)'
  BY <1>0 DEF Protocol, GrantedOnce
<1>6. HeldAbove(e)'
  <2>0. n # 0 => e \in permits[n] /\ e \notin Settling(n) /\ e \in Held(n - 1)
    BY DEF Protocol, GrantedOnce, HeldAbove
  <2>1. \A m \in Levels : m < n => e \in Held(m)
    <3>1. n # 0 => n - 1 \in Levels /\ \A m \in Levels : m <= n - 1 => e \in Held(m)
      BY <2>0 DEF Protocol, HeldAbove
    <3> QED
      BY <3>1
  <2>2. \A k \in Children : e \in Held(k)' =>
          e \in permits'[k] /\ ask'[k][e] = "none" /\ e \notin Settling(k)'
    BY <2>0 DEF Protocol, HeldAbove
  <2>3. e \in Held(0)' => outcome'[e] = "none"
    BY DEF Protocol, HeldAbove, GrantedOnce
  <2>4. \A k \in Children : e \in permits'[k] => e \in Held(k - 1)'
    BY <1>00 DEF Protocol, HeldAbove
  <2>5. \A k \in Children : e \in Settling(k)' => e \in permits'[k] /\ ask'[k][e] = "none"
    BY DEF Protocol, HeldAbove
  <2>6. \A m, k \in Levels : m <= k /\ e \in Held(k)' => e \in Held(m)'
    <3> SUFFICES ASSUME NEW m \in Levels, NEW k \in Levels, m <= k, e \in Held(k)'
                 PROVE  e \in Held(m)'
      OBVIOUS
    <3>1. CASE k = n
      <4>1. m = n \/ m < n
        BY <3>1
      <4> QED
        BY <2>1, <4>1
    <3>2. CASE k # n
      BY <3>2 DEF Protocol, HeldAbove
    <3> QED
      BY <3>1, <3>2
  <2>7. \A k \in Levels : e \in Held(k)' /\ k < Level[e] => e \in permits'[k + 1]
    BY DEF Protocol, HeldAbove
  <2> QED
    BY <2>2, <2>3, <2>4, <2>5, <2>6, <2>7 DEF HeldAbove
<1>9. \A m \in Levels : m # n => m + 1 # n + 1
  BY <1>00
<1>7. Forwarded(e)'
  BY <1>0, <1>9 DEF Protocol, Forwarded, Asks
<1>8. Own(e)'
  BY DEF Protocol, Own, Asks, InHand
<1> QED
  BY <1>1, <1>2, <1>3, <1>4, <1>5, <1>6, <1>7, <1>8 DEF Protocol
\* Process n reads the answer to a request that is still registered.
LEMMA TakeKeeps ==
  ASSUME Domains, NEW e \in Effects, Protocol(e), NEW n \in Children,
         ask[n][e] \in {"waiting", "orphan"}, e \in Replied(n),
         \A m \in Levels : m # n => ask'[m][e] = ask[m][e],
         \/ ask[n][e] = "orphan" /\ ask'[n][e] = "none"
         \/ ask[n][e] = "waiting" /\ e \in Allowed(n) /\ ask'[n][e] = "granted"
         \/ ask[n][e] = "waiting" /\ ask'[n][e] = "refused",
         \A m \in Children : e \in Replied(m)' <=> e \in Replied(m) /\ m # n,
         \A m \in Children : e \in Allowed(m)' => e \in Allowed(m),
         FateSame(e), HeldSame(e), RequestedSame(e), SettlingSame(e), ServedSame(e),
         PermitsSame(e)
  PROVE  Protocol(e)'
<1> USE Places
<1> USE DEF FateSame, HeldSame, RequestedSame, SettlingSame, ServedSame, PermitsSame
<1>0. e \notin Held(n) /\ e \notin Settling(n) /\ (e \in Allowed(n) => e \in permits[n])
  BY DEF Protocol, RepliedOnce
<1>1. Placed(e)'
  BY DEF Protocol, Placed
<1>2. RequestedOnce(e)'
  <2> SUFFICES ASSUME NEW k \in Children, e \in Requested(k)'
               PROVE  Unseen(e, k)' /\ ask'[k][e] \notin Ready
    BY DEF RequestedOnce
  <2>1. Unseen(e, k) /\ ask[k][e] \notin Ready
    BY DEF Protocol, RequestedOnce
  <2>2. ~(n <= k)
    BY <2>1 DEF Unseen
  <2>3. k < n /\ \A m \in Levels : m <= k => m # n
    BY <2>2
  <2>4. ask'[k][e] = ask[k][e] /\ \A m \in Levels : m < k => ask'[m][e] = ask[m][e]
    BY <2>3
  <2> QED
    BY <2>1, <2>4 DEF Unseen, Ready
<1>3. ServedOnce(e)'
  BY DEF Protocol, ServedOnce, Ready
<1>4. RepliedOnce(e)'
  <2>1. ASSUME NEW m \in Children, e \in Replied(m)'
        PROVE  ask'[m][e] \notin Ready /\ e \notin Held(m)' /\ e \notin Settling(m)'
    <3>1. ask[m][e] \notin Ready /\ e \notin Held(m) /\ e \notin Settling(m) /\ m # n
      BY <2>1 DEF Protocol, RepliedOnce
    <3> QED
      BY <3>1 DEF Ready
  <2>2. \A m \in Children : e \in Allowed(m)' => e \in permits'[m]
    BY DEF Protocol, RepliedOnce
  <2> QED
    BY <2>1, <2>2 DEF RepliedOnce
<1>5. GrantedOnce(e)'
  BY <1>0 DEF Protocol, GrantedOnce
<1>6. HeldAbove(e)'
  BY <1>0 DEF Protocol, HeldAbove
<1>7. Forwarded(e)'
  BY DEF Protocol, Forwarded, Asks
<1>8. Own(e)'
  BY DEF Protocol, Own, Asks
<1> QED
  BY <1>1, <1>2, <1>3, <1>4, <1>5, <1>6, <1>7, <1>8 DEF Protocol

\* The parent refuses a request at once.
LEMMA DenyKeeps ==
  ASSUME Domains, NEW e \in Effects, Protocol(e), NEW n \in Children, e \in Requested(n),
         \A m \in Children : e \in Requested(m)' <=> e \in Requested(m) /\ m # n,
         \A m \in Children : e \in Replied(m)' <=> e \in Replied(m) \/ m = n,
         \A m \in Children : e \in Allowed(m)' <=> e \in Allowed(m),
         FateSame(e), AskSame(e), HeldSame(e), SettlingSame(e), ServedSame(e), PermitsSame(e)
  PROVE  Protocol(e)'
<1> USE Places
<1> USE DEF FateSame, AskSame, HeldSame, SettlingSame, ServedSame, PermitsSame
<1>0. Unseen(e, n) /\ ask[n][e] \notin Ready
  BY DEF Protocol, RequestedOnce
<1>1. Placed(e)'
  BY DEF Protocol, Placed
<1>2. RequestedOnce(e)'
  <2> SUFFICES ASSUME NEW k \in Children, e \in Requested(k)'
               PROVE  FALSE
    BY DEF RequestedOnce
  <2>1. Unseen(e, k) /\ k # n
    BY DEF Protocol, RequestedOnce
  <2> QED
    BY <1>0, <2>1 DEF Unseen
<1>3. ServedOnce(e)'
  BY <1>0 DEF Protocol, ServedOnce, Unseen
<1>4. RepliedOnce(e)'
  <2>1. e \notin Held(n) /\ e \notin Settling(n)
    BY <1>0 DEF Protocol, HeldAbove, Unseen
  <2> QED
    BY <1>0, <2>1 DEF Protocol, RepliedOnce
<1>5. GrantedOnce(e)'
  BY DEF Protocol, GrantedOnce
<1>6. HeldAbove(e)'
  BY DEF Protocol, HeldAbove
<1>7. Forwarded(e)' /\ Own(e)'
  BY DEF Protocol, Forwarded, Own
<1> QED
  BY <1>1, <1>2, <1>3, <1>4, <1>5, <1>6, <1>7 DEF Protocol

\* The parent asks for a child's effect in its turn.
LEMMA PassKeeps ==
  ASSUME Domains, NEW e \in Effects, Protocol(e), NEW n \in Children, e \in Requested(n),
         \A m \in Levels : ask'[m][e] = IF m = n - 1
                                       THEN IF n = 1 THEN "granted" ELSE "waiting"
                                       ELSE ask[m][e],
         \A m \in Children : e \in Requested(m)' <=> (e \in Requested(m) /\ m # n) \/ m = n - 1,
         \A m \in Children : e \in Served(m)' <=> e \in Served(m) \/ m = n,
         FateSame(e), HeldSame(e), SettlingSame(e), RepliedSame(e), PermitsSame(e)
  PROVE  Protocol(e)'
<1> USE Places
<1> USE DEF FateSame, HeldSame, SettlingSame, RepliedSame, PermitsSame
<1>0. Unseen(e, n) /\ ask[n][e] \notin Ready /\ n <= Level[e] /\ effect[e] # "idle"
  BY DEF Protocol, RequestedOnce, Placed
<1>00. n \in Int /\ \A m \in Levels : m \in Int
  OBVIOUS
<1>01. n - 1 \in Int /\ n - 1 < n /\ n - 1 <= Level[e] /\ Level[e] # n - 1
       /\ Level[e] \in Levels
  <2>1. Level[e] \in Levels /\ Level[e] \in Int
    OBVIOUS
  <2> HIDE Places
  <2> QED
    BY <1>0, <1>00, <2>1
<1>1. Placed(e)'
  <2>1. ASSUME NEW m \in Children,
               e \in Requested(m)' \/ e \in Settling(m)' \/ e \in Replied(m)' \/ e \in Served(m)'
                 \/ e \in permits'[m]
        PROVE  m <= Level[e]
    <3>1. m = n \/ m = n - 1 \/ e \in Requested(m) \/ e \in Settling(m) \/ e \in Replied(m)
            \/ e \in Served(m) \/ e \in permits[m]
      BY <2>1
    <3> QED
      BY <1>0, <1>01, <3>1 DEF Protocol, Placed
  <2>2. ASSUME NEW m \in Levels, ask'[m][e] # "none" \/ e \in Held(m)'
        PROVE  m <= Level[e]
    BY <1>01, <2>2 DEF Protocol, Placed
  <2> QED
    BY <1>0, <2>1, <2>2 DEF Protocol, Placed
<1>2. RequestedOnce(e)'
  <2> SUFFICES ASSUME NEW k \in Children, e \in Requested(k)'
               PROVE  Unseen(e, k)' /\ ask'[k][e] \notin Ready
    BY DEF RequestedOnce
  <2>1. k = n - 1
    <3> SUFFICES ASSUME e \in Requested(k), k # n
                 PROVE  FALSE
      OBVIOUS
    <3>1. Unseen(e, k)
      BY DEF Protocol, RequestedOnce
    <3> QED
      BY <1>0, <3>1 DEF Unseen
  <2>2. \A m \in Levels : m < k => m < n /\ m # n - 1
    BY <2>1, <1>00
  <2>3. \A m \in Children : m <= k => m < n /\ m # n /\ m <= n
    BY <2>1, <1>00
  <2>4. \A m \in Children : m < k => m < n /\ m # n /\ m # n - 1
    BY <2>1, <1>00
  <2>5. ask'[k][e] = "waiting"
    BY <2>1
  <2> QED
    BY <1>0, <2>2, <2>3, <2>4, <2>5 DEF Unseen, Ready
<1>3. ServedOnce(e)'
  <2> SUFFICES ASSUME NEW m \in Children, e \in Served(m)'
               PROVE  /\ e \notin permits[m] /\ e \notin Replied(m) /\ e \notin Settling(m)
                      /\ ask'[m][e] \notin Ready
    BY DEF ServedOnce
  <2>1. CASE m = n
    BY <1>0, <2>1, <1>00 DEF Unseen
  <2>2. CASE m # n
    <3>1. m # n - 1
      BY <1>0, <1>00, <2>2 DEF Unseen
    <3> QED
      BY <2>2, <3>1 DEF Protocol, ServedOnce
  <2> QED
    BY <2>1, <2>2
<1>4. RepliedOnce(e)'
  <2>1. ASSUME NEW m \in Children, e \in Replied(m)
        PROVE  ask'[m][e] \notin Ready /\ e \notin Held(m) /\ e \notin Settling(m)
    <3>1. m # n - 1
      BY <1>0, <1>00, <2>1 DEF Unseen
    <3> QED
      BY <2>1, <3>1 DEF Protocol, RepliedOnce
  <2> QED
    BY <2>1 DEF Protocol, RepliedOnce
<1>5. GrantedOnce(e)'
  <2>1. n = 1 => e \notin Held(0) /\ outcome[e] = "none"
    BY <1>0 DEF Unseen
  <2>2. \A m \in Children : ask'[m][e] = "granted" => ask[m][e] = "granted"
    BY <1>00
  <2>3. ask'[0][e] = IF n = 1 THEN "granted" ELSE ask[0][e]
    BY <1>00
  <2> QED
    BY <2>1, <2>2, <2>3 DEF Protocol, GrantedOnce
<1>6. HeldAbove(e)'
  <2>1. e \notin Held(n - 1) /\ (n - 1 \in Children => e \notin Settling(n - 1))
    BY <1>0, <1>00 DEF Unseen
  <2>2. ASSUME NEW k \in Children, e \in Held(k)
        PROVE  e \in permits[k] /\ ask'[k][e] = "none" /\ e \notin Settling(k)
    BY <2>1, <2>2 DEF Protocol, HeldAbove
  <2>3. ASSUME NEW k \in Children, e \in Settling(k)
        PROVE  e \in permits[k] /\ ask'[k][e] = "none"
    BY <2>1, <2>3 DEF Protocol, HeldAbove
  <2> QED
    BY <2>2, <2>3 DEF Protocol, HeldAbove
<1>7. Forwarded(e)'
  BY <1>00 DEF Protocol, Forwarded, Asks
<1>8. Own(e)'
  BY <1>01 DEF Protocol, Own
<1> QED
  BY <1>1, <1>2, <1>3, <1>4, <1>5, <1>6, <1>7, <1>8 DEF Protocol

\* A permit is given up at process n, when its own process or child n + 1 no
\* longer holds it.
LEMMA SettleKeeps ==
  ASSUME Domains, NEW e \in Effects, Protocol(e), NEW n \in Levels, e \in Held(n),
         \/ n = Level[e] /\ effect'[e] \in Finals
         \/ /\ n < Level[e] /\ effect'[e] = effect[e]
            /\ e \notin Held(n + 1) /\ e \notin Allowed(n + 1) /\ ask[n + 1][e] # "granted",
         \A m \in Levels : e \in Held(m)' <=> e \in Held(m) /\ m # n,
         \A m \in Children : e \in permits'[m] <=> e \in permits[m] /\ m # n + 1,
         \A m \in Children : e \in Settling(m)' <=> (e \in Settling(m) /\ m # n + 1) \/ m = n,
         n # 0 => outcome'[e] = outcome[e],
         AskSame(e), RequestedSame(e), RepliedSame(e), ServedSame(e)
  PROVE  Protocol(e)'
<1> USE Places
<1> USE DEF AskSame, RequestedSame, RepliedSame, ServedSame
<1>00. n \in Int /\ Level[e] \in Int /\ \A m \in Levels : m \in Int
  OBVIOUS
<1>0. n <= Level[e] /\ effect[e] # "idle"
  BY DEF Protocol, Placed
<1>01. n \in Children => e \in permits[n] /\ ask[n][e] = "none" /\ e \notin Settling(n)
  BY DEF Protocol, HeldAbove
<1>02. \A k \in Levels : k > n => e \notin Held(k)
  <2> SUFFICES ASSUME NEW k \in Levels, k > n, e \in Held(k)
               PROVE  FALSE
    OBVIOUS
  <2>1. k <= Level[e]
    BY DEF Protocol, Placed
  <2>2. n < Level[e] /\ n + 1 \in Levels /\ n + 1 <= k
    BY <1>00, <2>1
  <2>3. e \in Held(n + 1)
    BY <2>2 DEF Protocol, HeldAbove
  <2> QED
    BY <2>2, <2>3, <1>00
<1>03. effect'[e] # "idle"
  BY <1>0 DEF Finals
<1>1. Placed(e)'
  BY <1>0, <1>03 DEF Protocol, Placed
<1>2. RequestedOnce(e)'
  <2> SUFFICES ASSUME NEW k \in Children, e \in Requested(k)'
               PROVE  Unseen(e, k)' /\ ask'[k][e] \notin Ready
    BY DEF RequestedOnce
  <2>1. Unseen(e, k) /\ ask[k][e] \notin Ready
    BY DEF Protocol, RequestedOnce
  <2>2. ~(n < k) /\ n # k
    BY <1>01, <2>1 DEF Unseen
  <2>3. n # 0 /\ \A m \in Children : m <= k => m # n
    <3>1. k \in Int /\ k > 0 /\ \A m \in Children : m \in Int
      OBVIOUS
    <3> QED
      BY <1>00, <2>2, <3>1
  <2>4. outcome'[e] = "none" /\ \A m \in Children : m <= k => e \notin Settling(m)'
    BY <2>1, <2>3 DEF Unseen
  <2> QED
    BY <2>1, <2>4 DEF Unseen
<1>3. ServedOnce(e)'
  BY <1>01 DEF Protocol, ServedOnce
<1>4. RepliedOnce(e)'
  <2>1. ASSUME NEW m \in Children, e \in Replied(m)
        PROVE  ask[m][e] \notin Ready /\ e \notin Held(m) /\ e \notin Settling(m)'
    BY <2>1 DEF Protocol, RepliedOnce
  <2>2. ASSUME NEW m \in Children, e \in Allowed(m)
        PROVE  e \in permits'[m]
    <3>1. e \in permits[m] /\ m <= Level[e]
      BY <2>2 DEF Protocol, RepliedOnce, Placed
    <3>2. m # n + 1
      BY <1>00, <2>2, <3>1
    <3> QED
      BY <3>1, <3>2
  <2> QED
    BY <2>1, <2>2 DEF RepliedOnce
<1>5. GrantedOnce(e)'
  <2>1. ASSUME NEW m \in Children, ask[m][e] = "granted"
        PROVE  e \in permits'[m] /\ e \notin Settling(m)' /\ e \notin Held(m)
    <3>1. e \in permits[m] /\ e \notin Settling(m) /\ e \notin Held(m) /\ m <= Level[e]
      BY <2>1 DEF Protocol, GrantedOnce, Placed
    <3>2. m # n + 1 /\ m # n
      BY <1>00, <2>1, <3>1
    <3> QED
      BY <3>1, <3>2
  <2>2. ask[0][e] = "granted" => n # 0
    BY DEF Protocol, GrantedOnce
  <2> QED
    BY <2>1, <2>2 DEF Protocol, GrantedOnce
<1>6. HeldAbove(e)'
  <2>1. ASSUME NEW k \in Children, e \in Held(k)'
        PROVE  /\ e \in permits'[k] /\ ask'[k][e] = "none" /\ e \notin Settling(k)'
    <3>1. e \in permits[k] /\ ask[k][e] = "none" /\ e \notin Settling(k) /\ k # n
      BY <2>1 DEF Protocol, HeldAbove
    <3>2. k # n + 1
      BY <1>00, <1>02, <2>1
    <3> QED
      BY <3>1, <3>2
  <2>2. e \in Held(0)' => outcome'[e] = "none"
    BY DEF Protocol, HeldAbove
  <2>3. ASSUME NEW k \in Children, e \in permits'[k]
        PROVE  e \in Held(k - 1)'
    <3>1. e \in Held(k - 1) /\ k - 1 # n
      BY <1>00, <2>3 DEF Protocol, HeldAbove
    <3> QED
      BY <3>1
  <2>4. ASSUME NEW k \in Children, e \in Settling(k)'
        PROVE  e \in permits'[k] /\ ask'[k][e] = "none"
    <3>1. CASE k = n
      <4>1. n # n + 1
        BY <1>00
      <4> QED
        BY <1>01, <3>1, <4>1
    <3>2. CASE k # n
      BY <2>4, <3>2 DEF Protocol, HeldAbove
    <3> QED
      BY <3>1, <3>2
  <2>5. ASSUME NEW m \in Levels, NEW k \in Levels, m <= k, e \in Held(k)'
        PROVE  e \in Held(m)'
    <3>1. k < n
      BY <1>00, <1>02, <2>5
    <3>2. e \in Held(m)
      BY <2>5 DEF Protocol, HeldAbove
    <3> QED
      BY <1>00, <2>5, <3>1, <3>2
  <2>6. ASSUME NEW k \in Levels, e \in Held(k)', k < Level[e]
        PROVE  e \in permits'[k + 1]
    <3>1. e \in permits[k + 1] /\ k + 1 \in Children
      BY <2>6 DEF Protocol, HeldAbove
    <3>2. k + 1 # n + 1
      BY <1>00, <2>6
    <3> QED
      BY <3>1, <3>2
  <2> QED
    BY <2>1, <2>2, <2>3, <2>4, <2>5, <2>6 DEF HeldAbove
<1>7. Forwarded(e)'
  BY DEF Protocol, Forwarded
<1>8. Own(e)'
  <2>1. CASE n = Level[e] /\ effect'[e] \in Finals
    <3>1. effect[e] \in InHand /\ ask[Level[e]][e] \notin Asks
      BY <2>1 DEF Protocol, Own, InHand
    <3> QED
      BY <2>1, <3>1 DEF Own, Finals, InHand
  <2>2. CASE n < Level[e] /\ effect'[e] = effect[e]
    BY <2>2, <1>00 DEF Protocol, Own
  <2> QED
    BY <2>1, <2>2
<1> QED
  BY <1>1, <1>2, <1>3, <1>4, <1>5, <1>6, <1>7, <1>8 DEF Protocol

\* The task of e is dropped in its own process.
LEMMA EndKeeps ==
  ASSUME Domains, NEW e \in Effects, Protocol(e),
         effect'[e] = CASE effect[e] = "running" -> "dropping"
                        [] effect[e] = "asking" -> "abandoned"
                        [] OTHER -> effect[e],
         outcome'[e] = outcome[e],
         \A m \in Levels : m # Level[e] => ask'[m][e] = ask[m][e],
         effect[e] # "asking" => ask'[Level[e]][e] = ask[Level[e]][e],
         effect[e] = "asking" =>
           \/ ask'[Level[e]][e] = "none"
           \/ ask'[Level[e]][e] = "orphan" /\ Level[e] # 0,
         HeldSame(e), RequestedSame(e), SettlingSame(e), RepliedSame(e), ServedSame(e),
         PermitsSame(e)
  PROVE  Protocol(e)'
<1> USE Places
<1> USE DEF HeldSame, RequestedSame, SettlingSame, RepliedSame, ServedSame, PermitsSame
<1>0. \A m \in Levels :
         \/ ask'[m][e] = ask[m][e]
         \/ m = Level[e] /\ ask[m][e] \in Asks /\ ask'[m][e] \in {"none", "orphan"}
  <2>1. CASE effect[e] = "asking"
    <3>1. ask[Level[e]][e] \in Asks /\ ask'[Level[e]][e] \in {"none", "orphan"}
      BY <2>1 DEF Protocol, Own
    <3> QED
      BY <3>1
  <2>2. CASE effect[e] # "asking"
    BY <2>2
  <2> QED
    BY <2>1, <2>2
<1>00. \A m \in Levels :
         /\ ask'[m][e] # "none" => ask[m][e] # "none"
         /\ ask[m][e] = "none" => ask'[m][e] = "none"
         /\ ask'[m][e] \in Asks => ask'[m][e] = ask[m][e]
  BY <1>0 DEF Asks
<1>1. Placed(e)'
  BY <1>00 DEF Protocol, Placed
<1>2. RequestedOnce(e)'
  BY <1>00 DEF Protocol, RequestedOnce, Unseen, Ready, Asks
<1>3. ServedOnce(e)'
  BY <1>00 DEF Protocol, ServedOnce, Ready, Asks
<1>4. RepliedOnce(e)'
  BY <1>00 DEF Protocol, RepliedOnce, Ready, Asks
<1>5. GrantedOnce(e)'
  BY <1>00 DEF Protocol, GrantedOnce, Asks
<1>6. HeldAbove(e)'
  BY <1>00 DEF Protocol, HeldAbove
<1>7. Forwarded(e)'
  BY <1>00 DEF Protocol, Forwarded, Asks
<1>8. Own(e)'
  BY <1>00 DEF Protocol, Own, Asks, InHand
<1> QED
  BY <1>1, <1>2, <1>3, <1>4, <1>5, <1>6, <1>7, <1>8 DEF Protocol

\* Everything below process n is killed, the effect of a process there with it.
\* The child's conversation keeps its permits.
LEMMA KillKeeps ==
  ASSUME Domains, NEW e \in Effects, Protocol(e), NEW n \in Levels, n < Level[e],
         effect'[e] \in Ended, effect'[e] = "idle" <=> effect[e] = "idle",
         outcome'[e] = outcome[e],
         \A m \in Levels : m < n => ask'[m][e] = ask[m][e],
         \A m \in Levels : m > n => ask'[m][e] = "none",
         IF ask[n][e] = "none" THEN ask'[n][e] = "none"
         ELSE ask'[n][e] = "none" \/ (ask'[n][e] = "orphan" /\ n # 0),
         \A m \in Levels : e \in Held(m)' <=> e \in Held(m) /\ m <= n,
         \A m \in Children : e \in permits'[m] <=> e \in permits[m] /\ m <= n + 1,
         \A m \in Children : e \in Requested(m)' <=> e \in Requested(m) /\ m <= n,
         \A m \in Children : e \in Settling(m)' <=> e \in Settling(m) /\ m <= n,
         \A m \in Children : e \in Replied(m)' <=> e \in Replied(m) /\ m <= n,
         \A m \in Children : e \in Allowed(m)' <=> e \in Allowed(m) /\ m <= n,
         \A m \in Children : e \in Served(m)' <=> e \in Served(m) /\ m <= n
  PROVE  Protocol(e)'
<1> USE Places
<1>00. n \in Int /\ \A m \in Levels : m \in Int /\ (m <= n => m <= n + 1)
  OBVIOUS
<1>0. \A m \in Levels :
         /\ ask'[m][e] # "none" => ask[m][e] # "none"
         /\ ask[m][e] = "none" => ask'[m][e] = "none"
         /\ ask'[m][e] \in Asks => ask'[m][e] = ask[m][e] /\ m < n
  BY <1>00 DEF Asks
<1>1. Placed(e)'
  BY <1>0 DEF Protocol, Placed
<1>2. RequestedOnce(e)'
  BY <1>0 DEF Protocol, RequestedOnce, Unseen, Ready, Asks
<1>3. ServedOnce(e)'
  BY <1>0 DEF Protocol, ServedOnce, Ready, Asks
<1>4. RepliedOnce(e)'
  BY <1>0, <1>00 DEF Protocol, RepliedOnce, Ready, Asks
<1>5. GrantedOnce(e)'
  <2>1. ASSUME NEW m \in Children, ask'[m][e] = "granted"
        PROVE  e \in permits'[m] /\ e \notin Settling(m)' /\ e \notin Held(m)'
    BY <1>0, <1>00, <2>1 DEF Protocol, GrantedOnce, Asks
  <2>2. ask'[0][e] \in {"none", "granted"}
    <3>1. CASE n = 0
      BY <3>1
    <3>2. CASE n # 0
      BY <1>00, <3>2 DEF Protocol, GrantedOnce
    <3> QED
      BY <3>1, <3>2
  <2>3. ask'[0][e] = "granted" => ask[0][e] = "granted"
    BY <1>0 DEF Asks
  <2> QED
    BY <2>1, <2>2, <2>3 DEF Protocol, GrantedOnce
<1>6. HeldAbove(e)'
  <2>1. \A k \in Children : e \in Held(k)' =>
          e \in permits'[k] /\ ask'[k][e] = "none" /\ e \notin Settling(k)'
    BY <1>0, <1>00 DEF Protocol, HeldAbove
  <2>2. e \in Held(0)' => outcome'[e] = "none"
    BY DEF Protocol, HeldAbove
  <2>3. ASSUME NEW k \in Children, e \in permits'[k] PROVE e \in Held(k - 1)'
    <3>1. e \in Held(k - 1) /\ k <= n + 1 /\ k - 1 \in Levels /\ k \in Int
      BY <2>3 DEF Protocol, HeldAbove
    <3>2. k - 1 <= n
      BY <3>1, <1>00
    <3> QED
      BY <3>1, <3>2
  <2>4. \A k \in Children : e \in Settling(k)' => e \in permits'[k] /\ ask'[k][e] = "none"
    BY <1>0, <1>00 DEF Protocol, HeldAbove
  <2>5. ASSUME NEW m \in Levels, NEW k \in Levels, m <= k, e \in Held(k)'
        PROVE  e \in Held(m)'
    <3>1. m <= n
      BY <1>00, <2>5
    <3> QED
      BY <3>1, <2>5 DEF Protocol, HeldAbove
  <2>6. ASSUME NEW k \in Levels, e \in Held(k)', k < Level[e] PROVE e \in permits'[k + 1]
    <3>1. e \in permits[k + 1] /\ k <= n /\ k + 1 \in Children
      BY <2>6 DEF Protocol, HeldAbove
    <3>2. k + 1 <= n + 1
      BY <1>00, <3>1
    <3> QED
      BY <3>1, <3>2
  <2> QED
    BY <2>1, <2>2, <2>3, <2>4, <2>5, <2>6 DEF HeldAbove
<1>7. Forwarded(e)'
  <2> SUFFICES ASSUME NEW k \in Levels, k < Level[e], ask'[k][e] \in Asks
               PROVE  e \in Served(k + 1)'
    BY DEF Forwarded
  <2>1. e \in Served(k + 1) /\ k < n /\ k + 1 \in Children
    BY <1>0 DEF Protocol, Forwarded
  <2>2. k + 1 <= n
    BY <1>00, <2>1
  <2> QED
    BY <2>1, <2>2
<1>8. Own(e)'
  <2>1. Level[e] \in Levels /\ Level[e] \in Int
    OBVIOUS
  <2>2. ~(Level[e] <= n) /\ ~(Level[e] < n)
    BY <1>00, <2>1
  <2> QED
    BY <1>0, <2>1, <2>2 DEF Own, Ended, Finals, InHand
<1> QED
  BY <1>1, <1>2, <1>3, <1>4, <1>5, <1>6, <1>7, <1>8 DEF Protocol

\* An effect is refused before it asks.
LEMMA RefusedAtOnceKeeps ==
  ASSUME Domains, NEW e \in Effects, Protocol(e),
         effect[e] = "idle", effect'[e] = "refused", outcome'[e] = outcome[e],
         AskSame(e), HeldSame(e), RequestedSame(e), SettlingSame(e), RepliedSame(e),
         ServedSame(e), PermitsSame(e)
  PROVE  Protocol(e)'
<1>0. /\ \A m \in Levels : ask'[m][e] = "none" /\ e \notin Held(m)'
      /\ \A m \in Children :
           /\ e \notin Requested(m)' /\ e \notin Settling(m)' /\ e \notin Replied(m)'
           /\ e \notin Served(m)' /\ e \notin permits'[m]
      /\ outcome'[e] = "none"
  BY DEF Protocol, Placed, AskSame, HeldSame, RequestedSame, SettlingSame, RepliedSame,
         ServedSame, PermitsSame
<1>1. \A m \in Children : e \notin Allowed(m)'
  BY <1>0 DEF Replied, Allowed, Answered, Approved
<1>2. Level[e] \in Levels
  BY Places
<1>3. Placed(e)' /\ RequestedOnce(e)' /\ ServedOnce(e)' /\ RepliedOnce(e)'
  BY <1>0, <1>1 DEF Placed, RequestedOnce, ServedOnce, RepliedOnce
<1>4. GrantedOnce(e)' /\ HeldAbove(e)' /\ Forwarded(e)'
  BY <1>0, Places DEF GrantedOnce, HeldAbove, Forwarded, Asks
<1>5. Own(e)'
  BY <1>0, <1>2 DEF Own, Asks, InHand
<1> QED
  BY <1>3, <1>4, <1>5 DEF Protocol

(***************************************************************************)
(* The invariant                                                           *)
(***************************************************************************)
\* The frames of process n that its parent has not read.
Content(n) == {up[n][i] : i \in 1 .. Len(up[n])}

\* A process runs while its launch does, and so long is there a conversation.
Processes ==
  /\ \A n \in Children : n \in alive => effect[Launch[n]] = "running"
  /\ \A n \in Children : serve[n].pc # "off" <=> effect[Launch[n]] = "running"
  /\ \A e \in Effects : Level[e] \notin alive => effect[e] \in Ended
  /\ \A n \in Children : n \notin alive => Held(n) = {} /\ \A e \in Effects : ask[n][e] = "none"
  /\ \A n \in Children : serve[n].pc = "off" =>
       \A e \in Effects : e \notin Settling(n) /\ e \notin Allowed(n)

\* The result is the last thing heard of a process.
Finishes ==
  \A n \in Children :
    serve[n].pc = "result" \/ (\E frame \in Content(n) : frame.type = "result") =>
      n \notin alive /\ effect[Launch[n]] \notin {"idle", "asking"}

\* Nothing joins the host's gate after the acknowledgement.
Revoked == ack.sent => gate[0].closed /\ Held(0) \subseteq ack.outstanding

NotRun == {"refused", "asking", "abandoned", "killed"}

\* What may be said of an effect.
Truth(e, state) ==
  /\ state = "completed" => effect[e] = "completed"
  /\ state = "not_dispatched" => effect[e] \in NotRun

\* Nobody waits for an admission of e.
Quiet(e) ==
  /\ \A n \in Levels : ask[n][e] \notin Asks
  /\ \A n \in Children : e \notin Requested(n) /\ e \notin Served(n)

Honest ==
  /\ \A e \in Effects : Quiet(e) \/ effect[e] \in NotRun
  /\ \A n \in Children : \A frame \in Content(n) :
       frame.type = "settled" => Truth(frame.e, frame.state)
  /\ \A e \in Effects : Truth(e, outcome[e])

Inv ==
  /\ Domains
  /\ PipesOnce
  /\ \A e \in Effects : Protocol(e)
  /\ Processes /\ KeptByLaunch
  /\ Finishes
  /\ Revoked
  /\ Honest

\* A frame comes to the pipe of process n, at most.
Arrives(n, frame) ==
  \A m \in Children : \A f \in Content(m)' : f \in Content(m) \/ (m = n /\ f = frame)

NoneArrives == \A m \in Children : \A f \in Content(m)' : f \in Content(m)

LEMMA ContentOf ==
  ASSUME NEW s \in Seq(Frames)
  PROVE  /\ \A frame \in Frames : \A i \in 1 .. Len(Append(s, frame)) :
              Append(s, frame)[i] = frame \/ \E j \in 1 .. Len(s) : s[j] = Append(s, frame)[i]
         /\ s # <<>> =>
              /\ \A i \in 1 .. Len(Tail(s)) : \E j \in 1 .. Len(s) : s[j] = Tail(s)[i]
              /\ 1 \in 1 .. Len(s) /\ Head(s) = s[1]
         /\ \A i \in 1 .. Len(s) : s[i] \in Frames
<1>1. ASSUME NEW frame \in Frames, NEW i \in 1 .. Len(Append(s, frame))
      PROVE  Append(s, frame)[i] = frame \/ \E j \in 1 .. Len(s) : s[j] = Append(s, frame)[i]
  <2>1. /\ Len(Append(s, frame)) = Len(s) + 1 /\ Len(s) \in Nat
        /\ Append(s, frame)[Len(s) + 1] = frame
        /\ \A j \in 1 .. Len(s) : Append(s, frame)[j] = s[j]
    BY AppendProperties, LenProperties
  <2>2. i \in 1 .. Len(s) \/ i = Len(s) + 1
    BY <2>1
  <2> QED
    BY <2>1, <2>2
<1>2. ASSUME s # <<>>
      PROVE  /\ \A i \in 1 .. Len(Tail(s)) : \E j \in 1 .. Len(s) : s[j] = Tail(s)[i]
             /\ 1 \in 1 .. Len(s) /\ Head(s) = s[1]
  <2>1. /\ Head(s) = s[1] /\ Len(s) \in Nat \ {0} /\ Len(Tail(s)) = Len(s) - 1
        /\ \A i \in 1 .. Len(Tail(s)) : Tail(s)[i] = s[i + 1]
    BY <1>2, HeadTailProperties, LenProperties, EmptySeq
  <2>2. \A i \in 1 .. Len(Tail(s)) : i + 1 \in 1 .. Len(s)
    BY <2>1
  <2> QED
    BY <2>1, <2>2
<1>3. \A i \in 1 .. Len(s) : s[i] \in Frames
  BY ElementOfSeq
<1> QED
  BY <1>1, <1>2, <1>3

LEMMA ContentChange ==
  ASSUME Domains
  PROVE  /\ up' = up => NoneArrives
         /\ \A n \in Levels, frame \in Frames : SendUp(n, frame) => Arrives(n, frame)
         /\ \A n \in Children : up[n] # <<>> =>
              /\ up' = [up EXCEPT ![n] = Tail(@)] => NoneArrives
              /\ \A frame \in Frames :
                   up' = [m \in Children |->
                     CASE m = n -> Tail(up[n])
                       [] m = n - 1 -> Append(up[m], frame)
                       [] OTHER -> up[m]] => Arrives(n - 1, frame)
              /\ Head(up[n]) \in Content(n)
         /\ \A n \in Children : Content(n) \subseteq Frames
<1>0. \A m \in Children : up[m] \in Seq(Frames)
  BY DEF Domains
<1>00. up \in [Children -> Seq(Frames)]
  BY DEF Domains
<1>1. up' = up => NoneArrives
  BY DEF NoneArrives, Content
<1>2. ASSUME NEW n \in Levels, NEW frame \in Frames, SendUp(n, frame)
      PROVE  Arrives(n, frame)
  <2> SUFFICES ASSUME NEW m \in Children, NEW f \in Content(m)'
               PROVE  f \in Content(m) \/ (m = n /\ f = frame)
    BY DEF Arrives
  <2>1. up'[m] = IF m = n THEN Append(up[m], frame) ELSE up[m]
    BY <1>00, <1>2, Places DEF SendUp
  <2> QED
    BY <1>0, <2>1, ContentOf DEF Content
<1>3. ASSUME NEW n \in Children, up[n] # <<>>, up' = [up EXCEPT ![n] = Tail(@)]
      PROVE  NoneArrives
  <2> SUFFICES ASSUME NEW m \in Children, NEW f \in Content(m)'
               PROVE  f \in Content(m)
    BY DEF NoneArrives
  <2>1. up'[m] = IF m = n THEN Tail(up[n]) ELSE up[m]
    BY <1>00, <1>3
  <2> QED
    BY <1>0, <1>3, <2>1, ContentOf DEF Content
<1>4. ASSUME NEW n \in Children, up[n] # <<>>, NEW frame \in Frames,
             up' = [m \in Children |->
                     CASE m = n -> Tail(up[n])
                       [] m = n - 1 -> Append(up[m], frame)
                       [] OTHER -> up[m]]
      PROVE  Arrives(n - 1, frame)
  <2> SUFFICES ASSUME NEW m \in Children, NEW f \in Content(m)'
               PROVE  f \in Content(m) \/ (m = n - 1 /\ f = frame)
    BY DEF Arrives
  <2>0. n # n - 1
    BY Places
  <2>1. /\ m = n => up'[m] = Tail(up[m])
        /\ m # n /\ m = n - 1 => up'[m] = Append(up[m], frame)
        /\ m # n /\ m # n - 1 => up'[m] = up[m]
    BY <1>4, <2>0
  <2>2. CASE m = n
    BY <1>0, <1>4, <2>1, <2>2, ContentOf DEF Content
  <2>3. CASE m # n /\ m = n - 1
    <3>1. up'[m] = Append(up[m], frame)
      BY <2>1, <2>3
    <3> QED
      BY <1>0, <2>3, <3>1, ContentOf DEF Content
  <2>4. CASE m # n /\ m # n - 1
    BY <2>1, <2>4 DEF Content
  <2> QED
    BY <2>2, <2>3, <2>4
<1>5. \A n \in Children : up[n] # <<>> => Head(up[n]) \in Content(n)
  BY <1>0, ContentOf DEF Content
<1>6. \A n \in Children : Content(n) \subseteq Frames
  BY <1>0, ContentOf DEF Content
<1> QED
  BY <1>1, <1>2, <1>3, <1>4, <1>5, <1>6

LEMMA Stays ==
  /\ gate' = gate => \A f \in Effects : HeldSame(f)
  /\ ask' = ask => \A f \in Effects : AskSame(f)
  /\ serve' = serve => \A f \in Effects : ServedSame(f)
  /\ permits' = permits => \A f \in Effects : PermitsSame(f)
  /\ up' = up => (\A f \in Effects : RequestedSame(f) /\ SettlingSame(f))
                 /\ (\A m \in Children : OnceEach(up[m])' <=> OnceEach(up[m]))
  /\ down' = down => (\A f \in Effects : RepliedSame(f))
                     /\ (\A m \in Children : AnsweredOnce(down[m])' <=> AnsweredOnce(down[m]))
  /\ effect' = effect /\ outcome' = outcome => \A f \in Effects : FateSame(f)
<1>1. gate' = gate => \A f \in Effects : HeldSame(f)
  BY DEF HeldSame, Held
<1>2. ask' = ask => \A f \in Effects : AskSame(f)
  BY DEF AskSame
<1>3. serve' = serve => \A f \in Effects : ServedSame(f)
  BY DEF ServedSame, Served
<1>4. permits' = permits => \A f \in Effects : PermitsSame(f)
  BY DEF PermitsSame
<1>5. up' = up => (\A f \in Effects : RequestedSame(f) /\ SettlingSame(f))
                  /\ (\A m \in Children : OnceEach(up[m])' <=> OnceEach(up[m]))
  BY DEF RequestedSame, SettlingSame, Requested, Settling
<1>6. down' = down => (\A f \in Effects : RepliedSame(f))
                      /\ (\A m \in Children : AnsweredOnce(down[m])' <=> AnsweredOnce(down[m]))
  BY DEF RepliedSame, Replied, Allowed
<1>7. effect' = effect /\ outcome' = outcome => \A f \in Effects : FateSame(f)
  BY DEF FateSame
<1> QED
  BY <1>1, <1>2, <1>3, <1>4, <1>5, <1>6, <1>7

\* What UpGains and the others say in the words of the protocol.
LEMMA GainsSame ==
  ASSUME NEW n, NEW e \in Effects
  PROVE  /\ UpGains(n, "admit", e) => \A f \in Effects :
              SettlingSame(f) /\ (f # e => RequestedSame(f))
         /\ UpGains(n, "settled", e) => \A f \in Effects :
              RequestedSame(f) /\ (f # e => SettlingSame(f))
         /\ UpLoses(n, "admit", e) => \A f \in Effects :
              SettlingSame(f) /\ (f # e => RequestedSame(f))
         /\ UpLoses(n, "settled", e) => \A f \in Effects :
              RequestedSame(f) /\ (f # e => SettlingSame(f))
         /\ UpPasses(n, "admit", e) => \A f \in Effects :
              SettlingSame(f) /\ (f # e => RequestedSame(f))
         /\ UpPasses(n, "settled", e) => \A f \in Effects :
              RequestedSame(f) /\ (f # e => SettlingSame(f))
         /\ \A ok : DownGains(n, e, ok) => \A f \in Effects : f # e => RepliedSame(f)
BY DEF UpGains, UpLoses, UpPasses, DownGains, SettlingSame, RequestedSame, RepliedSame

LEMMA FadeSame ==
  ASSUME NEW f \in Effects
  PROVE  /\ RequestedSame(f) /\ SettlingSame(f) /\ RepliedSame(f) => PipesFade(f)
         /\ AskSame(f) => AskFades(f)
BY DEF RequestedSame, SettlingSame, RepliedSame, PipesFade, AskSame, AskFades

LEMMA FrameTypes ==
  /\ \A e \in Effects : Admit(e) \in Frames /\ Admit(e).type = "admit" /\ Admit(e).e = e
  /\ \A e \in Effects, state \in Outcomes :
       /\ Settled(e, state) \in Frames
       /\ Settled(e, state).type = "settled" /\ Settled(e, state).e = e
       /\ Settled(e, state).state = state
  /\ Result \in Frames /\ Result.type = "result"
  /\ \A f \in Frames : f.type \in {"admit", "settled", "result"}
  /\ \A f \in Frames : f.type # "result" => f.e \in Effects /\ f.state \in Outcomes
BY DEF Admit, Settled, Frames, Result, Outcomes

(***************************************************************************)
(* Types                                                                   *)
(***************************************************************************)
LEMMA SendTyped ==
  ASSUME Domains, NEW n \in Levels, NEW frame \in Frames, SendUp(n, frame)
  PROVE  UpTyped
<1>1. CASE n = 0
  BY <1>1 DEF SendUp, UpTyped, Domains
<1>2. CASE n # 0
  <2>1. n \in Children /\ up[n] \in Seq(Frames)
    BY <1>2, Places DEF Domains
  <2>2. Append(up[n], frame) \in Seq(Frames)
    BY <2>1, AppendNamed
  <2> QED
    BY <1>2, <2>2 DEF SendUp, UpTyped, Domains
<1> QED
  BY <1>1, <1>2

LEMMA ReplyTyped ==
  ASSUME Domains, NEW n \in Children, NEW e \in Effects
  PROVE  /\ [down EXCEPT ![n] = Append(@, [e |-> e, allowed |-> TRUE])] \in [Children -> Seq(Replies)]
         /\ [down EXCEPT ![n] = Append(@, [e |-> e, allowed |-> FALSE])] \in [Children -> Seq(Replies)]
<1>1. [e |-> e, allowed |-> TRUE] \in Replies /\ [e |-> e, allowed |-> FALSE] \in Replies
      /\ down[n] \in Seq(Replies)
  BY DEF Replies, Domains
<1>2. /\ Append(down[n], [e |-> e, allowed |-> TRUE]) \in Seq(Replies)
      /\ Append(down[n], [e |-> e, allowed |-> FALSE]) \in Seq(Replies)
  BY <1>1, AppendReply
<1> QED
  BY <1>2 DEF Domains

LEMMA TalkTypes ==
  /\ [pc |-> "reading", e |-> NoEffect] \in Talks
  /\ [pc |-> "result", e |-> NoEffect] \in Talks
  /\ [pc |-> "off", e |-> NoEffect] \in Talks
  /\ \A e \in Effects : [pc |-> "asking", e |-> e] \in Talks
BY DEF Talks

\* Refusals and grants keep the types.
LEMMA RefuseTyped ==
  ASSUME Domains, NEW n \in Levels, NEW e \in Effects, n <= Level[e], Refuse(n, e)
  PROVE  /\ effect' \in [Effects -> EffectStates] /\ serve' \in [Children -> Talks]
         /\ down' \in [Children -> Seq(Replies)]
<1>1. CASE Level[e] = n
  BY <1>1 DEF Refuse, Domains, EffectStates, Finals
<1>2. CASE Level[e] # n
  <2>1. n + 1 \in Children
    BY <1>2, Places
  <2>2. down' \in [Children -> Seq(Replies)]
    <3>1. down' = [down EXCEPT ![n + 1] = Append(@, [e |-> e, allowed |-> FALSE])]
      BY <1>2 DEF Refuse
    <3> QED
      BY <2>1, <3>1, ReplyTyped
  <2>3. serve' \in [Children -> Talks]
    BY <1>2, <2>1, TalkTypes DEF Refuse, Domains
  <2> QED
    BY <1>2, <2>2, <2>3 DEF Refuse, Domains
<1> QED
  BY <1>1, <1>2

LEMMA GrantTyped ==
  ASSUME Domains, NEW n \in Levels, NEW e \in Effects, n <= Level[e], Grant(n, e)
  PROVE  /\ effect' \in [Effects -> EffectStates] /\ serve' \in [Children -> Talks]
         /\ down' \in [Children -> Seq(Replies)] /\ permits' \in [Children -> SUBSET Effects]
         /\ alive' \subseteq Levels /\ 0 \in alive' /\ reader' \subseteq alive'
<1>1. CASE Level[e] = n
  <2>1. Launches(e) \subseteq Levels
    BY Places DEF Launches
  <2>2. serve' \in [Children -> Talks]
    BY <1>1, TalkTypes DEF Grant, Domains
  <2> QED
    BY <1>1, <2>1, <2>2 DEF Grant, Domains, EffectStates
<1>2. CASE Level[e] # n
  <2>1. n + 1 \in Children
    BY <1>2, Places
  <2>2. down' \in [Children -> Seq(Replies)]
    <3>1. down' = [down EXCEPT ![n + 1] = Append(@, [e |-> e, allowed |-> TRUE])]
      BY <1>2 DEF Grant
    <3> QED
      BY <2>1, <3>1, ReplyTyped
  <2>3. serve' \in [Children -> Talks]
    BY <1>2, <2>1, TalkTypes DEF Grant, Domains
  <2>4. permits' \in [Children -> SUBSET Effects]
    <3>1. permits' = [permits EXCEPT ![n + 1] = @ \union {e}] /\ permits[n + 1] \union {e} \in SUBSET Effects
      BY <1>2, <2>1 DEF Grant, Domains
    <3> QED
      BY <2>1, <3>1 DEF Domains
  <2> QED
    BY <1>2, <2>2, <2>3, <2>4 DEF Grant, Domains
<1> QED
  BY <1>1, <1>2

LEMMA GateChange ==
  ASSUME Domains, NEW n \in Levels
  PROVE  /\ \A s \in SUBSET Effects :
              gate' = [gate EXCEPT ![n].outstanding = s] =>
                /\ gate' \in [Levels -> Gates]
                /\ \A m \in Levels :
                     /\ gate'[m].closed = gate[m].closed
                     /\ Held(m)' = IF m = n THEN s ELSE Held(m)
         /\ gate' = [gate EXCEPT ![n].closed = TRUE] =>
              /\ gate' \in [Levels -> Gates]
              /\ \A m \in Levels :
                   /\ gate'[m].closed = (gate[m].closed \/ m = n)
                   /\ Held(m)' = Held(m)
<1>0. gate \in [Levels -> Gates]
  BY DEF Domains
<1>1. ASSUME NEW s \in SUBSET Effects, gate' = [gate EXCEPT ![n].outstanding = s]
      PROVE  /\ gate' \in [Levels -> Gates]
             /\ \A m \in Levels :
                  /\ gate'[m].closed = gate[m].closed
                  /\ Held(m)' = IF m = n THEN s ELSE Held(m)
  <2> DEFINE g == [gate[n] EXCEPT !.outstanding = s]
  <2>1. g \in Gates /\ g.closed = gate[n].closed /\ g.outstanding = s
    BY <1>0 DEF Gates
  <2>2. gate' = [gate EXCEPT ![n] = g]
    BY <1>1
  <2> HIDE DEF g
  <2> QED
    BY <1>0, <2>1, <2>2 DEF Held
<1>2. ASSUME gate' = [gate EXCEPT ![n].closed = TRUE]
      PROVE  /\ gate' \in [Levels -> Gates]
             /\ \A m \in Levels :
                  /\ gate'[m].closed = (gate[m].closed \/ m = n)
                  /\ Held(m)' = Held(m)
  <2> DEFINE g == [gate[n] EXCEPT !.closed = TRUE]
  <2>1. g \in Gates /\ g.closed = TRUE /\ g.outstanding = gate[n].outstanding
    BY <1>0 DEF Gates
  <2>2. gate' = [gate EXCEPT ![n] = g]
    BY <1>2
  <2>3. \A m \in Levels : gate[m].closed \in BOOLEAN
    BY <1>0 DEF Gates
  <2> HIDE DEF g
  <2>4. gate' \in [Levels -> Gates] /\ \A m \in Levels : gate'[m] = IF m = n THEN g ELSE gate[m]
    BY <1>0, <2>1, <2>2
  <2>5. \A m \in Levels : Held(m)' = Held(m)
    BY <2>1, <2>4 DEF Held
  <2>6. \A m \in Levels : gate'[m].closed = (gate[m].closed \/ m = n)
    BY <2>1, <2>3, <2>4
  <2> QED
    BY <2>4, <2>5, <2>6
<1> QED
  BY <1>1, <1>2

LEMMA CloseTyped ==
  ASSUME Domains, NEW n \in Levels, Close(n)
  PROVE  gate' \in [Levels -> Gates] /\ ask' \in [Levels -> [Effects -> AskStates]]
<1>1. gate' \in [Levels -> Gates]
  BY GateChange DEF Close
<1>2. [e \in Effects |->
         CASE ask[n][e] = "waiting" -> "cleared"
           [] ask[n][e] = "orphan" -> "none"
           [] OTHER -> ask[n][e]] \in [Effects -> AskStates]
  BY DEF Domains, AskStates
<1> QED
  BY <1>1, <1>2 DEF Close, Domains

LEMMA AskTyped ==
  ASSUME Domains, NEW n \in Levels, NEW e \in Effects, NEW s \in AskStates
  PROVE  [ask EXCEPT ![n][e] = s] \in [Levels -> [Effects -> AskStates]]
BY DEF Domains

LEMMA SettleTyped ==
  ASSUME Domains, NEW n \in Levels, NEW e \in Effects, NEW state \in Outcomes,
         Settle(n, e, state)
  PROVE  /\ gate' \in [Levels -> Gates] /\ UpTyped /\ outcome' \in [Effects -> Outcomes]
<1>1. gate' \in [Levels -> Gates]
  <2>1. gate' = [gate EXCEPT ![n].outstanding = Held(n) \ {e}]
    BY DEF Settle, Held
  <2>2. Held(n) \ {e} \in SUBSET Effects
    BY DEF Held, Domains, Gates
  <2> QED
    BY <2>1, <2>2, GateChange
<1>2. UpTyped
  BY FrameTypes, SendTyped DEF Settle
<1>3. outcome' \in [Effects -> Outcomes]
  BY DEF Settle, Domains
<1> QED
  BY <1>1, <1>2, <1>3

LEMMA PassTyped ==
  ASSUME Domains, NEW n \in Children, up[n] # <<>>, NEW frame \in Frames,
         up' = [m \in Children |->
                  CASE m = n -> Tail(up[n])
                    [] m = n - 1 -> Append(up[m], frame)
                    [] OTHER -> up[m]]
  PROVE  UpTyped
<1>1. \A m \in Children : up[m] \in Seq(Frames) /\ Append(up[m], frame) \in Seq(Frames)
  BY AppendNamed DEF Domains
<1>2. Tail(up[n]) \in Seq(Frames)
  BY <1>1, TailNamed
<1>3. \A m \in Children : (CASE m = n -> Tail(up[n])
                             [] m = n - 1 -> Append(up[m], frame)
                             [] OTHER -> up[m]) \in Seq(Frames)
  BY <1>1, <1>2
<1> QED
  BY <1>3 DEF UpTyped

LEMMA ReadTyped ==
  ASSUME Domains, NEW n \in Children, up[n] # <<>>
  PROVE  /\ Head(up[n]) \in Frames
         /\ [up EXCEPT ![n] = Tail(@)] \in [Children -> Seq(Frames)]
<1>1. up[n] \in Seq(Frames)
  BY DEF Domains
<1>2. Tail(up[n]) \in Seq(Frames) /\ Head(up[n]) \in Frames
  BY <1>1, TailNamed
<1> QED
  BY <1>2 DEF Domains

LEMMA AdmissionTyped ==
  ASSUME Domains, NEW n \in Levels, NEW e \in Effects, Protocol(e), Admissions(n, e)
  PROVE  Domains'
<1>0. ask[n][e] # "none" /\ n <= Level[e]
  <2>1. ask[n][e] # "none"
    BY DEF Admissions, Enter, TakeRefusal, ControlLost
  <2> QED
    BY <2>1 DEF Protocol, Placed
<1>1. CASE Enter(n, e)
  <2>1. ask' \in [Levels -> [Effects -> AskStates]]
    BY <1>1, AskTyped DEF Enter, AskStates
  <2>2. CASE MayEnter(n)
    <3>1. /\ gate' = [gate EXCEPT ![n].outstanding = Counted(n, e)] /\ Grant(n, e)
          /\ UNCHANGED <<up, historyVars>>
      BY <1>1, <2>2 DEF Enter
    <3>2. gate' \in [Levels -> Gates]
      <4>1. Counted(n, e) \in SUBSET Effects
        BY DEF Counted, Domains, Gates
      <4> QED
        BY <3>1, <4>1, GateChange
    <3> QED
      BY <1>0, <2>1, <3>1, <3>2, GrantTyped DEF Domains, historyVars
  <2>3. CASE ~MayEnter(n)
    <3>1. /\ Refuse(n, e) /\ SendUp(n, Settled(e, "not_dispatched"))
          /\ UNCHANGED <<gate, alive, reader, permits, historyVars>>
      BY <1>1, <2>3 DEF Enter
    <3>2. UpTyped
      <4>1. Settled(e, "not_dispatched") \in Frames
        BY FrameTypes DEF Outcomes
      <4> QED
        BY <3>1, <4>1, SendTyped
    <3> QED
      BY <1>0, <2>1, <3>1, <3>2, RefuseTyped DEF Domains, historyVars, UpTyped
  <2> QED
    BY <2>2, <2>3
<1>2. CASE TakeRefusal(n, e)
  <2>1. ask' \in [Levels -> [Effects -> AskStates]]
    BY <1>2, AskTyped DEF TakeRefusal, AskStates
  <2>2. Refuse(n, e) /\ UNCHANGED <<gate, alive, reader, permits, up, historyVars>>
    BY <1>2 DEF TakeRefusal
  <2> QED
    BY <1>0, <2>1, <2>2, RefuseTyped DEF Domains, historyVars
<1>3. CASE ControlLost(n, e)
  <2>1. /\ Refuse(n, e) /\ UNCHANGED <<alive, reader, permits, up, outcome, ack>>
        /\ gate' = [gate EXCEPT ![n].closed = TRUE]
        /\ orphaned' \subseteq orphaned \union Effects
    BY <1>3 DEF ControlLost
  <2>2. [f \in Effects |->
           CASE f = e -> "none"
             [] f # e /\ ask[n][f] = "waiting" -> "cleared"
             [] f # e /\ ask[n][f] = "orphan" -> "none"
             [] OTHER -> ask[n][f]] \in [Effects -> AskStates]
    BY DEF Domains, AskStates
  <2>3. ask' \in [Levels -> [Effects -> AskStates]]
    BY <1>3, <2>2 DEF ControlLost, Domains
  <2>4. gate' \in [Levels -> Gates]
    BY <2>1, GateChange
  <2> QED
    BY <1>0, <2>1, <2>3, <2>4, RefuseTyped DEF Domains
<1> QED
  BY <1>1, <1>2, <1>3 DEF Admissions

LEMMA ConversationTyped ==
  ASSUME Domains, NEW n \in Children, Conversation(n)
  PROVE  Domains'
<1>0. n \in Levels /\ n - 1 \in Levels /\ n # 0 /\ 0 \in Levels
  BY Places
<1>1. CASE ServeAdmit(n)
  <2> DEFINE e == Head(up[n]).e
  <2>1. /\ up[n] # <<>> /\ Head(up[n]).type = "admit"
        /\ UNCHANGED <<gate, effect, alive, reader, permits, historyVars>>
    BY <1>1 DEF ServeAdmit, ReadFrame
  <2>2. e \in Effects /\ Admit(e) \in Frames
    BY <2>1, ReadTyped, FrameTypes
  <2>3. CASE gate[n - 1].closed
    <3>1. /\ down' = [down EXCEPT ![n] = Append(@, [e |-> e, allowed |-> FALSE])]
          /\ up' = [up EXCEPT ![n] = Tail(@)] /\ UNCHANGED <<ask, serve>>
      BY <1>1, <2>3 DEF ServeAdmit
    <3> HIDE DEF e
    <3>2. down' \in [Children -> Seq(Replies)] /\ up' \in [Children -> Seq(Frames)]
      BY <2>1, <2>2, <3>1, ReadTyped, ReplyTyped
    <3> QED
      BY <2>1, <3>1, <3>2 DEF Domains, historyVars
  <2>4. CASE ~gate[n - 1].closed
    <3>1. /\ serve' = [serve EXCEPT ![n] = [pc |-> "asking", e |-> e]]
          /\ ask' = [ask EXCEPT ![n - 1][e] = IF n = 1 THEN "granted" ELSE "waiting"]
          /\ up' = [m \in Children |->
                     CASE m = n -> Tail(up[n])
                       [] m = n - 1 -> Append(up[m], Admit(e))
                       [] OTHER -> up[m]]
          /\ down' = down
      BY <1>1, <2>4 DEF ServeAdmit
    <3> HIDE DEF e
    <3>2. UpTyped
      BY <2>1, <2>2, <3>1, PassTyped
    <3>3. ask' \in [Levels -> [Effects -> AskStates]]
      BY <1>0, <2>2, <3>1, AskTyped DEF AskStates
    <3>4. serve' \in [Children -> Talks]
      BY <2>2, <3>1, TalkTypes DEF Domains
    <3> QED
      BY <2>1, <3>1, <3>2, <3>3, <3>4 DEF Domains, historyVars, UpTyped
  <2> QED
    BY <2>3, <2>4
<1>2. CASE ServeSettled(n)
  <2> DEFINE frame == Head(up[n])
  <2>1. /\ up[n] # <<>> /\ frame.type = "settled"
        /\ permits' = [permits EXCEPT ![n] = @ \ {frame.e}]
        /\ gate' = [gate EXCEPT ![n - 1].outstanding = @ \ {frame.e}]
        /\ outcome' = IF n = 1 THEN [outcome EXCEPT ![frame.e] = frame.state] ELSE outcome
        /\ up' = [m \in Children |->
             CASE m = n -> Tail(up[n])
               [] m = n - 1 -> Append(up[m], frame)
               [] OTHER -> up[m]]
        /\ UNCHANGED <<ask, effect, alive, reader, serve, down, ack, orphaned>>
    BY <1>2 DEF ServeSettled, ReadFrame
  <2>2. frame \in Frames /\ frame.e \in Effects /\ frame.state \in Outcomes
    BY <2>1, ReadTyped, FrameTypes
  <2> HIDE DEF frame
  <2>3. UpTyped
    BY <2>1, <2>2, PassTyped
  <2>4. gate' \in [Levels -> Gates] /\ permits' \in [Children -> SUBSET Effects]
    <3>1. gate' = [gate EXCEPT ![n - 1].outstanding = Held(n - 1) \ {frame.e}]
      BY <2>1 DEF Held
    <3>2. Held(n - 1) \ {frame.e} \in SUBSET Effects
      BY <1>0 DEF Held, Domains, Gates
    <3>3. permits' \in [Children -> SUBSET Effects]
      BY <2>1 DEF Domains
    <3> QED
      BY <1>0, <3>1, <3>2, <3>3, GateChange
  <2>5. outcome' \in [Effects -> Outcomes]
    BY <2>1, <2>2 DEF Domains
  <2> QED
    BY <2>1, <2>3, <2>4, <2>5 DEF Domains, UpTyped
<1>3. CASE ServeResult(n)
  <2>1. /\ up[n] # <<>> /\ serve' = [serve EXCEPT ![n] = [pc |-> "result", e |-> NoEffect]]
        /\ up' = [up EXCEPT ![n] = Tail(@)]
        /\ UNCHANGED <<gate, ask, effect, alive, reader, permits, down, historyVars>>
    BY <1>3 DEF ServeResult, ReadFrame
  <2>2. up' \in [Children -> Seq(Frames)] /\ serve' \in [Children -> Talks]
    BY <2>1, ReadTyped, TalkTypes DEF Domains
  <2> QED
    BY <2>1, <2>2 DEF Domains, historyVars
<1>4. CASE TakeReply(n)
  <2> DEFINE reply == Head(down[n])
  <2>1. /\ down[n] # <<>> /\ down' = [down EXCEPT ![n] = Tail(@)]
        /\ UNCHANGED <<effect, alive, serve, permits, up, historyVars>>
    BY <1>4 DEF TakeReply
  <2>2. /\ down[n] \in Seq(Replies) /\ reply \in Replies /\ reply.e \in Effects
        /\ Tail(down[n]) \in Seq(Replies)
    BY <2>1, TailReply DEF Domains, Replies
  <2>3. down' \in [Children -> Seq(Replies)]
    BY <2>1, <2>2 DEF Domains
  <2>4. CASE ask[n][reply.e] \in {"waiting", "orphan"}
    <3>1. /\ UNCHANGED <<gate, reader>>
          /\ ask' = [ask EXCEPT ![n][reply.e] =
                  IF ask[n][reply.e] = "orphan" THEN "none"
                  ELSE IF reply.allowed THEN "granted" ELSE "refused"]
      BY <1>4, <2>4 DEF TakeReply
    <3>2. (IF ask[n][reply.e] = "orphan" THEN "none"
           ELSE IF reply.allowed THEN "granted" ELSE "refused") \in AskStates
      BY DEF AskStates
    <3>3. ask' \in [Levels -> [Effects -> AskStates]]
      BY <1>0, <2>2, <3>1, <3>2, AskTyped
    <3> QED
      BY <2>1, <2>3, <3>1, <3>3 DEF Domains, historyVars
  <2>5. CASE ask[n][reply.e] \notin {"waiting", "orphan"}
    <3>1. Close(n) /\ reader' = reader \ {n}
      BY <1>4, <2>5 DEF TakeReply
    <3> QED
      BY <1>0, <2>1, <2>3, <3>1, CloseTyped DEF Domains, historyVars
  <2> QED
    BY <2>4, <2>5
<1>5. CASE Exit(n)
  <2>1. /\ alive' = alive \ {n} /\ reader' = reader \ {n} /\ SendUp(n, Result)
        /\ down' = [down EXCEPT ![n] = <<>>]
        /\ ask' = [ask EXCEPT ![n] = NoAsks]
        /\ gate' = [gate EXCEPT ![n] = OpenGate]
        /\ UNCHANGED <<effect, serve, permits, historyVars>>
    BY <1>5 DEF Exit
  <2>2. UpTyped
    BY <1>0, <2>1, SendTyped, FrameTypes
  <2>3. NoAsks \in [Effects -> AskStates] /\ OpenGate \in Gates /\ <<>> \in Seq(Replies)
    BY DEF NoAsks, AskStates, OpenGate, Gates
  <2> QED
    BY <1>0, <2>1, <2>2, <2>3 DEF Domains, UpTyped, historyVars
<1> QED
  BY <1>1, <1>2, <1>3, <1>4, <1>5 DEF Conversation

LEMMA DomainsStep ==
  ASSUME Domains, \A e \in Effects : Protocol(e), Next
  PROVE  Domains'
<1>1. ASSUME NEW e \in Effects, Begin(e) PROVE Domains'
  <2>0. Level[e] \in Levels
    BY Places
  <2>1. UNCHANGED <<gate, alive, reader, serve, permits, down, historyVars>>
    BY <1>1 DEF Begin
  <2>2. CASE gate[Level[e]].closed
    BY <1>1, <2>1, <2>2 DEF Begin, Domains, historyVars, EffectStates, Finals
  <2>3. CASE ~gate[Level[e]].closed
    <3>1. effect' = [effect EXCEPT ![e] = "asking"] /\ Request(Level[e], e)
      BY <1>1, <2>3 DEF Begin
    <3>2. UpTyped /\ ask' \in [Levels -> [Effects -> AskStates]]
      <4>1. (IF Level[e] = 0 THEN "granted" ELSE "waiting") \in AskStates
        BY DEF AskStates
      <4> QED
        BY <2>0, <3>1, <4>1, SendTyped, FrameTypes, AskTyped DEF Request
    <3> QED
      BY <2>1, <3>1, <3>2 DEF Domains, historyVars, EffectStates, UpTyped
  <2> QED
    BY <2>2, <2>3
<1>2. ASSUME NEW e \in Effects, Complete(e) PROVE Domains'
  <2>1. /\ effect' = [effect EXCEPT ![e] = "completed"]
        /\ Settle(Level[e], e, "completed")
        /\ serve' = [n \in Children |-> IF n \in Launches(e)
                      THEN [pc |-> "off", e |-> NoEffect] ELSE serve[n]]
        /\ UNCHANGED <<ask, alive, reader, permits, down, ack, orphaned>>
    BY <1>2 DEF Complete
  <2>2. Level[e] \in Levels /\ "completed" \in Outcomes
    BY Places DEF Outcomes
  <2>3. serve' \in [Children -> Talks]
    BY <2>1, TalkTypes DEF Domains
  <2> QED
    BY <2>1, <2>2, <2>3, SettleTyped DEF Domains, UpTyped, EffectStates, Finals
<1>3. ASSUME NEW e \in Effects, DropOwn(e) PROVE Domains'
  <2>1. Level[e] \in Levels /\ DropState \in Outcomes
    BY Places DEF Outcomes, DropState
  <2>2. /\ effect' = [effect EXCEPT ![e] = "dropped"] /\ Settle(Level[e], e, DropState)
        /\ UNCHANGED <<ask, alive, reader, serve, permits, down, ack, orphaned>>
    BY <1>3 DEF DropOwn
  <2> QED
    BY <2>1, <2>2, SettleTyped DEF Domains, UpTyped, EffectStates, Finals
<1>4. ASSUME NEW n \in Children, NEW e \in Effects, DropKept(n, e) PROVE Domains'
  <2>1. n - 1 \in Levels /\ DropState \in Outcomes
    BY Places DEF Outcomes, DropState
  <2>2. /\ permits' = [permits EXCEPT ![n] = @ \ {e}] /\ Settle(n - 1, e, DropState)
        /\ UNCHANGED <<ask, effect, alive, reader, serve, down, ack, orphaned>>
    BY <1>4 DEF DropKept
  <2>3. permits' \in [Children -> SUBSET Effects]
    BY <2>2 DEF Domains
  <2> QED
    BY <2>1, <2>2, <2>3, SettleTyped DEF Domains, UpTyped
<1>5. ASSUME NEW e \in Effects, EndsEarly(e) PROVE Domains'
  <2> DEFINE n == Level[e]
             inner == {f \in Effects : Level[f] = n /\ (f = e \/ Under(f, e))}
             killed == UNION {Launches(f) : f \in {g \in inner : effect[g] = "running"}}
             gone == {f \in Effects : killed # {} /\ Level[f] > n}
             waits == {f \in Effects : ask[n][f] # "none" /\ (f \in inner \/ f \in gone)}
  <2>0. n \in Levels /\ n \in Int /\ n >= 0
    BY Places
  <2>1. /\ effect' = [f \in Effects |->
              CASE f \in inner /\ effect[f] = "running" -> "dropping"
                [] f \in inner /\ effect[f] = "asking" -> "abandoned"
                [] f \in gone /\ effect[f] \notin Finals \union {"idle"} -> "killed"
                [] OTHER -> effect[f]]
        /\ ask' = [m \in Levels |-> [f \in Effects |->
              IF m > n /\ killed # {} THEN "none"
              ELSE IF m = n /\ f \in waits
                   THEN IF n > 0 /\ ask[m][f] = "waiting" THEN "orphan"
                        ELSE IF ask[m][f] = "orphan" THEN "orphan" ELSE "none"
                   ELSE ask[m][f]]]
        /\ orphaned' = orphaned \union waits
        /\ IF killed = {}
           THEN UNCHANGED <<gate, alive, reader, serve, permits, pipeVars>>
           ELSE Kill(n + 1)
        /\ UNCHANGED <<outcome, ack>>
    BY <1>5 DEF EndsEarly
  <2>2. waits \subseteq Effects
    OBVIOUS
  <2> HIDE DEF inner, killed, gone, waits, n
  <2>3. effect' \in [Effects -> EffectStates]
    BY <2>1 DEF Domains, EffectStates, Finals
  <2>4. ask' \in [Levels -> [Effects -> AskStates]]
    <3>1. \A m \in Levels, f \in Effects :
            (IF m > n /\ killed # {} THEN "none"
              ELSE IF m = n /\ f \in waits
                   THEN IF n > 0 /\ ask[m][f] = "waiting" THEN "orphan"
                        ELSE IF ask[m][f] = "orphan" THEN "orphan" ELSE "none"
                   ELSE ask[m][f]) \in AskStates
      BY DEF Domains, AskStates
    <3> QED
      BY <2>1, <3>1
  <2>5. CASE killed = {}
    BY <2>1, <2>2, <2>3, <2>4, <2>5 DEF Domains, pipeVars
  <2>6. CASE killed # {}
    <3>1. /\ alive' = {m \in alive : m < n + 1}
          /\ reader' = {m \in reader : m < n + 1}
          /\ up' = [m \in Children |-> IF m >= n + 1 THEN <<>> ELSE up[m]]
          /\ down' = [m \in Children |-> IF m >= n + 1 THEN <<>> ELSE down[m]]
          /\ serve' = [m \in Children |-> IF m >= n + 1 THEN [pc |-> "off", e |-> NoEffect] ELSE serve[m]]
          /\ permits' = [m \in Children |-> IF m > n + 1 THEN {} ELSE permits[m]]
          /\ gate' = [m \in Levels |-> IF m >= n + 1 THEN OpenGate ELSE gate[m]]
      BY <2>1, <2>6 DEF Kill
    <3>2. OpenGate \in Gates /\ <<>> \in Seq(Frames) /\ <<>> \in Seq(Replies)
      BY DEF OpenGate, Gates
    <3>3. alive' \subseteq Levels /\ 0 \in alive' /\ reader' \subseteq alive'
      <4>1. 0 < n + 1
        BY <2>0
      <4> QED
        BY <3>1, <4>1 DEF Domains
    <3>4. up' \in [Children -> Seq(Frames)] /\ down' \in [Children -> Seq(Replies)]
      BY <3>1, <3>2 DEF Domains
    <3>5. /\ serve' \in [Children -> Talks] /\ permits' \in [Children -> SUBSET Effects]
          /\ gate' \in [Levels -> Gates]
      BY <3>1, <3>2, TalkTypes DEF Domains
    <3> QED
      BY <2>1, <2>2, <2>3, <2>4, <3>3, <3>4, <3>5 DEF Domains
  <2> QED
    BY <2>5, <2>6
<1>6. ASSUME Revoke PROVE Domains'
  <2>1. 0 \in Levels
    BY Places
  <2>2. gate[0].outstanding \in SUBSET Effects
    BY <2>1 DEF Domains, Gates
  <2> QED
    BY <1>6, <2>1, <2>2, CloseTyped DEF Revoke, Domains, pipeVars
<1> QED
  BY <1>1, <1>2, <1>3, <1>4, <1>5, <1>6, AdmissionTyped, ConversationTyped
     DEF Next, Running, Started

(***************************************************************************)
(* The protocol and the pipes, action by action                            *)
(***************************************************************************)
LEMMA AskChange ==
  ASSUME Domains, NEW n \in Levels, NEW e \in Effects, NEW s,
         ask' = [ask EXCEPT ![n][e] = s]
  PROVE  /\ ask'[n][e] = s
         /\ \A m \in Levels : m # n => ask'[m][e] = ask[m][e]
         /\ \A f \in Effects : f # e => AskSame(f)
         /\ s = "none" => AskEnds(n, e)
BY DEF Domains, AskSame, AskEnds

LEMMA AnswerShape ==
  ASSUME Domains, PipesOnce, NEW e \in Effects, Protocol(e), NEW n \in Levels, n < Level[e],
         ask[n][e] \in Asks, NEW ok \in BOOLEAN,
         serve' = [serve EXCEPT ![n + 1] = [pc |-> "reading", e |-> NoEffect]],
         down' = [down EXCEPT ![n + 1] = Append(@, [e |-> e, allowed |-> ok])]
  PROVE  /\ Answers(n, e, ok)
         /\ \A f \in Effects : f # e => ServedSame(f) /\ RepliedSame(f)
         /\ \A m \in Children : AnsweredOnce(down[m])'
<1>0. n + 1 \in Children /\ e \in Served(n + 1)
  BY Places DEF Protocol, Forwarded
<1>1. serve[n + 1].pc = "asking" /\ serve[n + 1].e = e /\ e \notin Replied(n + 1)
  BY <1>0 DEF Served, Protocol, ServedOnce
<1>2. DownGains(n + 1, e, ok)
  BY <1>0, ReplyChange
<1>3. /\ \A m \in Children : m # n + 1 => serve'[m] = serve[m]
      /\ serve'[n + 1].pc = "reading"
  BY <1>0 DEF Domains
<1>4. \A m \in Children : e \in Served(m)' <=> e \in Served(m) /\ m # n + 1
  BY <1>3 DEF Served
<1>5. Answers(n, e, ok)
  BY <1>2, <1>4 DEF Answers, DownGains
<1>6. ASSUME NEW f \in Effects, f # e PROVE ServedSame(f) /\ RepliedSame(f)
  <2>1. f \notin Served(n + 1)' /\ f \notin Served(n + 1)
    BY <1>1, <1>3, <1>6 DEF Served
  <2>2. \A m \in Children : m # n + 1 => (f \in Served(m)' <=> f \in Served(m))
    BY <1>3 DEF Served
  <2>3. RepliedSame(f)
    BY <1>2, <1>6, GainsSame
  <2> QED
    BY <2>1, <2>2, <2>3 DEF ServedSame
<1>7. \A m \in Children : AnsweredOnce(down[m])'
  BY <1>1, <1>2 DEF DownGains, PipesOnce
<1> QED
  BY <1>5, <1>6, <1>7

LEMMA RefuseShape ==
  ASSUME Domains, PipesOnce, NEW e \in Effects, Protocol(e), NEW n \in Levels, n <= Level[e],
         ask[n][e] \in Asks, Refuse(n, e)
  PROVE  /\ IF Level[e] = n THEN effect'[e] = "refused" /\ ServedSame(e) /\ RepliedSame(e)
            ELSE n < Level[e] /\ effect'[e] = effect[e] /\ Answers(n, e, FALSE)
         /\ \A f \in Effects : f # e => effect'[f] = effect[f] /\ ServedSame(f) /\ RepliedSame(f)
         /\ \A m \in Children : AnsweredOnce(down[m])'
<1>1. CASE Level[e] = n
  <2>1. effect' = [effect EXCEPT ![e] = "refused"] /\ serve' = serve /\ down' = down
    BY <1>1 DEF Refuse
  <2>2. effect'[e] = "refused" /\ \A f \in Effects : f # e => effect'[f] = effect[f]
    BY <2>1 DEF Domains
  <2> QED
    BY <1>1, <2>1, <2>2, Stays DEF PipesOnce
<1>2. CASE Level[e] # n
  <2>1. /\ serve' = [serve EXCEPT ![n + 1] = [pc |-> "reading", e |-> NoEffect]]
        /\ down' = [down EXCEPT ![n + 1] = Append(@, [e |-> e, allowed |-> FALSE])]
        /\ effect' = effect
    BY <1>2 DEF Refuse
  <2>2. n < Level[e]
    BY <1>2, Places
  <2>3. /\ Answers(n, e, FALSE)
        /\ \A f \in Effects : f # e => ServedSame(f) /\ RepliedSame(f)
        /\ \A m \in Children : AnsweredOnce(down[m])'
    BY <2>1, <2>2, AnswerShape
  <2> QED
    BY <1>2, <2>1, <2>2, <2>3
<1> QED
  BY <1>1, <1>2

LEMMA GrantShape ==
  ASSUME Domains, PipesOnce, Processes, NEW e \in Effects, Protocol(e), NEW n \in Levels,
         n <= Level[e], ask[n][e] = "granted", Grant(n, e)
  PROVE  /\ IF Level[e] = n
            THEN effect'[e] = "running" /\ ServedSame(e) /\ RepliedSame(e) /\ PermitsSame(e)
            ELSE /\ n < Level[e] /\ effect'[e] = effect[e] /\ Answers(n, e, TRUE)
                 /\ \A m \in Children : e \in permits'[m] <=> e \in permits[m] \/ m = n + 1
         /\ \A f \in Effects : f # e =>
              effect'[f] = effect[f] /\ ServedSame(f) /\ RepliedSame(f) /\ PermitsSame(f)
         /\ \A m \in Children : AnsweredOnce(down[m])'
<1>1. CASE Level[e] = n
  <2>1. /\ effect' = [effect EXCEPT ![e] = "running"] /\ down' = down /\ permits' = permits
        /\ serve' = [m \in Children |-> IF m \in Launches(e)
                      THEN [pc |-> "reading", e |-> NoEffect] ELSE serve[m]]
    BY <1>1 DEF Grant
  <2>2. effect'[e] = "running" /\ \A f \in Effects : f # e => effect'[f] = effect[f]
    BY <2>1 DEF Domains
  <2>3. effect[e] = "asking"
    BY <1>1 DEF Protocol, Own, Asks
  <2>4. ASSUME NEW f \in Effects PROVE ServedSame(f)
    <3> SUFFICES ASSUME NEW m \in Children PROVE f \in Served(m)' <=> f \in Served(m)
      BY DEF ServedSame
    <3>1. CASE m \in Launches(e)
      <4>1. serve[m].pc = "off" /\ serve'[m].pc = "reading"
        <5>1. effect[Launch[m]] # "running"
          BY <2>3, <3>1 DEF Launches
        <5>2. serve[m].pc = "off"
          BY <5>1 DEF Processes
        <5> QED
          BY <2>1, <3>1, <5>2
      <4> QED
        BY <4>1 DEF Served
    <3>2. CASE m \notin Launches(e)
      BY <2>1, <3>2 DEF Served
    <3> QED
      BY <3>1, <3>2
  <2> QED
    BY <1>1, <2>1, <2>2, <2>4, Stays DEF PipesOnce
<1>2. CASE Level[e] # n
  <2>1. /\ serve' = [serve EXCEPT ![n + 1] = [pc |-> "reading", e |-> NoEffect]]
        /\ down' = [down EXCEPT ![n + 1] = Append(@, [e |-> e, allowed |-> TRUE])]
        /\ permits' = [permits EXCEPT ![n + 1] = @ \union {e}]
        /\ effect' = effect
    BY <1>2 DEF Grant
  <2>2. n < Level[e] /\ n + 1 \in Children
    BY <1>2, Places
  <2>3. /\ Answers(n, e, TRUE)
        /\ \A f \in Effects : f # e => ServedSame(f) /\ RepliedSame(f)
        /\ \A m \in Children : AnsweredOnce(down[m])'
    <3>1. ask[n][e] \in Asks
      BY DEF Asks
    <3> QED
      BY <2>1, <2>2, <3>1, AnswerShape
  <2>4. \A f \in Effects : \A m \in Children :
          f \in permits'[m] <=> f \in permits[m] \/ (m = n + 1 /\ f = e)
    BY <2>1, <2>2 DEF Domains
  <2> QED
    BY <1>2, <2>1, <2>2, <2>3, <2>4 DEF PermitsSame
<1> QED
  BY <1>1, <1>2

LEMMA AdmissionProtocol ==
  ASSUME Domains, PipesOnce, Processes, \A f \in Effects : Protocol(f),
         NEW n \in Levels, NEW e \in Effects, Admissions(n, e)
  PROVE  PipesOnce' /\ \A f \in Effects : Protocol(f)'
<1>0. Protocol(e) /\ n <= Level[e] /\ ask[n][e] \in Asks
  <2>1. Protocol(e) /\ ask[n][e] # "none" /\ ask[n][e] \in Asks
    BY DEF Admissions, Enter, TakeRefusal, ControlLost, Asks
  <2> QED
    BY <2>1 DEF Protocol, Placed
<1>1. CASE Enter(n, e)
  <2>0. /\ ask[n][e] = "granted" /\ ask' = [ask EXCEPT ![n][e] = "none"]
        /\ outcome' = outcome
    BY <1>1 DEF Enter, historyVars
  <2>1. AskEnds(n, e) /\ \A f \in Effects : f # e => AskSame(f)
    BY <2>0, AskChange
  <2>2. CASE MayEnter(n)
    <3>1. /\ gate' = [gate EXCEPT ![n].outstanding = Counted(n, e)] /\ Grant(n, e) /\ up' = up
      BY <1>1, <2>2 DEF Enter
    <3>2. /\ \A m \in Levels : e \in Held(m)' <=> e \in Held(m) \/ m = n
          /\ \A f \in Effects : f # e => HeldSame(f)
      <4>1. Counted(n, e) \in SUBSET Effects
        BY DEF Counted, Domains, Gates
      <4>2. \A m \in Levels : Held(m)' = IF m = n THEN Counted(n, e) ELSE Held(m)
        BY <3>1, <4>1, GateChange
      <4> QED
        BY <4>2 DEF Counted, Held, HeldSame
    <3>3. /\ IF Level[e] = n
             THEN effect'[e] = "running" /\ ServedSame(e) /\ RepliedSame(e) /\ PermitsSame(e)
             ELSE /\ n < Level[e] /\ effect'[e] = effect[e] /\ Answers(n, e, TRUE)
                  /\ \A m \in Children : e \in permits'[m] <=> e \in permits[m] \/ m = n + 1
          /\ \A f \in Effects : f # e =>
               effect'[f] = effect[f] /\ ServedSame(f) /\ RepliedSame(f) /\ PermitsSame(f)
          /\ \A m \in Children : AnsweredOnce(down[m])'
      BY <1>0, <2>0, <3>1, GrantShape
    <3>4. \A f \in Effects : RequestedSame(f) /\ SettlingSame(f)
      BY <3>1, Stays
    <3>5. PipesOnce'
      BY <3>1, <3>3, Stays DEF PipesOnce
    <3>6. Protocol(e)'
      <4>1. CASE Level[e] = n
        BY <1>0, <2>0, <2>1, <3>2, <3>3, <3>4, <4>1, OwnGrantKeeps
      <4>2. CASE Level[e] # n
        <5>1. FateSame(e)
          BY <2>0, <3>3, <4>2 DEF FateSame
        <5> QED
          BY <1>0, <2>0, <2>1, <3>2, <3>3, <3>4, <4>2, <5>1, PassedGrantKeeps
      <4> QED
        BY <4>1, <4>2
    <3>7. ASSUME NEW f \in Effects, f # e PROVE Protocol(f)'
      <4>1. Rests(f)
        BY <2>0, <2>1, <3>2, <3>3, <3>4, <3>7, FadeSame DEF Rests, FateSame
      <4> QED
        BY <4>1, RestsKeeps
    <3> QED
      BY <3>5, <3>6, <3>7
  <2>3. CASE ~MayEnter(n)
    <3>1. /\ Refuse(n, e) /\ SendUp(n, Settled(e, "not_dispatched"))
          /\ gate' = gate /\ permits' = permits
      BY <1>1, <2>3 DEF Enter
    <3>2. /\ IF Level[e] = n THEN effect'[e] = "refused" /\ ServedSame(e) /\ RepliedSame(e)
             ELSE n < Level[e] /\ effect'[e] = effect[e] /\ Answers(n, e, FALSE)
          /\ \A f \in Effects : f # e => effect'[f] = effect[f] /\ ServedSame(f) /\ RepliedSame(f)
          /\ \A m \in Children : AnsweredOnce(down[m])'
      BY <1>0, <3>1, RefuseShape
    <3>3. \A f \in Effects : HeldSame(f) /\ PermitsSame(f)
      BY <3>1, Stays
    <3>4. /\ \/ SettlingSame(e) /\ outcome'[e] = outcome[e]
             \/ ask[n][e] = "granted" /\ Tells(n, e)
          /\ \A f \in Effects : RequestedSame(f) /\ (f # e => SettlingSame(f))
          /\ \A m \in Children : OnceEach(up[m])'
      <4>1. CASE n = 0
        <5>1. up' = up
          BY <3>1, <4>1 DEF SendUp
        <5> QED
          BY <2>0, <5>1, Stays DEF PipesOnce
      <4>2. CASE n # 0
        <5>1. n \in Children
          BY <4>2, Places
        <5>2. UpGains(n, "settled", e)
          <6>1. /\ Settled(e, "not_dispatched") \in Frames
                /\ Settled(e, "not_dispatched").type = "settled"
                /\ Settled(e, "not_dispatched").e = e
            BY FrameTypes DEF Outcomes
          <6> QED
            BY <3>1, <6>1, SendUpChange
        <5>3. e \notin Named(up[n], "settled")
          BY <1>0, <2>0, <5>1 DEF Protocol, GrantedOnce, Settling
        <5>4. Tells(n, e)
          BY <2>0, <4>2, <5>2 DEF UpGains, Tells
        <5>5. \A m \in Children : OnceEach(up[m])'
          BY <5>2, <5>3 DEF UpGains, PipesOnce
        <5> QED
          BY <2>0, <5>2, <5>4, <5>5, GainsSame
      <4> QED
        BY <4>1, <4>2
    <3>5. PipesOnce'
      BY <3>2, <3>4 DEF PipesOnce
    <3>6. Protocol(e)'
      <4>1. CASE Level[e] = n
        BY <1>0, <2>1, <3>2, <3>3, <3>4, <4>1, OwnRefusalKeeps
      <4>2. CASE Level[e] # n
        BY <1>0, <2>1, <3>2, <3>3, <3>4, <4>2, PassedRefusalKeeps
      <4> QED
        BY <4>1, <4>2
    <3>7. ASSUME NEW f \in Effects, f # e PROVE Protocol(f)'
      <4>1. Rests(f)
        BY <2>0, <2>1, <3>2, <3>3, <3>4, <3>7, FadeSame DEF Rests, FateSame
      <4> QED
        BY <4>1, RestsKeeps
    <3> QED
      BY <3>5, <3>6, <3>7
  <2> QED
    BY <2>2, <2>3
<1>2. ASSUME Refuse(n, e), AskEnds(n, e), \A f \in Effects : f # e => AskFades(f),
             \A f \in Effects : HeldSame(f),
             UNCHANGED <<permits, up, outcome>>
      PROVE  PipesOnce' /\ \A f \in Effects : Protocol(f)'
  <2>1. /\ IF Level[e] = n THEN effect'[e] = "refused" /\ ServedSame(e) /\ RepliedSame(e)
           ELSE n < Level[e] /\ effect'[e] = effect[e] /\ Answers(n, e, FALSE)
        /\ \A f \in Effects : f # e => effect'[f] = effect[f] /\ ServedSame(f) /\ RepliedSame(f)
        /\ \A m \in Children : AnsweredOnce(down[m])'
    BY <1>0, <1>2, RefuseShape
  <2>2. \A f \in Effects : PermitsSame(f) /\ RequestedSame(f) /\ SettlingSame(f)
    BY <1>2, Stays
  <2>3. PipesOnce'
    BY <1>2, <2>1, Stays DEF PipesOnce
  <2>4. Protocol(e)'
    <3>1. CASE Level[e] = n
      BY <1>0, <1>2, <2>1, <2>2, <3>1, OwnRefusalKeeps
    <3>2. CASE Level[e] # n
      BY <1>0, <1>2, <2>1, <2>2, <3>2, PassedRefusalKeeps
    <3> QED
      BY <3>1, <3>2
  <2>5. ASSUME NEW f \in Effects, f # e PROVE Protocol(f)'
    <3>1. Rests(f)
      BY <1>2, <2>1, <2>2, <2>5, FadeSame DEF Rests, FateSame
    <3> QED
      BY <3>1, RestsKeeps
  <2> QED
    BY <2>3, <2>4, <2>5
<1>3. CASE TakeRefusal(n, e)
  <2>1. AskEnds(n, e) /\ \A f \in Effects : f # e => AskFades(f)
    BY <1>3, AskChange, FadeSame DEF TakeRefusal
  <2>2. Refuse(n, e) /\ gate' = gate /\ UNCHANGED <<permits, up, outcome>>
    BY <1>3 DEF TakeRefusal, historyVars
  <2> QED
    BY <1>2, <2>1, <2>2, Stays
<1>4. CASE ControlLost(n, e)
  <2>1. \A f \in Effects :
          /\ \A m \in Levels : m # n => ask'[m][f] = ask[m][f]
          /\ ask'[n][f] = CASE f = e -> "none"
                           [] f # e /\ ask[n][f] = "waiting" -> "cleared"
                           [] f # e /\ ask[n][f] = "orphan" -> "none"
                           [] OTHER -> ask[n][f]
    BY <1>4 DEF ControlLost, Domains
  <2>2. AskEnds(n, e)
    BY <2>1 DEF AskEnds
  <2>3. \A f \in Effects : f # e => AskFades(f)
    BY <2>1 DEF AskFades
  <2>4. \A f \in Effects : HeldSame(f)
    BY <1>4, GateChange DEF ControlLost, HeldSame
  <2> QED
    BY <1>2, <1>4, <2>2, <2>3, <2>4 DEF ControlLost
<1> QED
  BY <1>1, <1>3, <1>4 DEF Admissions

LEMMA BeginProtocol ==
  ASSUME Domains, PipesOnce, \A f \in Effects : Protocol(f), NEW e \in Effects, Begin(e)
  PROVE  PipesOnce' /\ \A f \in Effects : Protocol(f)'
<1>0. /\ effect[e] = "idle" /\ Protocol(e) /\ Level[e] \in Levels
      /\ UNCHANGED <<gate, serve, permits, down, outcome>>
  BY Places DEF Begin, historyVars
<1>1. \A f \in Effects : HeldSame(f) /\ ServedSame(f) /\ PermitsSame(f) /\ RepliedSame(f)
  BY <1>0, Stays
<1>2. \A m \in Children : AnsweredOnce(down[m])'
  BY <1>0, Stays DEF PipesOnce
<1>3. CASE gate[Level[e]].closed
  <2>1. effect' = [effect EXCEPT ![e] = "refused"] /\ ask' = ask /\ up' = up
    BY <1>3 DEF Begin
  <2>2. effect'[e] = "refused" /\ \A f \in Effects : f # e => effect'[f] = effect[f]
    BY <2>1 DEF Domains
  <2>3. \A f \in Effects : RequestedSame(f) /\ SettlingSame(f) /\ AskSame(f)
    BY <2>1, Stays
  <2>4. Protocol(e)'
    BY <1>0, <1>1, <2>2, <2>3, RefusedAtOnceKeeps
  <2>5. ASSUME NEW f \in Effects, f # e PROVE Protocol(f)'
    <3>1. Rests(f)
      BY <1>0, <1>1, <2>2, <2>3, <2>5, FadeSame DEF Rests, FateSame
    <3> QED
      BY <3>1, RestsKeeps
  <2>6. PipesOnce'
    BY <1>2, <2>1, Stays DEF PipesOnce
  <2> QED
    BY <2>4, <2>5, <2>6
<1>4. CASE ~gate[Level[e]].closed
  <2>1. /\ effect' = [effect EXCEPT ![e] = "asking"] /\ SendUp(Level[e], Admit(e))
        /\ ask' = [ask EXCEPT ![Level[e]][e] = IF Level[e] = 0 THEN "granted" ELSE "waiting"]
    BY <1>4 DEF Begin, Request
  <2>2. effect'[e] = "asking" /\ \A f \in Effects : f # e => effect'[f] = effect[f]
    BY <2>1 DEF Domains
  <2>3. UpGains(Level[e], "admit", e)
    BY <1>0, <2>1, FrameTypes, SendUpChange
  <2>4. /\ \A m \in Levels : ask'[m][e] = IF m = Level[e]
                                         THEN IF m = 0 THEN "granted" ELSE "waiting"
                                         ELSE ask[m][e]
        /\ \A f \in Effects : f # e => AskSame(f)
    <3> DEFINE s == IF Level[e] = 0 THEN "granted" ELSE "waiting"
    <3>1. ask' = [ask EXCEPT ![Level[e]][e] = s]
      BY <2>1
    <3> HIDE DEF s
    <3>2. /\ ask'[Level[e]][e] = s
          /\ \A m \in Levels : m # Level[e] => ask'[m][e] = ask[m][e]
          /\ \A f \in Effects : f # e => AskSame(f)
      <4>1. PICK n \in Levels : n = Level[e]
        BY <1>0
      <4> QED
        BY <3>1, <4>1 DEF Domains, AskSame
    <3> QED
      BY <3>2 DEF s
  <2>5. /\ \A m \in Children : e \in Requested(m)' <=> e \in Requested(m) \/ m = Level[e]
        /\ \A f \in Effects : SettlingSame(f) /\ (f # e => RequestedSame(f))
    BY <2>3, GainsSame DEF UpGains
  <2>6. Protocol(e)'
    BY <1>0, <1>1, <2>2, <2>4, <2>5, AskKeeps
  <2>7. ASSUME NEW f \in Effects, f # e PROVE Protocol(f)'
    <3>1. Rests(f)
      BY <1>0, <1>1, <2>2, <2>4, <2>5, <2>7, FadeSame DEF Rests, FateSame
    <3> QED
      BY <3>1, RestsKeeps
  <2>8. PipesOnce'
    <3>1. \A m \in Children : e \notin Named(up[m], "admit")
      BY <1>0 DEF Protocol, Placed, Requested
    <3> QED
      BY <1>2, <2>3, <3>1 DEF PipesOnce, UpGains
  <2> QED
    BY <2>6, <2>7, <2>8
<1> QED
  BY <1>3, <1>4

LEMMA AdmitProtocol ==
  ASSUME Domains, PipesOnce, \A f \in Effects : Protocol(f), NEW n \in Children, ServeAdmit(n)
  PROVE  PipesOnce' /\ \A f \in Effects : Protocol(f)'
<1>0. /\ up[n] # <<>> /\ Head(up[n]).type = "admit" /\ serve[n].pc = "reading"
      /\ UNCHANGED <<gate, effect, permits, outcome>>
  BY DEF ServeAdmit, ReadFrame, historyVars
<1>9. PICK e \in Effects : e = Head(up[n]).e
  BY <1>0, ReadTyped, FrameTypes
<1>1. Admit(e) \in Frames /\ Admit(e).type = "admit" /\ Admit(e).e = e
  BY FrameTypes
<1>2. \A f \in Effects : HeldSame(f) /\ FateSame(f) /\ PermitsSame(f)
  BY <1>0, Stays
<1>3. e \in Requested(n)
  BY <1>0, <1>1, <1>9, ReadUpChange DEF Requested
<1>4. Protocol(e) /\ Unseen(e, n)
  BY <1>1, <1>3 DEF Protocol, RequestedOnce
<1>5. n - 1 \in Levels /\ (n - 1 \in Children => n - 1 < n)
  BY Places
<1>6. /\ gate[n - 1].closed =>
           /\ down' = [down EXCEPT ![n] = Append(@, [e |-> e, allowed |-> FALSE])]
           /\ up' = [up EXCEPT ![n] = Tail(@)] /\ UNCHANGED <<ask, serve>>
      /\ ~gate[n - 1].closed =>
           /\ serve' = [serve EXCEPT ![n] = [pc |-> "asking", e |-> e]]
           /\ ask' = [ask EXCEPT ![n - 1][e] = IF n = 1 THEN "granted" ELSE "waiting"]
           /\ up' = [m \in Children |->
                     CASE m = n -> Tail(up[n])
                       [] m = n - 1 -> Append(up[m], Admit(e))
                       [] OTHER -> up[m]]
           /\ down' = down
  BY <1>9 DEF ServeAdmit
<1>7. CASE gate[n - 1].closed
  <2>1. /\ down' = [down EXCEPT ![n] = Append(@, [e |-> e, allowed |-> FALSE])]
        /\ up' = [up EXCEPT ![n] = Tail(@)] /\ UNCHANGED <<ask, serve>>
    BY <1>6, <1>7
  <2>2. UpLoses(n, "admit", e)
    BY <1>0, <1>1, <1>9, <2>1, ReadUpChange
  <2>3. DownGains(n, e, FALSE)
    BY <1>1, <2>1, ReplyChange
  <2>4. \A f \in Effects : ServedSame(f) /\ AskSame(f)
    BY <2>1, Stays
  <2>5. \A f \in Effects : SettlingSame(f) /\ (f # e => RequestedSame(f) /\ RepliedSame(f))
    BY <1>1, <2>2, <2>3, GainsSame
  <2>6. Protocol(e)'
    <3>1. /\ \A m \in Children : e \in Requested(m)' <=> e \in Requested(m) /\ m # n
          /\ \A m \in Children : e \in Replied(m)' <=> e \in Replied(m) \/ m = n
          /\ \A m \in Children : e \in Allowed(m)' <=> e \in Allowed(m)
      BY <1>1, <2>2, <2>3 DEF UpLoses, DownGains
    <3>2. FateSame(e) /\ AskSame(e) /\ HeldSame(e) /\ SettlingSame(e) /\ ServedSame(e) /\ PermitsSame(e)
      BY <1>1, <1>2, <2>4, <2>5
    <3> QED
      BY <1>1, <1>3, <1>4, <3>1, <3>2, DenyKeeps
  <2>7. ASSUME NEW f \in Effects, f # e PROVE Protocol(f)'
    <3>1. Rests(f)
      BY <1>2, <2>4, <2>5, <2>7, FadeSame DEF Rests
    <3> QED
      BY <3>1, RestsKeeps
  <2>8. PipesOnce'
    <3>1. e \notin Replied(n)
      <4>1. n <= n
        BY Places
      <4> QED
        BY <1>4, <4>1 DEF Unseen
    <3>2. \A m \in Children : AnsweredOnce(down[m])'
      BY <2>3, <3>1 DEF PipesOnce, DownGains
    <3>3. \A m \in Children : OnceEach(up[m])'
      BY <2>2 DEF PipesOnce, UpLoses
    <3> QED
      BY <3>2, <3>3 DEF PipesOnce
  <2> QED
    BY <2>6, <2>7, <2>8
<1>8. CASE ~gate[n - 1].closed
  <2>1. /\ serve' = [serve EXCEPT ![n] = [pc |-> "asking", e |-> e]]
        /\ ask' = [ask EXCEPT ![n - 1][e] = IF n = 1 THEN "granted" ELSE "waiting"]
        /\ up' = [m \in Children |->
                     CASE m = n -> Tail(up[n])
                       [] m = n - 1 -> Append(up[m], Admit(e))
                       [] OTHER -> up[m]]
        /\ down' = down
    BY <1>6, <1>8
  <2>2. UpPasses(n, "admit", e)
    BY <1>0, <1>1, <1>9, <2>1, ReadUpChange
  <2>3. \A m \in Levels : ask'[m][e] = IF m = n - 1
                                      THEN IF n = 1 THEN "granted" ELSE "waiting"
                                      ELSE ask[m][e]
    <3> DEFINE s == IF n = 1 THEN "granted" ELSE "waiting"
    <3>1. ask' = [ask EXCEPT ![n - 1][e] = s]
      BY <2>1
    <3> HIDE DEF s
    <3>2. /\ ask'[n - 1][e] = s
          /\ \A m \in Levels : m # n - 1 => ask'[m][e] = ask[m][e]
      <4>1. PICK k \in Levels : k = n - 1
        BY <1>5
      <4> QED
        BY <3>1, <4>1 DEF Domains, AskSame
    <3> QED
      BY <3>2 DEF s
  <2>4. \A f \in Effects : f # e => AskSame(f)
    BY <1>1, <1>5, <2>1, AskChange
  <2>5. \A f \in Effects : RepliedSame(f) /\ SettlingSame(f) /\ (f # e => RequestedSame(f))
    BY <1>1, <2>1, <2>2, Stays, GainsSame
  <2>6. \A f \in Effects : \A m \in Children :
          f \in Served(m)' <=> f \in Served(m) \/ (m = n /\ f = e)
    <3>1. serve'[n].pc = "asking" /\ serve'[n].e = e
          /\ \A m \in Children : m # n => serve'[m] = serve[m]
      BY <2>1 DEF Domains
    <3> QED
      BY <1>0, <3>1 DEF Served
  <2>7. Protocol(e)'
    <3>1. \A m \in Children : e \in Requested(m)' <=> (e \in Requested(m) /\ m # n) \/ m = n - 1
      BY <1>1, <2>2 DEF UpPasses
    <3>2. FateSame(e) /\ HeldSame(e) /\ SettlingSame(e) /\ RepliedSame(e) /\ PermitsSame(e)
          /\ \A m \in Children : e \in Served(m)' <=> e \in Served(m) \/ m = n
      BY <1>1, <1>2, <2>5, <2>6
    <3> QED
      BY <1>1, <1>3, <1>4, <2>3, <3>1, <3>2, PassKeeps
  <2>8. ASSUME NEW f \in Effects, f # e PROVE Protocol(f)'
    <3>1. Rests(f)
      BY <1>2, <2>4, <2>5, <2>6, <2>8, FadeSame DEF Rests, ServedSame
    <3> QED
      BY <3>1, RestsKeeps
  <2>9. PipesOnce'
    <3>1. \A m \in Children : m = n - 1 => e \notin Named(up[m], "admit")
      BY <1>4, <1>5 DEF Unseen, Requested
    <3>2. \A m \in Children : AnsweredOnce(down[m])'
      BY <2>1, Stays DEF PipesOnce
    <3>3. \A m \in Children : OnceEach(up[m])'
      BY <2>2, <3>1 DEF PipesOnce, UpPasses
    <3> QED
      BY <3>2, <3>3 DEF PipesOnce
  <2> QED
    BY <2>7, <2>8, <2>9
<1> QED
  BY <1>7, <1>8

LEMMA SettleShape ==
  ASSUME Domains, PipesOnce, NEW e \in Effects, Protocol(e), NEW k \in Levels, e \in Held(k),
         NEW state \in Outcomes, Settle(k, e, state)
  PROVE  /\ \A m \in Levels : e \in Held(m)' <=> e \in Held(m) /\ m # k
         /\ \A m \in Children : e \in Settling(m)' <=> e \in Settling(m) \/ m = k
         /\ k # 0 => outcome'[e] = outcome[e]
         /\ \A f \in Effects : RequestedSame(f)
         /\ \A f \in Effects : f # e => HeldSame(f) /\ SettlingSame(f) /\ outcome'[f] = outcome[f]
         /\ \A m \in Children : OnceEach(up[m])'
<1>1. /\ \A m \in Levels : e \in Held(m)' <=> e \in Held(m) /\ m # k
      /\ \A f \in Effects : f # e => HeldSame(f)
  <2>1. gate' = [gate EXCEPT ![k].outstanding = Held(k) \ {e}]
    BY DEF Settle, Held
  <2>2. Held(k) \ {e} \in SUBSET Effects
    BY DEF Held, Domains, Gates
  <2>3. \A m \in Levels : Held(m)' = IF m = k THEN Held(k) \ {e} ELSE Held(m)
    BY <2>1, <2>2, GateChange
  <2> QED
    BY <2>3 DEF HeldSame
<1>2. /\ k # 0 => outcome'[e] = outcome[e]
      /\ \A f \in Effects : f # e => outcome'[f] = outcome[f]
  BY DEF Settle, Domains
<1>3. UpGains(k, "settled", e)
  <2>1. SendUp(k, Settled(e, state))
    BY DEF Settle
  <2>2. /\ Settled(e, state) \in Frames /\ Settled(e, state).type = "settled"
        /\ Settled(e, state).e = e
    BY FrameTypes
  <2> QED
    BY <2>1, <2>2, SendUpChange
<1>4. \A m \in Children : e \in Settling(m)' <=> e \in Settling(m) \/ m = k
  BY <1>3 DEF UpGains
<1>5. \A f \in Effects : RequestedSame(f) /\ (f # e => SettlingSame(f))
  BY <1>3, GainsSame
<1>6. \A m \in Children : OnceEach(up[m])'
  <2>1. \A m \in Children : m = k => e \notin Named(up[m], "settled")
    BY DEF Protocol, HeldAbove, Settling
  <2> QED
    BY <1>3, <2>1 DEF UpGains, PipesOnce
<1> QED
  BY <1>1, <1>2, <1>4, <1>5, <1>6

\* An effect that is over settles its own permit.
LEMMA OwnSettleProtocol ==
  ASSUME Domains, PipesOnce, \A f \in Effects : Protocol(f), NEW e \in Effects,
         effect[e] \in InHand, NEW state \in Outcomes, Settle(Level[e], e, state),
         effect'[e] \in Finals, \A f \in Effects : f # e => effect'[f] = effect[f],
         \A f \in Effects : ServedSame(f),
         UNCHANGED <<ask, permits, down>>
  PROVE  PipesOnce' /\ \A f \in Effects : Protocol(f)'
<1>0. Protocol(e) /\ Level[e] \in Levels /\ e \in Held(Level[e])
  BY Places DEF Protocol, Own
<1>1. \A f \in Effects : AskSame(f) /\ PermitsSame(f) /\ RepliedSame(f)
  BY Stays
<1>2. PICK k \in Levels : k = Level[e]
  BY <1>0
<1>3. /\ \A m \in Levels : e \in Held(m)' <=> e \in Held(m) /\ m # k
      /\ \A m \in Children : e \in Settling(m)' <=> e \in Settling(m) \/ m = k
      /\ k # 0 => outcome'[e] = outcome[e]
      /\ \A f \in Effects : RequestedSame(f)
      /\ \A f \in Effects : f # e => HeldSame(f) /\ SettlingSame(f) /\ outcome'[f] = outcome[f]
      /\ \A m \in Children : OnceEach(up[m])'
  BY <1>0, <1>2, SettleShape
<1>4. PipesOnce'
  BY <1>3, Stays DEF PipesOnce
<1>5. Protocol(e)'
  <2>1. \A m \in Children : m # k + 1 \/ (e \notin Settling(m) /\ e \notin permits[m])
    <3>1. k \in Int /\ ~(k + 1 <= k)
      BY Places
    <3> QED
      BY <1>0, <1>2, <3>1 DEF Protocol, Placed
  <2>2. /\ \A m \in Children : e \in Settling(m)' <=> (e \in Settling(m) /\ m # k + 1) \/ m = k
        /\ \A m \in Children : e \in permits'[m] <=> e \in permits[m] /\ m # k + 1
    BY <1>3, <2>1
  <2> QED
    BY <1>0, <1>1, <1>2, <1>3, <2>2, SettleKeeps
<1>6. ASSUME NEW f \in Effects, f # e PROVE Protocol(f)'
  <2>1. Rests(f)
    BY <1>1, <1>3, <1>6, FadeSame DEF Rests, FateSame
  <2> QED
    BY <2>1, RestsKeeps
<1> QED
  BY <1>4, <1>5, <1>6

LEMMA CompleteProtocol ==
  ASSUME Domains, PipesOnce, \A f \in Effects : Protocol(f), NEW e \in Effects, Complete(e)
  PROVE  PipesOnce' /\ \A f \in Effects : Protocol(f)'
<1>1. /\ effect[e] = "running" /\ effect' = [effect EXCEPT ![e] = "completed"]
      /\ Settle(Level[e], e, "completed")
      /\ serve' = [n \in Children |-> IF n \in Launches(e)
                    THEN [pc |-> "off", e |-> NoEffect] ELSE serve[n]]
      /\ \A n \in Launches(e) : serve[n].pc = "result"
      /\ UNCHANGED <<ask, permits, down>>
  BY DEF Complete, ChildDone
<1>2. effect'[e] = "completed" /\ \A f \in Effects : f # e => effect'[f] = effect[f]
  BY <1>1 DEF Domains
<1>3. \A f \in Effects : ServedSame(f)
  BY <1>1 DEF ServedSame, Served
<1>4. "completed" \in Outcomes /\ effect'[e] \in Finals /\ effect[e] \in InHand
  BY <1>1, <1>2 DEF Outcomes, Finals, InHand
<1> QED
  BY <1>1, <1>2, <1>3, <1>4, OwnSettleProtocol

LEMMA DropOwnProtocol ==
  ASSUME Domains, PipesOnce, \A f \in Effects : Protocol(f), NEW e \in Effects, DropOwn(e)
  PROVE  PipesOnce' /\ \A f \in Effects : Protocol(f)'
<1>1. /\ effect[e] = "dropping" /\ effect' = [effect EXCEPT ![e] = "dropped"]
      /\ Settle(Level[e], e, DropState)
      /\ UNCHANGED <<ask, serve, permits, down>>
  BY DEF DropOwn
<1>2. effect'[e] = "dropped" /\ \A f \in Effects : f # e => effect'[f] = effect[f]
  BY <1>1 DEF Domains
<1>3. \A f \in Effects : ServedSame(f)
  BY <1>1, Stays
<1>4. DropState \in Outcomes /\ effect'[e] \in Finals /\ effect[e] \in InHand
  BY <1>1, <1>2 DEF Outcomes, Finals, InHand, DropState
<1> QED
  BY <1>1, <1>2, <1>3, <1>4, OwnSettleProtocol

LEMMA DropKeptProtocol ==
  ASSUME Domains, PipesOnce, Processes, \A f \in Effects : Protocol(f),
         NEW n \in Children, NEW e \in Effects, DropKept(n, e)
  PROVE  PipesOnce' /\ \A f \in Effects : Protocol(f)'
<1>0. PICK k \in Levels : k = n - 1 /\ k + 1 = n /\ k # n
  BY Places
<1>1. /\ effect[Launch[n]] = "dropping" /\ e \in permits[n]
      /\ permits' = [permits EXCEPT ![n] = @ \ {e}]
      /\ Settle(k, e, DropState)
      /\ UNCHANGED <<ask, effect, serve, down>>
  BY <1>0 DEF DropKept
<1>2. Protocol(e) /\ e \in Held(k) /\ k < Level[e]
  <2>1. e \in Held(k) /\ n <= Level[e]
    BY <1>0, <1>1 DEF Protocol, HeldAbove, Placed
  <2>2. k \in Int /\ n \in Int /\ Level[e] \in Int
    BY Places
  <2>3. k < Level[e]
    BY <1>0, <2>1, <2>2
  <2> QED
    BY <2>1, <2>3
<1>3. /\ n \notin alive /\ e \notin Held(n) /\ ask[n][e] = "none"
      /\ e \notin Settling(n) /\ e \notin Allowed(n)
  BY <1>1 DEF Processes
<1>4. \A f \in Effects : AskSame(f) /\ RepliedSame(f) /\ ServedSame(f)
  BY <1>1, Stays
<1>5. DropState \in Outcomes
  BY DEF Outcomes, DropState
<1>6. /\ \A m \in Levels : e \in Held(m)' <=> e \in Held(m) /\ m # k
      /\ \A m \in Children : e \in Settling(m)' <=> e \in Settling(m) \/ m = k
      /\ k # 0 => outcome'[e] = outcome[e]
      /\ \A f \in Effects : RequestedSame(f)
      /\ \A f \in Effects : f # e => HeldSame(f) /\ SettlingSame(f) /\ outcome'[f] = outcome[f]
      /\ \A m \in Children : OnceEach(up[m])'
  BY <1>1, <1>2, <1>5, SettleShape
<1>7. \A f \in Effects : \A m \in Children : f \in permits'[m] <=> f \in permits[m] /\ ~(m = n /\ f = e)
  BY <1>1 DEF Domains
<1>8. PipesOnce'
  BY <1>1, <1>6, Stays DEF PipesOnce
<1>9. Protocol(e)'
  <2>1. /\ \A m \in Children : e \in Settling(m)' <=> (e \in Settling(m) /\ m # k + 1) \/ m = k
        /\ \A m \in Children : e \in permits'[m] <=> e \in permits[m] /\ m # k + 1
    BY <1>0, <1>3, <1>6, <1>7
  <2>2. e \notin Held(k + 1) /\ e \notin Allowed(k + 1) /\ ask[k + 1][e] # "granted"
        /\ effect'[e] = effect[e]
    BY <1>0, <1>1, <1>3
  <2> QED
    BY <1>2, <1>4, <1>6, <2>1, <2>2, SettleKeeps
<1>10. ASSUME NEW f \in Effects, f # e PROVE Protocol(f)'
  <2>1. PermitsSame(f) /\ FateSame(f)
    BY <1>1, <1>6, <1>7, <1>10 DEF PermitsSame, FateSame
  <2>2. Rests(f)
    BY <1>4, <1>6, <1>10, <2>1, FadeSame DEF Rests
  <2> QED
    BY <2>2, RestsKeeps
<1> QED
  BY <1>8, <1>9, <1>10

LEMMA SettledProtocol ==
  ASSUME Domains, PipesOnce, \A f \in Effects : Protocol(f), NEW n \in Children, ServeSettled(n)
  PROVE  PipesOnce' /\ \A f \in Effects : Protocol(f)'
<1>0. PICK k \in Levels : k = n - 1 /\ k + 1 = n /\ k # n /\ (k = 0 <=> n = 1)
  BY Places
<1>1. PICK frame \in Frames : frame = Head(up[n])
  BY ReadTyped DEF ServeSettled, ReadFrame
<1>2. /\ up[n] # <<>> /\ frame.type = "settled" /\ Settleable(n, frame.e)
      /\ permits' = [permits EXCEPT ![n] = @ \ {frame.e}]
      /\ gate' = [gate EXCEPT ![k].outstanding = @ \ {frame.e}]
      /\ outcome' = IF k = 0 THEN [outcome EXCEPT ![frame.e] = frame.state] ELSE outcome
      /\ up' = [m \in Children |->
             CASE m = n -> Tail(up[n])
               [] m = n - 1 -> Append(up[m], frame)
               [] OTHER -> up[m]]
      /\ UNCHANGED <<ask, effect, serve, down>>
  BY <1>0, <1>1 DEF ServeSettled, ReadFrame
<1>3. PICK e \in Effects : e = frame.e
  BY <1>2, FrameTypes
<1>4. UpPasses(n, "settled", e) /\ e \in Settling(n)
  BY <1>1, <1>2, <1>3, ReadUpChange DEF Settling
<1>5. /\ Protocol(e) /\ e \in permits[n] /\ e \in Held(k) /\ n <= Level[e]
      /\ ask[n][e] = "none" /\ e \notin Held(n) /\ e \notin Allowed(n)
  <2>1. /\ e \in permits[n] /\ ask[n][e] = "none" /\ n <= Level[e] /\ e \notin Held(n)
        /\ e \notin Replied(n)
    BY <1>4 DEF Protocol, HeldAbove, Placed, RepliedOnce
  <2>2. e \in Held(k)
    BY <1>0, <2>1 DEF Protocol, HeldAbove
  <2>3. e \notin Allowed(n)
    BY <2>1 DEF Replied, Allowed, Answered, Approved
  <2> QED
    BY <2>1, <2>2, <2>3
<1>6. \A m \in Levels : Held(m)' = IF m = k THEN Held(k) \ {e} ELSE Held(m)
  <2>1. gate' = [gate EXCEPT ![k].outstanding = Held(k) \ {e}]
    BY <1>2, <1>3 DEF Held
  <2>2. Held(k) \ {e} \in SUBSET Effects
    BY DEF Held, Domains, Gates
  <2> QED
    BY <2>1, <2>2, GateChange
<1>7. \A f \in Effects : \A m \in Children : f \in permits'[m] <=> f \in permits[m] /\ ~(m = n /\ f = e)
  BY <1>2, <1>3 DEF Domains
<1>8. (k # 0 => outcome'[e] = outcome[e]) /\ \A f \in Effects : f # e => outcome'[f] = outcome[f]
  BY <1>2, <1>3 DEF Domains
<1>9. \A f \in Effects : AskSame(f) /\ RepliedSame(f) /\ ServedSame(f)
  BY <1>2, Stays
<1>10. \A f \in Effects : RequestedSame(f) /\ (f # e => SettlingSame(f))
  BY <1>4, GainsSame
<1>11. Protocol(e)'
  <2>1. /\ \A m \in Children : e \in Settling(m)' <=> (e \in Settling(m) /\ m # k + 1) \/ m = k
        /\ \A m \in Children : e \in permits'[m] <=> e \in permits[m] /\ m # k + 1
    BY <1>0, <1>4, <1>7 DEF UpPasses
  <2>2. /\ e \notin Held(k + 1) /\ e \notin Allowed(k + 1) /\ ask[k + 1][e] # "granted"
        /\ effect'[e] = effect[e] /\ k < Level[e]
    BY <1>0, <1>2, <1>5, Places
  <2>3. \A m \in Levels : e \in Held(m)' <=> e \in Held(m) /\ m # k
    BY <1>6
  <2> QED
    BY <1>5, <1>8, <1>9, <1>10, <2>1, <2>2, <2>3, SettleKeeps
<1>12. ASSUME NEW f \in Effects, f # e PROVE Protocol(f)'
  <2>1. PermitsSame(f) /\ FateSame(f) /\ HeldSame(f)
    BY <1>2, <1>6, <1>7, <1>8, <1>12 DEF PermitsSame, FateSame, HeldSame
  <2>2. Rests(f)
    BY <1>9, <1>10, <1>12, <2>1, FadeSame DEF Rests
  <2> QED
    BY <2>2, RestsKeeps
<1>13. PipesOnce'
  <2>1. \A m \in Children : m = n - 1 => e \notin Named(up[m], "settled")
    BY <1>0, <1>5 DEF Protocol, HeldAbove, Settling
  <2>2. \A m \in Children : OnceEach(up[m])'
    BY <1>4, <2>1 DEF PipesOnce, UpPasses
  <2>3. \A m \in Children : AnsweredOnce(down[m])'
    BY <1>2, Stays DEF PipesOnce
  <2> QED
    BY <2>2, <2>3 DEF PipesOnce
<1> QED
  BY <1>11, <1>12, <1>13

LEMMA ResultProtocol ==
  ASSUME Domains, PipesOnce, \A f \in Effects : Protocol(f), NEW n \in Children, ServeResult(n)
  PROVE  PipesOnce' /\ \A f \in Effects : Protocol(f)'
<1>1. /\ up[n] # <<>> /\ Head(up[n]).type = "result" /\ serve[n].pc = "reading"
      /\ serve' = [serve EXCEPT ![n] = [pc |-> "result", e |-> NoEffect]]
      /\ up' = [up EXCEPT ![n] = Tail(@)]
      /\ UNCHANGED <<gate, ask, effect, permits, down, outcome>>
  BY DEF ServeResult, ReadFrame, historyVars
<1>2. \A f \in Effects : HeldSame(f) /\ AskSame(f) /\ FateSame(f) /\ PermitsSame(f) /\ RepliedSame(f)
  BY <1>1, Stays
<1>3. \A f \in Effects : ServedSame(f)
  <2>1. serve'[n].pc = "result" /\ \A m \in Children : m # n => serve'[m] = serve[m]
    BY <1>1 DEF Domains
  <2> QED
    BY <1>1, <2>1 DEF ServedSame, Served
<1>4. /\ \A m \in Children : m # n => up'[m] = up[m]
      /\ up'[n] = Tail(up[n]) /\ up[n] \in Seq(Frames)
  BY <1>1 DEF Domains
<1>5. /\ \A m \in Children : \A f \in Effects :
           /\ f \in Requested(m)' => f \in Requested(m)
           /\ f \in Settling(m)' => f \in Settling(m)
      /\ \A m \in Children : OnceEach(up[m])'
  <2>1. /\ Named(Tail(up[n]), "admit") \subseteq Named(up[n], "admit")
        /\ Named(Tail(up[n]), "settled") \subseteq Named(up[n], "settled")
        /\ OnceEach(Tail(up[n]))
    BY <1>1, <1>4, TailNamed DEF PipesOnce
  <2> QED
    BY <1>4, <2>1 DEF Requested, Settling, PipesOnce
<1>6. PipesOnce'
  BY <1>1, <1>5, Stays DEF PipesOnce
<1>7. ASSUME NEW f \in Effects PROVE Protocol(f)'
  <2>1. PipesFade(f)
    BY <1>2, <1>5 DEF PipesFade, RepliedSame
  <2>2. Rests(f)
    BY <1>2, <1>3, <2>1, FadeSame DEF Rests
  <2> QED
    BY <2>2, RestsKeeps
<1> QED
  BY <1>6, <1>7

LEMMA CloseFades ==
  ASSUME Domains, NEW n \in Levels, Close(n)
  PROVE  \A f \in Effects : AskFades(f) /\ HeldSame(f)
<1>1. \A f \in Effects :
        /\ \A m \in Levels : m # n => ask'[m][f] = ask[m][f]
        /\ ask'[n][f] = CASE ask[n][f] = "waiting" -> "cleared"
                         [] ask[n][f] = "orphan" -> "none"
                         [] OTHER -> ask[n][f]
  BY DEF Close, Domains
<1>2. \A f \in Effects : AskFades(f)
  BY <1>1 DEF AskFades
<1> QED
  BY <1>2, GateChange DEF Close, HeldSame

LEMMA TakeProtocol ==
  ASSUME Domains, PipesOnce, \A f \in Effects : Protocol(f), NEW n \in Children, TakeReply(n)
  PROVE  PipesOnce' /\ \A f \in Effects : Protocol(f)'
<1>0. n \in Levels
  BY Places
<1>1. /\ down[n] # <<>> /\ down' = [down EXCEPT ![n] = Tail(down[n])]
      /\ UNCHANGED <<effect, serve, permits, up, outcome>>
  BY DEF TakeReply, historyVars
<1>2. PICK reply \in Replies : reply = Head(down[n])
  BY <1>1, ReadReplyChange
<1>3. PICK e \in Effects : e = reply.e
  BY DEF Replies
<1>4. DownLoses(n, e) /\ e \in Replied(n) /\ (reply.allowed => e \in Allowed(n))
  BY <1>1, <1>2, <1>3, ReadReplyChange
<1>5. \A f \in Effects : /\ FateSame(f) /\ ServedSame(f) /\ PermitsSame(f)
                         /\ RequestedSame(f) /\ SettlingSame(f)
  BY <1>1, Stays
<1>6. PipesOnce'
  <2>1. \A m \in Children : AnsweredOnce(down[m])'
    BY <1>4 DEF DownLoses, PipesOnce
  <2> QED
    BY <1>1, <2>1, Stays DEF PipesOnce
<1>7. \A f \in Effects : PipesFade(f)
  BY <1>4, <1>5 DEF PipesFade, DownLoses, RequestedSame, SettlingSame
<1>8. CASE ask[n][e] \in {"waiting", "orphan"}
  <2> DEFINE s == IF ask[n][e] = "orphan" THEN "none"
                  ELSE IF reply.allowed THEN "granted" ELSE "refused"
  <2>1. gate' = gate /\ ask' = [ask EXCEPT ![n][e] = s]
    BY <1>2, <1>3, <1>8 DEF TakeReply
  <2>2. \/ ask[n][e] = "orphan" /\ s = "none"
        \/ ask[n][e] = "waiting" /\ e \in Allowed(n) /\ s = "granted"
        \/ ask[n][e] = "waiting" /\ s = "refused"
    <3>1. CASE ask[n][e] = "orphan"
      BY <3>1
    <3>2. CASE ask[n][e] = "waiting" /\ reply.allowed
      BY <1>4, <3>2
    <3>3. CASE ask[n][e] = "waiting" /\ ~reply.allowed
      BY <3>3
    <3> QED
      BY <1>8, <3>1, <3>2, <3>3
  <2> HIDE DEF s
  <2>3. /\ ask'[n][e] = s
        /\ \A m \in Levels : m # n => ask'[m][e] = ask[m][e]
        /\ \A f \in Effects : f # e => AskSame(f)
    BY <1>0, <2>1 DEF Domains, AskSame
  <2>4. \A f \in Effects : HeldSame(f)
    BY <2>1, Stays
  <2>5. Protocol(e)'
    <3>1. /\ \A m \in Children : e \in Replied(m)' <=> e \in Replied(m) /\ m # n
          /\ \A m \in Children : e \in Allowed(m)' => e \in Allowed(m)
      BY <1>4 DEF DownLoses
    <3>2. /\ FateSame(e) /\ HeldSame(e) /\ RequestedSame(e) /\ SettlingSame(e)
          /\ ServedSame(e) /\ PermitsSame(e)
      BY <1>5, <2>4
    <3> QED
      BY <1>4, <1>8, <2>2, <2>3, <3>1, <3>2, TakeKeeps
  <2>6. ASSUME NEW f \in Effects, f # e PROVE Protocol(f)'
    <3>1. Rests(f)
      BY <1>5, <1>7, <2>3, <2>4, <2>6, FadeSame DEF Rests
    <3> QED
      BY <3>1, RestsKeeps
  <2> QED
    BY <1>6, <2>5, <2>6
<1>9. CASE ask[n][e] \notin {"waiting", "orphan"}
  <2>1. Close(n)
    BY <1>2, <1>3, <1>9 DEF TakeReply
  <2>2. \A f \in Effects : AskFades(f) /\ HeldSame(f)
    BY <1>0, <2>1, CloseFades
  <2>3. ASSUME NEW f \in Effects PROVE Protocol(f)'
    <3>1. Rests(f)
      BY <1>5, <1>7, <2>2 DEF Rests
    <3> QED
      BY <3>1, RestsKeeps
  <2> QED
    BY <1>6, <2>3
<1> QED
  BY <1>8, <1>9

LEMMA RevokeProtocol ==
  ASSUME Domains, PipesOnce, \A f \in Effects : Protocol(f), Revoke
  PROVE  PipesOnce' /\ \A f \in Effects : Protocol(f)'
<1>1. Close(0) /\ 0 \in Levels /\ UNCHANGED <<effect, serve, permits, up, down, outcome>>
  BY Places DEF Revoke, pipeVars
<1>2. \A f \in Effects : AskFades(f) /\ HeldSame(f)
  BY <1>1, CloseFades
<1>3. \A f \in Effects : /\ FateSame(f) /\ ServedSame(f) /\ PermitsSame(f)
                         /\ RequestedSame(f) /\ SettlingSame(f) /\ RepliedSame(f)
  BY <1>1, Stays
<1>4. ASSUME NEW f \in Effects PROVE Protocol(f)'
  <2>1. Rests(f)
    BY <1>2, <1>3, FadeSame DEF Rests
  <2> QED
    BY <2>1, RestsKeeps
<1>5. PipesOnce'
  BY <1>1, Stays DEF PipesOnce
<1> QED
  BY <1>4, <1>5

LEMMA ExitHolds ==
  ASSUME Domains, KeptByLaunch, \A f \in Effects : Protocol(f), NEW n \in Children, Exit(n)
  PROVE  Held(n) = {}
<1>1. /\ \A e \in Effects : Level[e] = n => effect[e] \in Ended
      /\ n \in Levels /\ \A m \in Levels : m \in Int
  BY Places DEF Exit, Ended
<1>2. ASSUME NEW e \in Held(n) PROVE FALSE
  <2>1. e \in Effects
    BY <1>1 DEF Held, Domains, Gates
  <2>2. Protocol(e) /\ n <= Level[e] /\ Level[e] \in Levels
    BY <1>1, <2>1, Places DEF Protocol, Placed
  <2>3. CASE Level[e] = n
    <3>1. effect[e] \in InHand
      BY <2>2, <2>3 DEF Protocol, Own
    <3> QED
      BY <1>1, <2>1, <2>3, <3>1 DEF Ended, Finals, InHand
  <2>4. CASE n < Level[e]
    <3>1. e \in permits[n + 1] /\ n + 1 \in Children
      BY <1>1, <2>1, <2>2, <2>4, Places DEF Protocol, HeldAbove
    <3>2. effect[Launch[n + 1]] \in InHand
      BY <3>1 DEF KeptByLaunch
    <3>3. Launch[n + 1] \in Effects /\ Level[Launch[n + 1]] = n
      BY <1>1, <3>1, Places
    <3> QED
      BY <1>1, <3>2, <3>3 DEF Ended, Finals, InHand
  <2> QED
    BY <1>1, <2>2, <2>3, <2>4
<1> QED
  BY <1>2

LEMMA ExitProtocol ==
  ASSUME Domains, PipesOnce, KeptByLaunch, \A f \in Effects : Protocol(f),
         NEW n \in Children, Exit(n)
  PROVE  PipesOnce' /\ \A f \in Effects : Protocol(f)'
<1>0. n \in Levels /\ n # 0
  BY Places
<1>1. /\ \A e \in Effects : Level[e] >= n => ask[n][e] \in {"none", "orphan"}
      /\ SendUp(n, Result)
      /\ down' = [down EXCEPT ![n] = <<>>]
      /\ ask' = [ask EXCEPT ![n] = NoAsks]
      /\ gate' = [gate EXCEPT ![n] = OpenGate]
      /\ UNCHANGED <<effect, serve, permits, outcome>>
  BY DEF Exit, historyVars
<1>2. \A f \in Effects : FateSame(f) /\ ServedSame(f) /\ PermitsSame(f)
  BY <1>1, Stays
<1>3. \A f \in Effects : HeldSame(f)
  <2>1. \A m \in Levels : Held(m)' = IF m = n THEN {} ELSE Held(m)
    BY <1>0, <1>1 DEF Domains, Held, OpenGate
  <2> QED
    BY <2>1, ExitHolds DEF HeldSame
<1>4. \A f \in Effects : AskFades(f)
  <2> SUFFICES ASSUME NEW f \in Effects PROVE AskFades(f)
    OBVIOUS
  <2>1. ask[n][f] \in {"none", "orphan"}
    <3>1. CASE Level[f] >= n
      BY <1>1, <3>1
    <3>2. CASE ~(Level[f] >= n)
      <4>1. ~(n <= Level[f])
        BY <1>0, <3>2, Places
      <4> QED
        BY <1>0, <4>1 DEF Protocol, Placed
    <3> QED
      BY <3>1, <3>2
  <2>2. ask'[n][f] = "none" /\ \A m \in Levels : m # n => ask'[m][f] = ask[m][f]
    BY <1>0, <1>1 DEF Domains, NoAsks
  <2> QED
    BY <2>1, <2>2 DEF AskFades
<1>5. /\ \A m \in Children : up'[m] = IF m = n THEN Append(up[n], Result) ELSE up[m]
      /\ \A m \in Children : up[m] \in Seq(Frames)
  BY <1>0, <1>1 DEF SendUp, Domains
<1>6. \A f \in Effects : RequestedSame(f) /\ SettlingSame(f)
  <2>1. /\ \A f \in Effects : f \in Named(Append(up[n], Result), "admit") <=> f \in Named(up[n], "admit")
        /\ \A f \in Effects : f \in Named(Append(up[n], Result), "settled") <=> f \in Named(up[n], "settled")
    BY <1>5, FrameTypes, AppendNamed
  <2> QED
    BY <1>5, <2>1 DEF RequestedSame, SettlingSame, Requested, Settling
<1>7. \A m \in Children : OnceEach(up[m])'
  <2>1. OnceEach(Append(up[n], Result))
    BY <1>5, FrameTypes, AppendNamed DEF PipesOnce
  <2> QED
    BY <1>5, <2>1 DEF PipesOnce
<1>8. \A m \in Children : down'[m] = IF m = n THEN <<>> ELSE down[m]
  BY <1>1 DEF Domains
<1>9. /\ Answered(<<>>) = {} /\ Approved(<<>>) = {} /\ AnsweredOnce(<<>>)
  BY DEF Answered, Approved, AnsweredOnce
<1>10. \A m \in Children : AnsweredOnce(down[m])'
  BY <1>8, <1>9 DEF PipesOnce
<1>11. \A f \in Effects : PipesFade(f)
  <2>1. \A m \in Children : \A f \in Effects :
          (f \in Replied(m)' => f \in Replied(m)) /\ (f \in Allowed(m)' => f \in Allowed(m))
    BY <1>8, <1>9 DEF Replied, Allowed
  <2> QED
    BY <1>6, <2>1 DEF PipesFade, RequestedSame, SettlingSame
<1>12. ASSUME NEW f \in Effects PROVE Protocol(f)'
  <2>1. Rests(f)
    BY <1>2, <1>3, <1>4, <1>11 DEF Rests
  <2> QED
    BY <2>1, RestsKeeps
<1>13. PipesOnce'
  BY <1>7, <1>10 DEF PipesOnce
<1> QED
  BY <1>12, <1>13

\* What a kill leaves of the pipes, gates and conversations.
LEMMA KillShape ==
  ASSUME Domains, NEW n \in Levels, Kill(n + 1)
  PROVE  /\ \A m \in Levels : Held(m)' = IF m <= n THEN Held(m) ELSE {}
         /\ \A m \in Children : permits'[m] = IF m <= n + 1 THEN permits[m] ELSE {}
         /\ \A m \in Children :
              /\ m <= n => up'[m] = up[m] /\ down'[m] = down[m] /\ serve'[m] = serve[m]
              /\ ~(m <= n) => up'[m] = <<>> /\ down'[m] = <<>> /\ serve'[m].pc = "off"
         /\ alive' = {m \in alive : m <= n}
         /\ \A f \in Effects : \A m \in Children :
              /\ f \in Requested(m)' <=> f \in Requested(m) /\ m <= n
              /\ f \in Settling(m)' <=> f \in Settling(m) /\ m <= n
              /\ f \in Replied(m)' <=> f \in Replied(m) /\ m <= n
              /\ f \in Allowed(m)' <=> f \in Allowed(m) /\ m <= n
              /\ f \in Served(m)' <=> f \in Served(m) /\ m <= n
         /\ PipesOnce => PipesOnce'
<1>1. \A m \in Levels : /\ m \in Int /\ n \in Int
                        /\ (m >= n + 1 <=> ~(m <= n)) /\ (m < n + 1 <=> m <= n)
                        /\ (m > n + 1 <=> ~(m <= n + 1))
  BY Places
<1>2. \A m \in Levels : Held(m)' = IF m <= n THEN Held(m) ELSE {}
  BY <1>1 DEF Kill, Held, OpenGate
<1>3. \A m \in Children : permits'[m] = IF m <= n + 1 THEN permits[m] ELSE {}
  BY <1>1, Places DEF Kill
<1>4. \A m \in Children :
        /\ m <= n => up'[m] = up[m] /\ down'[m] = down[m] /\ serve'[m] = serve[m]
        /\ ~(m <= n) => up'[m] = <<>> /\ down'[m] = <<>> /\ serve'[m].pc = "off"
  BY <1>1, Places DEF Kill
<1>5. alive' = {m \in alive : m <= n}
  BY <1>1 DEF Kill, Domains
<1>6. /\ Named(<<>>, "admit") = {} /\ Named(<<>>, "settled") = {}
      /\ Answered(<<>>) = {} /\ Approved(<<>>) = {} /\ OnceEach(<<>>) /\ AnsweredOnce(<<>>)
  BY DEF Named, Answered, Approved, OnceEach, AnsweredOnce
<1>7. ASSUME NEW f \in Effects, NEW m \in Children
      PROVE  /\ f \in Requested(m)' <=> f \in Requested(m) /\ m <= n
             /\ f \in Settling(m)' <=> f \in Settling(m) /\ m <= n
             /\ f \in Replied(m)' <=> f \in Replied(m) /\ m <= n
             /\ f \in Allowed(m)' <=> f \in Allowed(m) /\ m <= n
             /\ f \in Served(m)' <=> f \in Served(m) /\ m <= n
  <2>1. CASE m <= n
    BY <1>4, <2>1 DEF Requested, Settling, Replied, Allowed, Served
  <2>2. CASE ~(m <= n)
    BY <1>4, <1>6, <2>2 DEF Requested, Settling, Replied, Allowed, Served
  <2> QED
    BY <2>1, <2>2
<1>8. PipesOnce => PipesOnce'
  BY <1>4, <1>6 DEF PipesOnce
<1> QED
  BY <1>2, <1>3, <1>4, <1>5, <1>7, <1>8

\* What the early end of an effect does to its process and to those below.
EndsWith(e, inner, killed) ==
  LET n == Level[e] IN
  /\ inner = {f \in Effects : Level[f] = n /\ (f = e \/ Under(f, e))}
  /\ killed = (\E f \in inner : effect[f] = "running" /\ Launches(f) # {})
  /\ \A f \in Effects :
       /\ f \in inner => effect'[f] = CASE effect[f] = "running" -> "dropping"
                                        [] effect[f] = "asking" -> "abandoned"
                                        [] OTHER -> effect[f]
       /\ f \notin inner /\ ~(killed /\ Level[f] > n) => effect'[f] = effect[f]
       /\ killed /\ Level[f] > n =>
            /\ effect'[f] \in Ended /\ (effect'[f] = "idle" <=> effect[f] = "idle")
            /\ effect'[f] = effect[f] \/ (effect[f] \notin Ended /\ effect'[f] = "killed")
       /\ \A m \in Levels : m # n /\ ~(m > n /\ killed) => ask'[m][f] = ask[m][f]
       /\ \A m \in Levels : m > n /\ killed => ask'[m][f] = "none"
       /\ f \notin inner /\ ~(killed /\ Level[f] > n) => ask'[n][f] = ask[n][f]
       /\ f \in inner \/ (killed /\ Level[f] > n) =>
            ask'[n][f] = CASE ask[n][f] = "waiting" -> IF n > 0 THEN "orphan" ELSE "none"
                           [] ask[n][f] = "orphan" -> "orphan"
                           [] OTHER -> "none"
  /\ IF killed THEN Kill(n + 1) ELSE UNCHANGED <<gate, alive, reader, serve, permits, up, down>>
  /\ UNCHANGED <<outcome, ack>>

LEMMA EndsShape ==
  ASSUME Domains, NEW e \in Effects, EndsEarly(e)
  PROVE  \E inner \in SUBSET Effects, killed \in BOOLEAN : EndsWith(e, inner, killed)
<1> DEFINE n == Level[e]
           inner == {f \in Effects : Level[f] = n /\ (f = e \/ Under(f, e))}
           lost == UNION {Launches(f) : f \in {g \in inner : effect[g] = "running"}}
           gone == {f \in Effects : lost # {} /\ Level[f] > n}
           waits == {f \in Effects : ask[n][f] # "none" /\ (f \in inner \/ f \in gone)}
           killed == lost # {}
<1>0. n \in Levels /\ n \in Int /\ \A m \in Levels : m \in Int
  BY Places
<1>1. /\ effect' = [f \in Effects |->
            CASE f \in inner /\ effect[f] = "running" -> "dropping"
              [] f \in inner /\ effect[f] = "asking" -> "abandoned"
              [] f \in gone /\ effect[f] \notin Finals \union {"idle"} -> "killed"
              [] OTHER -> effect[f]]
      /\ ask' = [m \in Levels |-> [f \in Effects |->
            IF m > n /\ lost # {} THEN "none"
            ELSE IF m = n /\ f \in waits
                 THEN IF n > 0 /\ ask[m][f] = "waiting" THEN "orphan"
                      ELSE IF ask[m][f] = "orphan" THEN "orphan" ELSE "none"
                 ELSE ask[m][f]]]
      /\ IF lost = {}
         THEN UNCHANGED <<gate, alive, reader, serve, permits, pipeVars>>
         ELSE Kill(n + 1)
      /\ UNCHANGED <<outcome, ack>>
  BY DEF EndsEarly
<1>2. killed = (\E f \in inner : effect[f] = "running" /\ Launches(f) # {})
  OBVIOUS
<1>3. \A f \in Effects : /\ f \in gone <=> killed /\ Level[f] > n
                         /\ f \in waits <=> ask[n][f] # "none" /\ (f \in inner \/ f \in gone)
                         /\ f \in inner => f \notin gone
  <2>1. \A f \in inner : ~(Level[f] > n)
    BY <1>0
  <2> QED
    BY <2>1
<1>4. inner = {f \in Effects : Level[f] = n /\ (f = e \/ Under(f, e))}
  OBVIOUS
<1>5. inner \in SUBSET Effects /\ killed \in BOOLEAN
  OBVIOUS
<1>6. killed <=> lost # {}
  OBVIOUS
<1> HIDE DEF inner, gone, waits, killed, lost, n
<1>7. ASSUME NEW f \in Effects
      PROVE  /\ f \in inner => effect'[f] = CASE effect[f] = "running" -> "dropping"
                                              [] effect[f] = "asking" -> "abandoned"
                                              [] OTHER -> effect[f]
             /\ f \notin inner /\ ~(killed /\ Level[f] > n) => effect'[f] = effect[f]
             /\ killed /\ Level[f] > n =>
                  /\ effect'[f] \in Ended /\ (effect'[f] = "idle" <=> effect[f] = "idle")
                  /\ effect'[f] = effect[f] \/ (effect[f] \notin Ended /\ effect'[f] = "killed")
  <2>1. effect'[f] = CASE f \in inner /\ effect[f] = "running" -> "dropping"
                       [] f \in inner /\ effect[f] = "asking" -> "abandoned"
                       [] f \in gone /\ effect[f] \notin Finals \union {"idle"} -> "killed"
                       [] OTHER -> effect[f]
    BY <1>1
  <2>2. CASE f \in inner
    BY <1>3, <2>1, <2>2
  <2>3. CASE f \in gone
    BY <1>3, <2>1, <2>3 DEF Ended, Finals
  <2>4. CASE f \notin inner /\ f \notin gone
    BY <1>3, <2>1, <2>4
  <2> QED
    BY <2>2, <2>3, <2>4
<1>8. ASSUME NEW f \in Effects
      PROVE  /\ \A m \in Levels : m # n /\ ~(m > n /\ killed) => ask'[m][f] = ask[m][f]
             /\ \A m \in Levels : m > n /\ killed => ask'[m][f] = "none"
             /\ f \notin inner /\ ~(killed /\ Level[f] > n) => ask'[n][f] = ask[n][f]
             /\ f \in inner \/ (killed /\ Level[f] > n) =>
                  ask'[n][f] = CASE ask[n][f] = "waiting" -> IF n > 0 THEN "orphan" ELSE "none"
                                 [] ask[n][f] = "orphan" -> "orphan"
                                 [] OTHER -> "none"
  <2>1. \A m \in Levels : ask'[m][f] =
            IF m > n /\ lost # {} THEN "none"
            ELSE IF m = n /\ f \in waits
                 THEN IF n > 0 /\ ask[m][f] = "waiting" THEN "orphan"
                      ELSE IF ask[m][f] = "orphan" THEN "orphan" ELSE "none"
                 ELSE ask[m][f]
    BY <1>1
  <2>2. ~(n > n)
    BY <1>0
  <2>3. /\ \A m \in Levels : m # n /\ ~(m > n /\ killed) => ask'[m][f] = ask[m][f]
        /\ \A m \in Levels : m > n /\ killed => ask'[m][f] = "none"
    BY <1>6, <2>1
  <2>4. ask'[n][f] = IF f \in waits
                     THEN IF n > 0 /\ ask[n][f] = "waiting" THEN "orphan"
                          ELSE IF ask[n][f] = "orphan" THEN "orphan" ELSE "none"
                     ELSE ask[n][f]
    BY <1>0, <2>1, <2>2
  <2>5. f \notin inner /\ ~(killed /\ Level[f] > n) => ask'[n][f] = ask[n][f]
    BY <1>3, <2>4
  <2>6. ASSUME f \in inner \/ (killed /\ Level[f] > n)
        PROVE  ask'[n][f] = CASE ask[n][f] = "waiting" -> IF n > 0 THEN "orphan" ELSE "none"
                              [] ask[n][f] = "orphan" -> "orphan"
                              [] OTHER -> "none"
    BY <1>3, <2>4, <2>6
  <2> QED
    BY <2>3, <2>5, <2>6
<1>9. EndsWith(e, inner, killed)
  BY <1>1, <1>2, <1>4, <1>6, <1>7, <1>8 DEF EndsWith, n, pipeVars
<1> QED
  BY <1>5, <1>9

LEMMA EndsProtocol ==
  ASSUME Domains, PipesOnce, \A f \in Effects : Protocol(f), NEW e \in Effects, EndsEarly(e)
  PROVE  PipesOnce' /\ \A f \in Effects : Protocol(f)'
<1>1. PICK inner \in SUBSET Effects, killed \in BOOLEAN : EndsWith(e, inner, killed)
  BY EndsShape
<1>2. PICK n \in Levels : n = Level[e]
  BY Places
<1>3. \A f \in Effects :
        /\ f \in inner => effect'[f] = CASE effect[f] = "running" -> "dropping"
                                         [] effect[f] = "asking" -> "abandoned"
                                         [] OTHER -> effect[f]
        /\ f \notin inner /\ ~(killed /\ Level[f] > n) => effect'[f] = effect[f]
        /\ killed /\ Level[f] > n =>
             effect'[f] \in Ended /\ (effect'[f] = "idle" <=> effect[f] = "idle")
        /\ \A m \in Levels : m # n /\ ~(m > n /\ killed) => ask'[m][f] = ask[m][f]
        /\ \A m \in Levels : m > n /\ killed => ask'[m][f] = "none"
        /\ f \notin inner /\ ~(killed /\ Level[f] > n) => ask'[n][f] = ask[n][f]
        /\ f \in inner \/ (killed /\ Level[f] > n) =>
             ask'[n][f] = CASE ask[n][f] = "waiting" -> IF n > 0 THEN "orphan" ELSE "none"
                            [] ask[n][f] = "orphan" -> "orphan"
                            [] OTHER -> "none"
        /\ f \in inner => Level[f] = n
        /\ outcome'[f] = outcome[f]
  BY <1>1, <1>2 DEF EndsWith
<1>4. IF killed THEN Kill(n + 1) ELSE UNCHANGED <<gate, alive, reader, serve, permits, up, down>>
  BY <1>1, <1>2 DEF EndsWith
<1>5. /\ n \in Int /\ n >= 0 /\ \A m \in Levels : m \in Int
      /\ \A f \in Effects : Level[f] \in Levels /\ Level[f] \in Int
  BY <1>2, Places
<1>6. \A f \in Effects : \A m \in Levels : ask[m][f] \in AskStates
  BY AskTypes
<1>7. ASSUME NEW f \in inner,
             HeldSame(f), RequestedSame(f), SettlingSame(f), RepliedSame(f), ServedSame(f),
             PermitsSame(f), \A m \in Levels : m # n => ask'[m][f] = ask[m][f]
      PROVE  Protocol(f)'
  <2>0. f \in Effects /\ Level[f] = n /\ Protocol(f)
    BY <1>3
  <2>1. effect[f] = "asking" <=> ask[n][f] \in Asks
    BY <2>0 DEF Protocol, Own
  <2>2. effect[f] # "asking" => ask'[n][f] = ask[n][f]
    <3> SUFFICES ASSUME effect[f] # "asking" PROVE ask'[n][f] = ask[n][f]
      OBVIOUS
    <3>1. ask[n][f] \in {"none", "orphan"}
      BY <1>6, <2>0, <2>1 DEF AskStates, Asks
    <3> QED
      BY <1>3, <2>0, <3>1
  <2>3. effect[f] = "asking" => ask'[n][f] = "none" \/ (ask'[n][f] = "orphan" /\ n # 0)
    <3> SUFFICES ASSUME effect[f] = "asking"
                 PROVE  ask'[n][f] = "none" \/ (ask'[n][f] = "orphan" /\ n # 0)
      OBVIOUS
    <3>1. ask[n][f] # "orphan" /\ (n > 0 => n # 0)
      BY <1>5, <2>1 DEF Asks
    <3> QED
      BY <1>3, <2>0, <3>1
  <2> QED
    BY <1>3, <1>7, <2>0, <2>2, <2>3, EndKeeps
<1>8. CASE ~killed
  <2>1. UNCHANGED <<gate, alive, reader, serve, permits, up, down>>
    BY <1>4, <1>8
  <2>2. \A f \in Effects : /\ HeldSame(f) /\ RequestedSame(f) /\ SettlingSame(f)
                           /\ RepliedSame(f) /\ ServedSame(f) /\ PermitsSame(f)
    BY <2>1, Stays
  <2>3. ASSUME NEW f \in Effects PROVE Protocol(f)'
    <3>1. CASE f \in inner
      BY <1>3, <1>7, <1>8, <2>2, <3>1
    <3>2. CASE f \notin inner
      <4>1. FateSame(f) /\ AskSame(f)
        BY <1>3, <1>8, <3>2 DEF FateSame, AskSame
      <4>2. Rests(f)
        BY <2>2, <4>1, FadeSame DEF Rests
      <4> QED
        BY <4>2, RestsKeeps
    <3> QED
      BY <3>1, <3>2
  <2>4. PipesOnce'
    BY <2>1, Stays DEF PipesOnce
  <2> QED
    BY <2>3, <2>4
<1>9. CASE killed
  <2>1. Kill(n + 1)
    BY <1>4, <1>9
  <2>2. PipesOnce'
    BY <2>1, KillShape
  <2>3. /\ \A m \in Levels : Held(m)' = IF m <= n THEN Held(m) ELSE {}
        /\ \A m \in Children : permits'[m] = IF m <= n + 1 THEN permits[m] ELSE {}
        /\ \A f \in Effects : \A m \in Children :
             /\ f \in Requested(m)' <=> f \in Requested(m) /\ m <= n
             /\ f \in Settling(m)' <=> f \in Settling(m) /\ m <= n
             /\ f \in Replied(m)' <=> f \in Replied(m) /\ m <= n
             /\ f \in Allowed(m)' <=> f \in Allowed(m) /\ m <= n
             /\ f \in Served(m)' <=> f \in Served(m) /\ m <= n
    BY <2>1, KillShape
  <2>4. ASSUME NEW f \in Effects, n < Level[f] PROVE Protocol(f)'
    <3>1. Level[f] > n
      BY <1>5, <2>4
    <3>2. /\ effect'[f] \in Ended /\ (effect'[f] = "idle" <=> effect[f] = "idle")
          /\ outcome'[f] = outcome[f]
      BY <1>3, <1>9, <3>1
    <3>3. /\ \A m \in Levels : m < n => ask'[m][f] = ask[m][f]
          /\ \A m \in Levels : m > n => ask'[m][f] = "none"
      <4>1. \A m \in Levels : m < n => m # n /\ ~(m > n)
        BY <1>5
      <4> QED
        BY <1>3, <1>9, <4>1
    <3>4. IF ask[n][f] = "none" THEN ask'[n][f] = "none"
          ELSE ask'[n][f] = "none" \/ (ask'[n][f] = "orphan" /\ n # 0)
      <4>1. n > 0 => n # 0
        BY <1>5
      <4>2. n = 0 => ask[n][f] # "orphan"
        BY DEF Protocol, GrantedOnce
      <4> QED
        BY <1>3, <1>9, <3>1, <4>1, <4>2
    <3>5. /\ \A m \in Levels : f \in Held(m)' <=> f \in Held(m) /\ m <= n
          /\ \A m \in Children : f \in permits'[m] <=> f \in permits[m] /\ m <= n + 1
      BY <2>3
    <3> QED
      BY <2>3, <2>4, <3>2, <3>3, <3>4, <3>5, KillKeeps
  <2>5. ASSUME NEW f \in Effects, ~(n < Level[f]) PROVE Protocol(f)'
    <3>0. ~(Level[f] > n) /\ \A m \in Levels : ~(m <= n) => ~(m <= Level[f])
      BY <1>5, <2>5
    <3>00. \A m \in Children : m \in Levels /\ (~(m <= n + 1) => ~(m <= n))
      BY <1>5, Places
    <3>1. Placed(f)
      BY DEF Protocol
    <3>2. HeldSame(f)
      BY <2>3, <3>0, <3>1 DEF HeldSame, Placed
    <3>3. PermitsSame(f)
      BY <2>3, <3>0, <3>00, <3>1 DEF PermitsSame, Placed
    <3>4. \A m \in Children : ~(m <= n) =>
            f \notin Requested(m) /\ f \notin Settling(m) /\ f \notin Replied(m) /\ f \notin Served(m)
            /\ f \notin Allowed(m)
      <4>1. \A m \in Children : f \in Allowed(m) => f \in Replied(m)
        BY DEF Allowed, Replied, Answered, Approved
      <4> QED
        BY <3>0, <3>00, <3>1, <4>1 DEF Placed
    <3>5. RequestedSame(f) /\ SettlingSame(f) /\ RepliedSame(f) /\ ServedSame(f)
      BY <2>3, <3>4 DEF RequestedSame, SettlingSame, RepliedSame, ServedSame
    <3>6. \A m \in Levels : m # n => ask'[m][f] = ask[m][f]
      <4> SUFFICES ASSUME NEW m \in Levels, m # n PROVE ask'[m][f] = ask[m][f]
        OBVIOUS
      <4>1. CASE m > n
        <5>1. ~(m <= n)
          BY <1>5, <4>1
        <5>2. ask[m][f] = "none"
          BY <3>0, <3>1, <5>1 DEF Placed
        <5> QED
          BY <1>3, <1>9, <4>1, <5>2
      <4>2. CASE ~(m > n)
        BY <1>3, <4>2
      <4> QED
        BY <4>1, <4>2
    <3>7. CASE f \in inner
      BY <1>7, <3>2, <3>3, <3>5, <3>6, <3>7
    <3>8. CASE f \notin inner
      <4>1. FateSame(f) /\ AskSame(f)
        BY <1>3, <3>0, <3>6, <3>8 DEF FateSame, AskSame
      <4>2. Rests(f)
        BY <3>2, <3>3, <3>5, <4>1, FadeSame DEF Rests
      <4> QED
        BY <4>2, RestsKeeps
    <3> QED
      BY <3>7, <3>8
  <2> QED
    BY <2>2, <2>4, <2>5
<1> QED
  BY <1>8, <1>9

LEMMA ProtocolStep ==
  ASSUME Domains, PipesOnce, Processes, KeptByLaunch, \A f \in Effects : Protocol(f), Next
  PROVE  PipesOnce' /\ \A f \in Effects : Protocol(f)'
BY BeginProtocol, AdmissionProtocol, AdmitProtocol, SettledProtocol, ResultProtocol, TakeProtocol,
   ExitProtocol, CompleteProtocol, EndsProtocol, DropOwnProtocol, DropKeptProtocol, RevokeProtocol
   DEF Next, Running, Started, Conversation

(***************************************************************************)
(* What the other parts of the invariant ask of a step                     *)
(***************************************************************************)
\* How far an effect can get in a step.
Course(e) ==
  \/ effect'[e] = effect[e]
  \/ effect[e] = "idle" /\ effect'[e] \in {"refused", "asking"}
  \/ effect[e] = "asking" /\ effect'[e] \in {"refused", "abandoned", "killed"}
  \/ effect[e] = "asking" /\ effect'[e] = "running" /\ ask[Level[e]][e] = "granted"
  \/ effect[e] \in InHand /\ effect'[e] \in {"dropping", "completed", "dropped", "killed"}

\* No launch starts or ends, and only live processes do something.
Steady ==
  /\ alive' = alive
  /\ \A n \in Children :
       /\ effect'[Launch[n]] = "running" <=> effect[Launch[n]] = "running"
       /\ serve'[n].pc = "off" <=> serve[n].pc = "off"

Local ==
  /\ \A e \in Effects : effect'[e] = effect[e] \/ Level[e] \in alive
  /\ \A n \in Levels : n \notin alive => \A e \in Effects :
       (e \in Held(n)' => e \in Held(n)) /\ ask'[n][e] = ask[n][e]
  /\ \A n \in Children : serve[n].pc = "off" => \A e \in Effects :
       /\ e \in Settling(n)' => e \in Settling(n)
       /\ e \in Allowed(n)' => e \in Allowed(n)

LEMMA HeldTypes ==
  /\ Domains => \A n \in Levels : Held(n) \subseteq Effects
  /\ Domains' => \A n \in Levels : Held(n)' \subseteq Effects
BY DEF Domains, Held, Gates

LEMMA ProcessesKeep ==
  ASSUME Processes, Domains', Steady, Local
  PROVE  Processes'
<1>1. \A n \in Children : n \in alive' => effect'[Launch[n]] = "running"
  BY DEF Processes, Steady
<1>2. \A n \in Children : serve'[n].pc # "off" <=> effect'[Launch[n]] = "running"
  BY DEF Processes, Steady
<1>3. \A e \in Effects : Level[e] \notin alive' => effect'[e] \in Ended
  BY DEF Processes, Steady, Local
<1>4. \A n \in Children : n \notin alive' => Held(n)' = {} /\ \A e \in Effects : ask'[n][e] = "none"
  <2> TAKE n \in Children
  <2> HAVE n \notin alive'
  <2>1. n \notin alive /\ n \in Levels
    BY Places DEF Steady
  <2>2. Held(n) = {} /\ \A e \in Effects : ask[n][e] = "none"
    BY <2>1 DEF Processes
  <2>3. Held(n)' = {}
    BY <2>1, <2>2, HeldTypes DEF Local
  <2>4. \A e \in Effects : ask'[n][e] = "none"
    BY <2>1, <2>2 DEF Local
  <2> QED
    BY <2>3, <2>4
<1>5. \A n \in Children : serve'[n].pc = "off" =>
        \A e \in Effects : e \notin Settling(n)' /\ e \notin Allowed(n)'
  BY DEF Processes, Steady, Local
<1> QED
  BY <1>1, <1>2, <1>3, <1>4, <1>5 DEF Processes

LEMMA FinishesKeep ==
  ASSUME Finishes, \A e \in Effects : Course(e),
         \A n \in Children :
           /\ n \in alive' => n \in alive \/ effect[Launch[n]] = "asking"
           /\ serve'[n].pc = "result" =>
                serve[n].pc = "result" \/ \E frame \in Content(n) : frame.type = "result"
           /\ \A frame \in Content(n)' : frame \in Content(n) \/ frame.type # "result"
  PROVE  Finishes'
<1> SUFFICES ASSUME NEW n \in Children,
                    serve'[n].pc = "result" \/ (\E frame \in Content(n)' : frame.type = "result")
             PROVE  n \notin alive' /\ effect'[Launch[n]] \notin {"idle", "asking"}
  BY DEF Finishes
<1>1. serve[n].pc = "result" \/ \E frame \in Content(n) : frame.type = "result"
  OBVIOUS
<1>2. n \notin alive /\ effect[Launch[n]] \notin {"idle", "asking"} /\ Launch[n] \in Effects
  BY <1>1, Places DEF Finishes
<1>3. Course(Launch[n])
  BY <1>2
<1> QED
  BY <1>2, <1>3 DEF Course

LEMMA RevokedKeep ==
  ASSUME Revoked, ack' = ack,
         gate[0].closed => gate'[0].closed /\ Held(0)' \subseteq Held(0)
  PROVE  Revoked'
BY DEF Revoked

\* An effect is quiet before it is asked for and once it runs.
LEMMA QuietOf ==
  ASSUME Domains, NEW e \in Effects, Protocol(e), effect[e] \in {"idle"} \union InHand
  PROVE  Quiet(e)
<1>1. Level[e] \in Levels /\ \A m \in Levels : m \in Int /\ (m = 0 \/ m \in Children)
  BY Places
<1>2. CASE effect[e] = "idle"
  BY <1>2 DEF Protocol, Placed, Quiet, Asks
<1>3. CASE effect[e] \in InHand
  <2>1. e \in Held(Level[e]) /\ \A m \in Levels : m <= Level[e] => e \in Held(m)
    BY <1>1, <1>3 DEF Protocol, Own, HeldAbove
  <2>2. \A m \in Levels : m < Level[e] => e \in permits[m + 1] /\ m + 1 \in Children
    BY <2>1, Places DEF Protocol, HeldAbove
  <2>3. \A m \in Children : m <= Level[e] => e \in permits[m]
    <3> TAKE m \in Children
    <3> HAVE m <= Level[e]
    <3>1. m - 1 \in Levels /\ m \in Int /\ m - 1 < Level[e] /\ m - 1 + 1 = m
      BY <1>1, Places DEF Levels, Children
    <3> QED
      BY <2>2, <3>1
  <2>4. \A m \in Children : e \notin Requested(m) /\ e \notin Served(m)
    <3> TAKE m \in Children
    <3>1. e \in Served(m) => e \notin permits[m] /\ m <= Level[e]
      BY DEF Protocol, ServedOnce, Placed
    <3>2. e \in Requested(m) => e \notin permits[m] /\ m <= Level[e]
      <4>1. m <= m
        BY <1>1, Places
      <4> QED
        BY <4>1 DEF Protocol, RequestedOnce, Placed, Unseen
    <3> QED
      BY <2>3, <3>1, <3>2
  <2>5. ASSUME NEW m \in Levels PROVE ask[m][e] \notin Asks
    <3>1. CASE m < Level[e]
      <4>1. m + 1 \in Children /\ e \notin Served(m + 1)
        BY <2>2, <2>4, <3>1
      <4> QED
        BY <3>1, <4>1 DEF Protocol, Forwarded
    <3>2. CASE m = Level[e]
      BY <1>3, <3>2 DEF Protocol, Own, InHand
    <3>3. CASE m > Level[e]
      <4>1. ~(m <= Level[e])
        BY <1>1, <3>3
      <4> QED
        BY <4>1 DEF Protocol, Placed, Asks
    <3> QED
      BY <1>1, <3>1, <3>2, <3>3
  <2> QED
    BY <2>4, <2>5 DEF Quiet
<1> QED
  BY <1>2, <1>3

\* Nothing is said yet of an effect whose admission is granted.
LEMMA Unreported ==
  ASSUME Domains, NEW e \in Effects, Protocol(e), ask[Level[e]][e] = "granted"
  PROVE  outcome[e] = "none" /\ \A n \in Children : e \notin Settling(n)
<1>1. Level[e] \in Levels /\ \A m \in Levels : m \in Int /\ (m = 0 \/ m \in Children)
      /\ 0 \in Levels
  BY Places
<1>2. CASE Level[e] = 0
  <2>1. \A n \in Children : ~(n <= Level[e])
    BY <1>2 DEF Children
  <2> QED
    BY <1>2, <2>1 DEF Protocol, Placed, GrantedOnce
<1>3. CASE Level[e] # 0
  <2>1. PICK k \in Children : k = Level[e]
    BY <1>1, <1>3
  <2>2. e \in permits[k] /\ e \notin Settling(k)
    BY <2>1 DEF Protocol, GrantedOnce
  <2>3. k - 1 \in Levels /\ e \in Held(k - 1)
    BY <2>2, Places DEF Protocol, HeldAbove
  <2>4. \A m \in Levels : m <= k - 1 => e \in Held(m)
    BY <2>3 DEF Protocol, HeldAbove
  <2>5. outcome[e] = "none"
    <3>1. 0 <= k - 1
      BY <1>1, <2>3, Places
    <3> QED
      BY <1>1, <2>4, <3>1 DEF Protocol, HeldAbove
  <2>6. ASSUME NEW n \in Children, e \in Settling(n) PROVE FALSE
    <3>1. n <= k /\ n # k
      BY <2>1, <2>2, <2>6 DEF Protocol, Placed
    <3>2. n \in Levels /\ n <= k - 1
      BY <1>1, <3>1, Places
    <3> QED
      BY <2>4, <2>6, <3>2 DEF Protocol, HeldAbove
  <2> QED
    BY <2>5, <2>6
<1> QED
  BY <1>2, <1>3

\* An effect that rests is no longer asked for.
QuietKept(e) == Quiet(e) /\ effect[e] # "idle" => Quiet(e)'

LEMMA QuietBy ==
  ASSUME NEW e \in Effects,
         \A n \in Levels : ask'[n][e] \in Asks => ask[n][e] \in Asks,
         \A n \in Children : /\ e \in Requested(n)' => e \in Requested(n)
                             /\ e \in Served(n)' => e \in Served(n)
  PROVE  QuietKept(e)
BY DEF QuietKept, Quiet

QuietThen ==
  Domains /\ (\A e \in Effects : Protocol(e)) =>
    \A e \in Effects : effect[e] \in {"idle"} \union InHand => Quiet(e)

LEMMA QuietAlways == QuietThen
BY QuietOf DEF QuietThen

LEMMA HonestKeep ==
  ASSUME Domains, Domains', \A e \in Effects : Protocol(e), \A e \in Effects : Protocol(e)',
         Honest, \A e \in Effects : Course(e) /\ QuietKept(e),
         \A n \in Children : \A frame \in Content(n)' :
           frame \in Content(n) \/ (frame.type = "settled" => Truth(frame.e, frame.state)'),
         \A e \in Effects : outcome'[e] = outcome[e] \/ Truth(e, outcome[e])'
  PROVE  Honest'
<1>0. \A e \in Effects : effect'[e] \in EffectStates /\ effect[e] \in EffectStates
  BY DEF Domains
<1>1. ASSUME NEW e \in Effects PROVE Quiet(e)' \/ effect'[e] \in NotRun
  <2>1. QuietThen'
    BY QuietAlways, PTL
  <2>2. effect'[e] \in {"idle"} \union InHand => Quiet(e)'
    BY <2>1 DEF QuietThen
  <2>3. ASSUME effect'[e] \in {"completed", "dropped"} PROVE Quiet(e)'
    <3>0. Course(e)
      OBVIOUS
    <3>1. effect[e] # "idle" /\ (effect[e] \in InHand \/ effect[e] = effect'[e])
      BY <2>3, <3>0 DEF Course, InHand
    <3>2. Quiet(e)
      <4>1. CASE effect[e] \in InHand
        BY <4>1, QuietOf
      <4>2. CASE effect[e] = effect'[e]
        BY <2>3, <4>2 DEF Honest, NotRun
      <4> QED
        BY <3>1, <4>1, <4>2
    <3> QED
      BY <3>1, <3>2 DEF QuietKept
  <2>4. effect'[e] \in NotRun \/ effect'[e] \in {"completed", "dropped"} \/ effect'[e] \in {"idle"} \union InHand
    BY <1>0 DEF EffectStates, Finals, NotRun, InHand
  <2> QED
    BY <2>2, <2>3, <2>4
\* What was true of an effect still is.
<1>2. ASSUME NEW e \in Effects, NEW state, Truth(e, state),
             state = "not_dispatched" => ask[Level[e]][e] # "granted"
      PROVE  Truth(e, state)'
  <2>1. Course(e)
    OBVIOUS
  <2>2. state = "completed" => effect'[e] = "completed"
    BY <1>2, <2>1 DEF Truth, Course, InHand
  <2>3. state = "not_dispatched" => effect'[e] \in NotRun
    BY <1>2, <2>1 DEF Truth, Course, InHand, NotRun
  <2> QED
    BY <2>2, <2>3 DEF Truth
<1>3. ASSUME NEW n \in Children, NEW frame \in Content(n)', frame.type = "settled"
      PROVE  Truth(frame.e, frame.state)'
  <2>1. CASE frame \in Content(n)
    <3>1. frame \in Frames /\ frame.e \in Effects
      BY <1>3, <2>1, ContentChange, FrameTypes
    <3>2. PICK e \in Effects, state \in {frame.state} : e = frame.e /\ state = frame.state
      BY <3>1
    <3>3. Truth(e, state)
      BY <1>3, <2>1, <3>2 DEF Honest
    <3>4. e \in Settling(n)
      BY <1>3, <2>1, <3>2 DEF Content, Settling, Named
    <3>5. Truth(e, state)'
      BY <1>2, <3>3, <3>4, Unreported
    <3> QED
      BY <3>2, <3>5 DEF Truth
  <2>2. CASE frame \notin Content(n)
    BY <1>3, <2>2
  <2> QED
    BY <2>1, <2>2
<1>4. ASSUME NEW e \in Effects PROVE Truth(e, outcome[e])'
  <2>1. CASE outcome'[e] = outcome[e]
    <3>1. PICK state \in Outcomes : state = outcome[e]
      BY DEF Domains
    <3>2. Truth(e, state)
      BY <3>1 DEF Honest
    <3>3. state = "not_dispatched" => ask[Level[e]][e] # "granted"
      BY <3>1, Unreported
    <3>4. Truth(e, state)'
      BY <1>2, <3>2, <3>3
    <3> QED
      BY <2>1, <3>1, <3>4 DEF Truth
  <2>2. CASE outcome'[e] # outcome[e]
    BY <2>2
  <2> QED
    BY <2>1, <2>2
<1> QED
  BY <1>1, <1>3, <1>4 DEF Honest

Others == Processes /\ KeptByLaunch /\ Finishes /\ Revoked /\ Honest

\* The permits kept for a child are fewer, its launch is not over.
Keeps == \A n \in Children :
  permits'[n] # {} => permits[n] # {} /\ effect'[Launch[n]] = effect[Launch[n]]

\* The host's gate stays closed, and a closed one is joined by nothing.
Shut == ack' = ack /\ (gate[0].closed => gate'[0].closed /\ Held(0)' \subseteq Held(0))

\* No result is heard of that was not there.
Silent == \A n \in Children :
  /\ serve'[n].pc = "result" =>
       serve[n].pc = "result" \/ \E frame \in Content(n) : frame.type = "result"
  /\ \A frame \in Content(n)' : frame \in Content(n) \/ frame.type # "result"

TrueFrames == \A n \in Children : \A frame \in Content(n)' :
  frame \in Content(n) \/ (frame.type = "settled" => Truth(frame.e, frame.state)')

TrueOutcomes == \A e \in Effects : outcome'[e] = outcome[e] \/ Truth(e, outcome[e])'

LEMMA OthersKeep ==
  ASSUME Inv, Domains', \A e \in Effects : Protocol(e)', Steady, Local, Keeps, Shut, Silent,
         TrueFrames, TrueOutcomes, \A e \in Effects : Course(e) /\ QuietKept(e)
  PROVE  Others'
<1>1. Processes'
  BY ProcessesKeep DEF Inv
<1>2. KeptByLaunch'
  BY DEF Inv, KeptByLaunch, Keeps
<1>3. Finishes'
  BY FinishesKeep DEF Inv, Silent, Steady
<1>4. Revoked'
  BY RevokedKeep DEF Inv, Shut
<1>5. Honest'
  BY HonestKeep DEF Inv, TrueFrames, TrueOutcomes
<1> QED
  BY <1>1, <1>2, <1>3, <1>4, <1>5 DEF Others

\* What follows from variables that stay as they are.
LEMMA Unmoved ==
  /\ effect' = effect => \A e \in Effects : Course(e)
  /\ effect' = effect /\ alive' = alive /\ serve' = serve => Steady
  /\ effect' = effect /\ permits' = permits => Keeps
  /\ up' = up => TrueFrames
  /\ outcome' = outcome => TrueOutcomes
  /\ serve' = serve /\ up' = up => Silent
  /\ gate' = gate /\ ack' = ack => Shut
<1>1. effect' = effect => \A e \in Effects : Course(e)
  BY DEF Course
<1>2. effect' = effect /\ alive' = alive /\ serve' = serve => Steady
  BY DEF Steady
<1>3. effect' = effect /\ permits' = permits => Keeps
  BY DEF Keeps
<1>4. up' = up => TrueFrames
  BY DEF TrueFrames, Content
<1>5. outcome' = outcome => TrueOutcomes
  BY DEF TrueOutcomes
<1>6. serve' = serve /\ up' = up => Silent
  BY DEF Silent, Content
<1>7. gate' = gate /\ ack' = ack => Shut
  BY DEF Shut, Held
<1> QED
  BY <1>1, <1>2, <1>3, <1>4, <1>5, <1>6, <1>7

LEMMA QuietFades ==
  ASSUME NEW e \in Effects, AskFades(e), RequestedSame(e), ServedSame(e)
  PROVE  QuietKept(e)
<1>1. \A n \in Levels : ask'[n][e] \in Asks => ask[n][e] \in Asks
  BY DEF AskFades, Asks
<1> QED
  BY <1>1, QuietBy DEF RequestedSame, ServedSame

LEMMA BeginOthers ==
  ASSUME Inv, Domains', \A f \in Effects : Protocol(f)', NEW e \in Effects, Begin(e)
  PROVE  Others'
<1>0. /\ effect[e] = "idle" /\ Level[e] \in alive /\ Level[e] \in Levels
      /\ UNCHANGED <<gate, alive, serve, permits, down, outcome, ack>>
  BY Places DEF Begin, historyVars
<1>1. Domains
  BY DEF Inv
<1>2. /\ effect'[e] \in {"refused", "asking"}
      /\ \A f \in Effects : f # e => effect'[f] = effect[f]
  BY <1>1 DEF Begin, Domains
<1>3. \A f \in Effects : HeldSame(f) /\ ServedSame(f) /\ RepliedSame(f)
  BY <1>0, Stays
<1>4. /\ \A f \in Effects : SettlingSame(f) /\ (f # e => AskSame(f) /\ RequestedSame(f))
      /\ \A m \in Levels : m # Level[e] => ask'[m][e] = ask[m][e]
      /\ \A n \in Children : \A frame \in Content(n)' : frame \in Content(n) \/ frame.type = "admit"
  <2>1. CASE gate[Level[e]].closed
    <3>1. ask' = ask /\ up' = up
      BY <2>1 DEF Begin
    <3> QED
      BY <1>1, <3>1, Stays, ContentChange DEF AskSame, NoneArrives
  <2>2. CASE ~gate[Level[e]].closed
    <3>1. PICK n \in Levels : n = Level[e]
      BY <1>0
    <3>2. PICK s \in AskStates : ask' = [ask EXCEPT ![n][e] = s]
      BY <2>2, <3>1 DEF Begin, Request, AskStates
    <3>3. SendUp(n, Admit(e)) /\ Admit(e) \in Frames /\ Admit(e).type = "admit" /\ Admit(e).e = e
      BY <2>2, <3>1, FrameTypes DEF Begin, Request
    <3>4. UpGains(n, "admit", e) /\ Arrives(n, Admit(e))
      BY <1>1, <3>3, SendUpChange, ContentChange
    <3>5. \A m \in Children : \A frame \in Content(m)' : frame \in Content(m) \/ frame.type = "admit"
      BY <3>3, <3>4 DEF Arrives
    <3>6. /\ \A m \in Levels : m # n => ask'[m][e] = ask[m][e]
          /\ \A f \in Effects : f # e => AskSame(f)
      BY <1>1, <3>2, AskChange
    <3> QED
      BY <3>1, <3>4, <3>5, <3>6, GainsSame
  <2> QED
    BY <2>1, <2>2
<1>5. \A f \in Effects : Course(f) /\ QuietKept(f)
  <2>1. \A f \in Effects : Course(f)
    BY <1>0, <1>2 DEF Course
  <2>2. \A f \in Effects : f # e => QuietKept(f)
    BY <1>3, <1>4, FadeSame, QuietFades
  <2>3. QuietKept(e)
    BY <1>0 DEF QuietKept
  <2> QED
    BY <2>1, <2>2, <2>3
<1>6. Steady
  BY <1>0, <1>2, Places DEF Steady
<1>7. Local
  <2>1. \A f \in Effects : effect'[f] = effect[f] \/ Level[f] \in alive
    BY <1>0, <1>2
  <2>2. \A n \in Levels : n \notin alive => \A f \in Effects :
          (f \in Held(n)' => f \in Held(n)) /\ ask'[n][f] = ask[n][f]
    BY <1>0, <1>3, <1>4 DEF HeldSame, AskSame
  <2> QED
    BY <1>3, <1>4, <2>1, <2>2 DEF Local, SettlingSame, RepliedSame
<1>8. Keeps
  <2>1. KeptByLaunch
    BY DEF Inv
  <2> QED
    BY <1>0, <1>2, <2>1, Places DEF Keeps, KeptByLaunch, InHand
<1>9. Silent
  BY <1>0, <1>4 DEF Silent
<1>10. TrueFrames
  BY <1>4 DEF TrueFrames
<1> QED
  BY <1>0, <1>5, <1>6, <1>7, <1>8, <1>9, <1>10, Unmoved, OthersKeep

\* Who talks to a child lives, and its own parent talks to it.
LEMMA Talking ==
  ASSUME Inv, NEW n \in Children
  PROVE  /\ effect[Launch[n]] \in InHand => n - 1 \in alive
         /\ serve[n].pc # "off" => n - 1 \in alive
         /\ n \in alive => serve[n].pc # "off"
         /\ n - 1 \in alive /\ n - 1 \in Children => serve[n - 1].pc # "off"
<1>1. Processes /\ Launch[n] \in Effects /\ Level[Launch[n]] = n - 1
  BY Places DEF Inv
<1>2. effect[Launch[n]] \in InHand => n - 1 \in alive
  BY <1>1 DEF Processes, InHand, Ended, Finals
<1>3. \A m \in Children : m \in alive => serve[m].pc # "off"
  BY <1>1 DEF Processes
<1>4. serve[n].pc # "off" => effect[Launch[n]] \in InHand
  BY <1>1 DEF Processes, InHand
<1> QED
  BY <1>2, <1>3, <1>4

LEMMA RevokeOthers ==
  ASSUME Inv, Domains', \A f \in Effects : Protocol(f)', Revoke
  PROVE  Others'
<1>0. /\ 0 \in Levels /\ 0 \in alive /\ Close(0) /\ Domains
      /\ ack' = [sent |-> TRUE, outstanding |-> gate[0].outstanding]
      /\ UNCHANGED <<effect, alive, serve, permits, up, down, outcome>>
  BY Places DEF Revoke, pipeVars, Inv, Domains
<1>1. \A f \in Effects : /\ AskFades(f) /\ HeldSame(f) /\ RequestedSame(f) /\ SettlingSame(f)
                         /\ RepliedSame(f) /\ ServedSame(f)
  BY <1>0, CloseFades, Stays
<1>2. \A m \in Levels : m # 0 => \A f \in Effects : ask'[m][f] = ask[m][f]
  BY <1>0 DEF Close, Domains
<1>3. \A f \in Effects : Course(f) /\ QuietKept(f)
  BY <1>0, <1>1, Unmoved, QuietFades
<1>4. Steady
  BY <1>0, Unmoved
<1>5. Local
  BY <1>0, <1>1, <1>2 DEF Local, HeldSame, SettlingSame, RepliedSame
<1>6. Revoked'
  <2>1. gate'[0].closed /\ Held(0)' = Held(0)
    BY <1>0, GateChange DEF Close
  <2> QED
    BY <1>0, <2>1 DEF Revoked, Held
<1>7. Processes'
  BY <1>4, <1>5, ProcessesKeep DEF Inv
<1>8. KeptByLaunch'
  BY <1>0 DEF Inv, KeptByLaunch
<1>9. Finishes'
  <2>1. Silent
    BY <1>0, Unmoved
  <2> QED
    BY <1>3, <1>4, <2>1, FinishesKeep DEF Inv, Silent, Steady
<1>10. Honest'
  <2>1. TrueFrames /\ TrueOutcomes
    BY <1>0, Unmoved
  <2> QED
    BY <1>3, <2>1, HonestKeep DEF Inv, TrueFrames, TrueOutcomes
<1> QED
  BY <1>6, <1>7, <1>8, <1>9, <1>10 DEF Others

LEMMA TakeOthers ==
  ASSUME Inv, Domains', \A f \in Effects : Protocol(f)', NEW n \in Children, TakeReply(n)
  PROVE  Others'
<1>0. /\ n \in Levels /\ n # 0 /\ n \in alive /\ Domains /\ PipesOnce
      /\ down[n] # <<>> /\ down' = [down EXCEPT ![n] = Tail(down[n])]
      /\ UNCHANGED <<effect, alive, serve, permits, up, outcome, ack>>
  BY Places DEF TakeReply, historyVars, Inv
<1>1. PICK reply \in Replies : reply = Head(down[n])
  BY <1>0, ReadReplyChange
<1>2. PICK e \in Effects : e = reply.e
  BY DEF Replies
<1>3. DownLoses(n, e)
  BY <1>0, <1>1, <1>2, ReadReplyChange
<1>4. \A f \in Effects : RequestedSame(f) /\ SettlingSame(f) /\ ServedSame(f)
  BY <1>0, Stays
<1>5. /\ \A f \in Effects : HeldSame(f)
      /\ \A m \in Levels : m # n => \A f \in Effects : ask'[m][f] = ask[m][f]
      /\ \A f \in Effects : QuietKept(f)
      /\ gate[0].closed => gate'[0].closed
  <2>1. CASE ask[n][e] \in {"waiting", "orphan"}
    <3>1. gate' = gate /\ \E s \in AskStates : ask' = [ask EXCEPT ![n][e] = s]
      BY <1>1, <1>2, <2>1 DEF TakeReply, AskStates
    <3>2. PICK s \in AskStates : ask' = [ask EXCEPT ![n][e] = s]
      BY <3>1
    <3>3. \A m \in Levels, f \in Effects :
            ask'[m][f] = IF m = n /\ f = e THEN s ELSE ask[m][f]
      BY <1>0, <3>2 DEF Domains
    <3>4. ASSUME NEW f \in Effects PROVE QuietKept(f)
      <4>1. CASE f # e
        <5>1. \A m \in Levels : ask'[m][f] = ask[m][f]
          BY <3>3, <4>1
        <5> QED
          BY <1>4, <5>1, QuietBy DEF RequestedSame, ServedSame
      <4>2. CASE f = e /\ ask[n][e] = "waiting"
        BY <1>0, <4>2 DEF QuietKept, Quiet, Asks
      <4>3. CASE f = e /\ ask[n][e] = "orphan"
        <5>1. ask' = [ask EXCEPT ![n][e] = "none"]
          BY <1>1, <1>2, <2>1, <4>3 DEF TakeReply
        <5>2. \A m \in Levels : ask'[m][f] \in Asks => ask[m][f] \in Asks
          BY <1>0, <4>3, <5>1 DEF Domains, Asks
        <5> QED
          BY <1>4, <5>2, QuietBy DEF RequestedSame, ServedSame
      <4> QED
        BY <2>1, <4>1, <4>2, <4>3
    <3> QED
      BY <3>1, <3>3, <3>4, Stays
  <2>2. CASE ask[n][e] \notin {"waiting", "orphan"}
    <3>1. Close(n)
      BY <1>1, <1>2, <2>2 DEF TakeReply
    <3>2. \A f \in Effects : AskFades(f) /\ HeldSame(f)
      BY <1>0, <3>1, CloseFades
    <3>3. \A m \in Levels : m # n => \A f \in Effects : ask'[m][f] = ask[m][f]
      BY <1>0, <3>1 DEF Close, Domains
    <3>4. gate[0].closed => gate'[0].closed
      <4>1. 0 \in Levels
        BY Places
      <4> QED
        BY <1>0, <3>1, <4>1, GateChange DEF Close
    <3> QED
      BY <1>4, <3>2, <3>3, <3>4, QuietFades
  <2> QED
    BY <2>1, <2>2
<1>6. Local
  <2>1. \A m \in Levels : m \notin alive => \A f \in Effects :
          (f \in Held(m)' => f \in Held(m)) /\ ask'[m][f] = ask[m][f]
    BY <1>0, <1>5 DEF HeldSame
  <2>2. \A m \in Children : \A f \in Effects : f \in Allowed(m)' => f \in Allowed(m)
    BY <1>3 DEF DownLoses
  <2> QED
    BY <1>0, <1>4, <2>1, <2>2 DEF Local, SettlingSame
<1>7. Shut
  <2>1. Held(0)' \subseteq Held(0)
    <3>1. 0 \in Levels
      BY Places
    <3> QED
      BY <1>5, <3>1, HeldTypes DEF HeldSame
  <2> QED
    BY <1>0, <1>5, <2>1 DEF Shut
<1> QED
  BY <1>0, <1>5, <1>6, <1>7, Unmoved, OthersKeep

LEMMA ResultOthers ==
  ASSUME Inv, Domains', \A f \in Effects : Protocol(f)', NEW n \in Children, ServeResult(n)
  PROVE  Others'
<1>0. /\ Domains /\ PipesOnce /\ up[n] # <<>> /\ Head(up[n]).type = "result"
      /\ serve[n].pc = "reading"
      /\ serve' = [serve EXCEPT ![n] = [pc |-> "result", e |-> NoEffect]]
      /\ up' = [up EXCEPT ![n] = Tail(@)]
      /\ UNCHANGED <<gate, ask, effect, alive, permits, down, outcome, ack>>
  BY DEF ServeResult, ReadFrame, historyVars, Inv
<1>1. \A f \in Effects : HeldSame(f) /\ AskSame(f) /\ RepliedSame(f)
  BY <1>0, Stays
<1>2. serve'[n].pc = "result" /\ \A m \in Children : m # n => serve'[m] = serve[m]
  BY <1>0 DEF Domains
<1>3. \A f \in Effects : ServedSame(f)
  BY <1>0, <1>2 DEF ServedSame, Served
<1>4. NoneArrives /\ Head(up[n]) \in Content(n)
  BY <1>0, ContentChange
<1>5. \A m \in Children : \A f \in Effects :
        /\ f \in Requested(m)' => f \in Requested(m)
        /\ f \in Settling(m)' => f \in Settling(m)
  <2>1. /\ \A m \in Children : m # n => up'[m] = up[m]
        /\ up'[n] = Tail(up[n]) /\ up[n] \in Seq(Frames)
    BY <1>0 DEF Domains
  <2>2. /\ Named(Tail(up[n]), "admit") \subseteq Named(up[n], "admit")
        /\ Named(Tail(up[n]), "settled") \subseteq Named(up[n], "settled")
    BY <1>0, <2>1, TailNamed
  <2> QED
    BY <2>1, <2>2 DEF Requested, Settling
<1>6. \A f \in Effects : Course(f) /\ QuietKept(f)
  BY <1>0, <1>1, <1>3, <1>5, Unmoved, QuietBy DEF AskSame, ServedSame
<1>7. Steady
  BY <1>0, <1>2 DEF Steady
<1>8. Local
  BY <1>0, <1>1, <1>5 DEF Local, HeldSame, AskSame, RepliedSame
<1>9. Silent
  BY <1>0, <1>2, <1>4 DEF Silent, NoneArrives
<1>10. TrueFrames
  BY <1>4 DEF TrueFrames, NoneArrives
<1> QED
  BY <1>0, <1>6, <1>7, <1>8, <1>9, <1>10, Unmoved, OthersKeep

LEMMA AdmitOthers ==
  ASSUME Inv, Domains', \A f \in Effects : Protocol(f)', NEW n \in Children, ServeAdmit(n)
  PROVE  Others'
<1>0. /\ Domains /\ PipesOnce /\ up[n] # <<>> /\ Head(up[n]).type = "admit"
      /\ serve[n].pc = "reading"
      /\ UNCHANGED <<gate, effect, alive, permits, outcome, ack>>
  BY DEF ServeAdmit, ReadFrame, historyVars, Inv
<1>1. PICK k \in Levels : k = n - 1 /\ k \in alive
  BY <1>0, Talking, Places
<1>2. PICK e \in Effects : e = Head(up[n]).e
  BY <1>0, ReadTyped, FrameTypes
<1>3. /\ Admit(e) \in Frames /\ Admit(e).type = "admit" /\ Admit(e).e = e
      /\ Head(up[n]) \in Frames
  BY <1>0, FrameTypes, ReadTyped
<1>4. e \in Requested(n) /\ ~Quiet(e)
  <2>1. e \in Requested(n)
    BY <1>0, <1>2, <1>3, ReadUpChange DEF Requested
  <2> QED
    BY <2>1 DEF Quiet
<1>5. \A f \in Effects : HeldSame(f)
  BY <1>0, Stays
<1>6. /\ \A f \in Effects : SettlingSame(f) /\ \A m \in Children : f \in Allowed(m)' => f \in Allowed(m)
      /\ \A f \in Effects : f # e => AskSame(f) /\ RequestedSame(f) /\ ServedSame(f)
      /\ \A m \in Levels : m # k => ask'[m][e] = ask[m][e]
      /\ \A m \in Children : /\ serve'[m].pc = "off" <=> serve[m].pc = "off"
                             /\ serve'[m].pc = "result" => serve[m].pc = "result"
      /\ \A m \in Children : \A frame \in Content(m)' : frame \in Content(m) \/ frame.type = "admit"
  <2>1. CASE gate[k].closed
    <3>1. /\ down' = [down EXCEPT ![n] = Append(@, [e |-> e, allowed |-> FALSE])]
          /\ up' = [up EXCEPT ![n] = Tail(@)] /\ UNCHANGED <<ask, serve>>
      BY <1>1, <1>2, <2>1 DEF ServeAdmit
    <3>2. UpLoses(n, "admit", e) /\ DownGains(n, e, FALSE) /\ NoneArrives
      BY <1>0, <1>2, <1>3, <3>1, ReadUpChange, ReplyChange, ContentChange
    <3>3. \A f \in Effects : SettlingSame(f) /\ (f # e => RequestedSame(f))
      BY <3>2, GainsSame
    <3>4. \A f \in Effects : AskSame(f) /\ ServedSame(f)
      BY <3>1, Stays
    <3> QED
      BY <3>1, <3>2, <3>3, <3>4 DEF DownGains, NoneArrives, AskSame
  <2>2. CASE ~gate[k].closed
    <3>1. /\ serve' = [serve EXCEPT ![n] = [pc |-> "asking", e |-> e]]
          /\ ask' = [ask EXCEPT ![k][e] = IF n = 1 THEN "granted" ELSE "waiting"]
          /\ up' = [m \in Children |->
                     CASE m = n -> Tail(up[n])
                       [] m = n - 1 -> Append(up[m], Admit(e))
                       [] OTHER -> up[m]]
          /\ down' = down
      BY <1>1, <1>2, <2>2 DEF ServeAdmit
    <3>2. UpPasses(n, "admit", e) /\ Arrives(n - 1, Admit(e))
      BY <1>0, <1>2, <1>3, <3>1, ReadUpChange, ContentChange
    <3>3. \A f \in Effects : SettlingSame(f) /\ RepliedSame(f) /\ (f # e => RequestedSame(f))
      BY <3>1, <3>2, GainsSame, Stays
    <3>4. /\ \A f \in Effects : f # e => AskSame(f)
          /\ \A m \in Levels : m # k => ask'[m][e] = ask[m][e]
      <4>1. PICK s \in AskStates : ask' = [ask EXCEPT ![k][e] = s]
        BY <3>1 DEF AskStates
      <4> QED
        BY <1>0, <4>1, AskChange
    <3>5. serve'[n].pc = "asking" /\ serve'[n].e = e /\ \A m \in Children : m # n => serve'[m] = serve[m]
      BY <1>0, <3>1 DEF Domains
    <3>6. \A f \in Effects : f # e => ServedSame(f)
      BY <1>0, <3>5 DEF ServedSame, Served
    <3>7. \A m \in Children : \A frame \in Content(m)' : frame \in Content(m) \/ frame.type = "admit"
      BY <1>3, <3>2 DEF Arrives
    <3> QED
      BY <1>0, <3>3, <3>4, <3>5, <3>6, <3>7 DEF RepliedSame
  <2> QED
    BY <2>1, <2>2
<1>7. \A f \in Effects : Course(f) /\ QuietKept(f)
  <2>1. \A f \in Effects : f # e => QuietKept(f)
    BY <1>6, FadeSame, QuietFades
  <2>2. QuietKept(e)
    BY <1>4 DEF QuietKept
  <2> QED
    BY <1>0, <2>1, <2>2, Unmoved
<1>8. Steady
  BY <1>0, <1>6 DEF Steady
<1>9. Local
  <2>1. \A m \in Levels : m \notin alive => \A f \in Effects :
          (f \in Held(m)' => f \in Held(m)) /\ ask'[m][f] = ask[m][f]
    BY <1>1, <1>5, <1>6 DEF HeldSame, AskSame
  <2> QED
    BY <1>0, <1>6, <2>1 DEF Local, SettlingSame
<1>10. Silent
  BY <1>6 DEF Silent
<1>11. TrueFrames
  BY <1>6 DEF TrueFrames
<1> QED
  BY <1>0, <1>7, <1>8, <1>9, <1>10, <1>11, Unmoved, OthersKeep

LEMMA SettledOthers ==
  ASSUME Inv, Domains', \A f \in Effects : Protocol(f)', NEW n \in Children, ServeSettled(n)
  PROVE  Others'
<1>0. PICK k \in Levels : k = n - 1
  BY Places
<1>1. PICK frame \in Frames : frame = Head(up[n])
  BY ReadTyped DEF ServeSettled, ReadFrame, Inv
<1>2. /\ Domains /\ PipesOnce /\ serve[n].pc = "reading"
      /\ up[n] # <<>> /\ frame.type = "settled"
      /\ permits' = [permits EXCEPT ![n] = @ \ {frame.e}]
      /\ gate' = [gate EXCEPT ![k].outstanding = @ \ {frame.e}]
      /\ outcome' = IF n = 1 THEN [outcome EXCEPT ![frame.e] = frame.state] ELSE outcome
      /\ up' = [m \in Children |->
             CASE m = n -> Tail(up[n])
               [] m = n - 1 -> Append(up[m], frame)
               [] OTHER -> up[m]]
      /\ UNCHANGED <<ask, effect, alive, serve, down, ack>>
  BY <1>0, <1>1 DEF ServeSettled, ReadFrame, Inv
<1>3. PICK e \in Effects : e = frame.e
  BY <1>2, FrameTypes
<1>4. UpPasses(n, "settled", e) /\ Arrives(k, frame) /\ frame \in Content(n)
  BY <1>0, <1>1, <1>2, <1>3, ReadUpChange, ContentChange
<1>5. \A m \in Levels : /\ Held(m)' = IF m = k THEN Held(k) \ {e} ELSE Held(m)
                        /\ gate'[m].closed = gate[m].closed
  <2>1. gate' = [gate EXCEPT ![k].outstanding = Held(k) \ {e}]
    BY <1>2, <1>3 DEF Held
  <2>2. PICK rest \in SUBSET Effects : rest = Held(k) \ {e}
    BY <1>2 DEF Held, Domains, Gates
  <2>3. gate' = [gate EXCEPT ![k].outstanding = rest]
    BY <2>1, <2>2
  <2>4. Domains
    BY <1>2
  <2>5. \A m \in Levels : /\ gate'[m].closed = gate[m].closed
                          /\ Held(m)' = IF m = k THEN rest ELSE Held(m)
    BY <2>3, <2>4, GateChange
  <2> QED
    BY <2>2, <2>5
<1>6. \A f \in Effects : AskSame(f) /\ RepliedSame(f) /\ ServedSame(f)
  BY <1>2, Stays
<1>7. \A f \in Effects : RequestedSame(f) /\ (f # e => SettlingSame(f))
  BY <1>4, GainsSame
<1>8. \A f \in Effects : Course(f) /\ QuietKept(f)
  BY <1>2, <1>6, <1>7, Unmoved, FadeSame, QuietFades
<1>9. Local
  <2>1. \A m \in Children : serve[m].pc = "off" =>
          \A f \in Effects : f \in Settling(m)' => f \in Settling(m)
    <3>1. k \in Children => serve[k].pc # "off"
      BY <1>0, <1>2, Talking
    <3>2. \A m \in Children : m # k => (e \in Settling(m)' => e \in Settling(m))
      BY <1>0, <1>4 DEF UpPasses
    <3> QED
      BY <1>7, <3>1, <3>2 DEF SettlingSame
  <2> QED
    BY <1>2, <1>5, <1>6, <2>1 DEF Local, AskSame, RepliedSame
<1>10. Truth(frame.e, frame.state)'
  <2>1. Truth(frame.e, frame.state)
    BY <1>2, <1>4 DEF Inv, Honest
  <2> QED
    BY <1>2, <2>1 DEF Truth
<1>11. Keeps
  BY <1>2 DEF Keeps, Domains
<1>12. Shut
  <2>1. 0 \in Levels
    BY Places
  <2> QED
    BY <1>2, <1>5, <2>1 DEF Shut
<1>13. Silent
  BY <1>2, <1>4 DEF Silent, Arrives
<1>14. TrueFrames
  BY <1>4, <1>10 DEF TrueFrames, Arrives
<1>15. TrueOutcomes
  <2>1. \A f \in Effects : outcome'[f] = outcome[f] \/ (f = frame.e /\ outcome'[f] = frame.state)
    BY <1>2 DEF Domains
  <2> QED
    BY <1>10, <2>1 DEF TrueOutcomes, Truth
<1> QED
  BY <1>2, <1>8, <1>9, <1>11, <1>12, <1>13, <1>14, <1>15, Unmoved, OthersKeep

\* What settling a permit at a live process changes.
LEMMA SettleFacts ==
  ASSUME Inv, NEW k \in Levels, k \in alive, NEW e \in Effects, NEW state \in Outcomes,
         Settle(k, e, state)
  PROVE  /\ \A m \in Levels : /\ \A f \in Effects : f \in Held(m)' => f \in Held(m)
                              /\ Held(m)' \subseteq Held(m)
                              /\ gate'[m].closed = gate[m].closed
         /\ \A f \in Effects : RequestedSame(f)
         /\ \A m \in Children : \A f \in Effects :
              f \in Settling(m)' => f \in Settling(m) \/ m = k
         /\ \A m \in Children : serve[m].pc = "off" => m # k
         /\ \A m \in Children : \A frame \in Content(m)' :
              frame \in Content(m) \/ (frame.type = "settled" /\ frame.e = e /\ frame.state = state)
         /\ \A f \in Effects : outcome'[f] = outcome[f] \/ (f = e /\ outcome'[f] = state)
<1>0. Domains
  BY DEF Inv
<1>1. \A m \in Levels : /\ Held(m)' = IF m = k THEN Held(k) \ {e} ELSE Held(m)
                        /\ gate'[m].closed = gate[m].closed
  <2>1. PICK rest \in SUBSET Effects : rest = Held(k) \ {e}
    BY <1>0 DEF Held, Domains, Gates
  <2>2. gate' = [gate EXCEPT ![k].outstanding = rest]
    BY <2>1 DEF Settle, Held
  <2>3. \A m \in Levels : /\ gate'[m].closed = gate[m].closed
                          /\ Held(m)' = IF m = k THEN rest ELSE Held(m)
    BY <1>0, <2>2, GateChange
  <2> QED
    BY <2>1, <2>3
<1>2. /\ Settled(e, state) \in Frames /\ Settled(e, state).type = "settled"
      /\ Settled(e, state).e = e /\ Settled(e, state).state = state
      /\ SendUp(k, Settled(e, state))
  BY FrameTypes DEF Settle
<1>3. UpGains(k, "settled", e) /\ Arrives(k, Settled(e, state))
  BY <1>0, <1>2, SendUpChange, ContentChange
<1>4. \A f \in Effects : RequestedSame(f)
  BY <1>3, GainsSame
<1>5. \A m \in Children : \A f \in Effects : f \in Settling(m)' => f \in Settling(m) \/ m = k
  BY <1>3 DEF UpGains
<1>6. \A m \in Children : serve[m].pc = "off" => m # k
  BY Talking
<1>7. \A m \in Children : \A frame \in Content(m)' :
        frame \in Content(m) \/ (frame.type = "settled" /\ frame.e = e /\ frame.state = state)
  BY <1>2, <1>3 DEF Arrives
<1>8. \A f \in Effects : outcome'[f] = outcome[f] \/ (f = e /\ outcome'[f] = state)
  BY <1>0 DEF Settle, Domains
<1> QED
  BY <1>1, <1>4, <1>5, <1>6, <1>7, <1>8

LEMMA DropKeptOthers ==
  ASSUME Inv, Domains', \A f \in Effects : Protocol(f)', NEW n \in Children, NEW e \in Effects,
         DropKept(n, e)
  PROVE  Others'
<1>0. PICK k \in Levels : k = n - 1
  BY Places
<1>1. /\ k \in alive /\ Domains
      /\ permits' = [permits EXCEPT ![n] = @ \ {e}]
      /\ Settle(k, e, DropState)
      /\ UNCHANGED <<ask, effect, alive, serve, down, ack>>
  BY <1>0 DEF DropKept, Inv
<1>2. DropState \in Outcomes /\ Truth(e, DropState)'
  BY DEF Outcomes, DropState, Truth
<1>3. /\ \A m \in Levels : /\ \A f \in Effects : f \in Held(m)' => f \in Held(m)
                           /\ Held(m)' \subseteq Held(m)
                           /\ gate'[m].closed = gate[m].closed
      /\ \A f \in Effects : RequestedSame(f)
      /\ \A m \in Children : \A f \in Effects :
           f \in Settling(m)' => f \in Settling(m) \/ m = k
      /\ \A m \in Children : serve[m].pc = "off" => m # k
      /\ \A m \in Children : \A frame \in Content(m)' :
           frame \in Content(m) \/ (frame.type = "settled" /\ frame.e = e /\ frame.state = DropState)
      /\ \A f \in Effects : outcome'[f] = outcome[f] \/ (f = e /\ outcome'[f] = DropState)
  BY <1>1, <1>2, SettleFacts
<1>4. \A f \in Effects : AskSame(f) /\ RepliedSame(f) /\ ServedSame(f)
  BY <1>1, Stays
<1>5. \A f \in Effects : Course(f) /\ QuietKept(f)
  BY <1>1, <1>3, <1>4, Unmoved, FadeSame, QuietFades
<1>6. Local
  BY <1>1, <1>3, <1>4 DEF Local, AskSame, RepliedSame
<1>7. Keeps
  BY <1>1 DEF Keeps, Domains
<1>8. Shut
  BY <1>1, <1>3, Places DEF Shut
<1>9. Silent
  BY <1>1, <1>3 DEF Silent
<1>10. TrueFrames
  BY <1>2, <1>3 DEF TrueFrames, Truth, DropState
<1>11. TrueOutcomes
  BY <1>2, <1>3 DEF TrueOutcomes, Truth, DropState
<1> QED
  BY <1>1, <1>5, <1>6, <1>7, <1>8, <1>9, <1>10, <1>11, Unmoved, OthersKeep

LEMMA DropOwnOthers ==
  ASSUME Inv, Domains', \A f \in Effects : Protocol(f)', NEW e \in Effects, DropOwn(e)
  PROVE  Others'
<1>0. PICK k \in Levels : k = Level[e]
  BY Places
<1>1. /\ k \in alive /\ Domains /\ effect[e] = "dropping"
      /\ effect' = [effect EXCEPT ![e] = "dropped"]
      /\ \A n \in Launches(e) : permits[n] = {}
      /\ Settle(k, e, DropState)
      /\ UNCHANGED <<ask, alive, serve, permits, down, ack>>
  BY <1>0 DEF DropOwn, Inv
<1>2. DropState \in Outcomes /\ Truth(e, DropState)'
  BY DEF Outcomes, DropState, Truth
<1>3. /\ \A m \in Levels : /\ \A f \in Effects : f \in Held(m)' => f \in Held(m)
                           /\ Held(m)' \subseteq Held(m)
                           /\ gate'[m].closed = gate[m].closed
      /\ \A f \in Effects : RequestedSame(f)
      /\ \A m \in Children : \A f \in Effects :
           f \in Settling(m)' => f \in Settling(m) \/ m = k
      /\ \A m \in Children : serve[m].pc = "off" => m # k
      /\ \A m \in Children : \A frame \in Content(m)' :
           frame \in Content(m) \/ (frame.type = "settled" /\ frame.e = e /\ frame.state = DropState)
      /\ \A f \in Effects : outcome'[f] = outcome[f] \/ (f = e /\ outcome'[f] = DropState)
  BY <1>1, <1>2, SettleFacts
<1>4. \A f \in Effects : AskSame(f) /\ RepliedSame(f) /\ ServedSame(f)
  BY <1>1, Stays
<1>5. effect'[e] = "dropped" /\ \A f \in Effects : f # e => effect'[f] = effect[f]
  BY <1>1 DEF Domains
<1>6. \A f \in Effects : Course(f) /\ QuietKept(f)
  <2>1. \A f \in Effects : Course(f)
    BY <1>1, <1>5 DEF Course, InHand
  <2> QED
    BY <1>3, <1>4, <2>1, FadeSame, QuietFades
<1>7. Steady
  BY <1>1, <1>5, Places DEF Steady
<1>8. Local
  BY <1>0, <1>1, <1>3, <1>4, <1>5 DEF Local, AskSame, RepliedSame
<1>9. Keeps
  <2>1. \A n \in Children : permits[n] # {} => Launch[n] # e /\ Launch[n] \in Effects
    BY <1>1, Places DEF Launches
  <2> QED
    BY <1>1, <1>5, <2>1 DEF Keeps
<1>10. Shut
  BY <1>1, <1>3, Places DEF Shut
<1>11. Silent
  BY <1>1, <1>3 DEF Silent
<1>12. TrueFrames
  BY <1>2, <1>3 DEF TrueFrames, Truth, DropState
<1>13. TrueOutcomes
  BY <1>2, <1>3 DEF TrueOutcomes, Truth, DropState
<1> QED
  BY <1>6, <1>7, <1>8, <1>9, <1>10, <1>11, <1>12, <1>13, OthersKeep

LEMMA CompleteOthers ==
  ASSUME Inv, Domains', \A f \in Effects : Protocol(f)', NEW e \in Effects, Complete(e)
  PROVE  Others'
<1>0. PICK k \in Levels : k = Level[e]
  BY Places
<1>1. /\ k \in alive /\ Domains /\ Processes /\ Finishes /\ effect[e] = "running"
      /\ effect' = [effect EXCEPT ![e] = "completed"]
      /\ \A n \in Launches(e) : serve[n].pc = "result" /\ permits[n] = {}
      /\ Settle(k, e, "completed")
      /\ serve' = [n \in Children |-> IF n \in Launches(e)
                    THEN [pc |-> "off", e |-> NoEffect] ELSE serve[n]]
      /\ UNCHANGED <<ask, alive, permits, down, ack>>
  BY <1>0 DEF Complete, ChildDone, Inv
<1>2. "completed" \in Outcomes
  BY DEF Outcomes
<1>3. /\ \A m \in Levels : /\ \A f \in Effects : f \in Held(m)' => f \in Held(m)
                           /\ Held(m)' \subseteq Held(m)
                           /\ gate'[m].closed = gate[m].closed
      /\ \A f \in Effects : RequestedSame(f)
      /\ \A m \in Children : \A f \in Effects :
           f \in Settling(m)' => f \in Settling(m) \/ m = k
      /\ \A m \in Children : serve[m].pc = "off" => m # k
      /\ \A m \in Children : \A frame \in Content(m)' :
           frame \in Content(m) \/ (frame.type = "settled" /\ frame.e = e /\ frame.state = "completed")
      /\ \A f \in Effects : outcome'[f] = outcome[f] \/ (f = e /\ outcome'[f] = "completed")
  BY <1>1, <1>2, SettleFacts
<1>4. \A m \in Children : IF Launch[m] = e THEN serve'[m].pc = "off" /\ serve[m].pc = "result"
                          ELSE serve'[m] = serve[m]
  BY <1>1 DEF Launches
<1>5. \A f \in Effects : AskSame(f) /\ RepliedSame(f) /\ ServedSame(f)
  <2>1. \A f \in Effects : ServedSame(f)
    BY <1>4 DEF ServedSame, Served
  <2> QED
    BY <1>1, <2>1, Stays
<1>6. effect'[e] = "completed" /\ \A f \in Effects : f # e => effect'[f] = effect[f]
  BY <1>1 DEF Domains
<1>7. \A f \in Effects : Course(f) /\ QuietKept(f)
  <2>1. \A f \in Effects : Course(f)
    BY <1>1, <1>6 DEF Course, InHand
  <2> QED
    BY <1>3, <1>5, <2>1, FadeSame, QuietFades
<1>8. Truth(e, "completed")'
  BY <1>6 DEF Truth
<1>9. Processes'
  <2>1. \A n \in Children : n \in alive' => effect'[Launch[n]] = "running"
    BY <1>1, <1>4, <1>6, Places DEF Processes, Finishes
  <2>2. \A n \in Children : serve'[n].pc # "off" <=> effect'[Launch[n]] = "running"
    BY <1>4, <1>1, <1>6, Places DEF Processes
  <2>3. \A f \in Effects : Level[f] \notin alive' => effect'[f] \in Ended
    BY <1>0, <1>1, <1>6 DEF Processes
  <2>4. \A n \in Children : n \notin alive' => Held(n)' = {} /\ \A f \in Effects : ask'[n][f] = "none"
    BY <1>1, <1>3, Places DEF Processes
  <2>5. ASSUME NEW n \in Children, serve'[n].pc = "off", NEW f \in Effects
        PROVE  f \notin Settling(n)' /\ f \notin Allowed(n)'
    <3>1. Allowed(n)' = Allowed(n)
      BY <1>1 DEF Allowed
    <3>2. CASE Launch[n] = e
      <4>1. permits[n] = {}
        BY <1>1, <3>2 DEF Launches
      <4>2. f \notin Settling(n) /\ f \notin Allowed(n)
        BY <4>1 DEF Inv, Protocol, HeldAbove, RepliedOnce
      <4>3. n # k
        BY <1>0, <3>2, Places
      <4> QED
        BY <1>3, <3>1, <4>2, <4>3
    <3>3. CASE Launch[n] # e
      <4>1. serve[n].pc = "off"
        BY <1>4, <2>5, <3>3
      <4> QED
        BY <1>1, <1>3, <3>1, <4>1 DEF Processes
    <3> QED
      BY <3>2, <3>3
  <2> QED
    BY <2>1, <2>2, <2>3, <2>4, <2>5 DEF Processes
<1>10. KeptByLaunch'
  <2>1. \A n \in Children : permits'[n] # {} => Launch[n] # e /\ Launch[n] \in Effects
    BY <1>1, Places DEF Launches
  <2> QED
    BY <1>1, <1>6, <2>1 DEF Inv, KeptByLaunch
<1>11. Finishes'
  <2>1. Silent
    BY <1>3, <1>4 DEF Silent
  <2> QED
    BY <1>1, <1>7, <2>1, FinishesKeep DEF Silent
<1>12. Revoked'
  <2>1. Shut
    BY <1>1, <1>3, Places DEF Shut
  <2> QED
    BY <2>1, RevokedKeep DEF Inv, Shut
<1>13. Honest'
  <2>1. TrueFrames
    BY <1>3, <1>8 DEF TrueFrames, Truth
  <2>2. TrueOutcomes
    BY <1>3, <1>8 DEF TrueOutcomes, Truth
  <2> QED
    BY <1>7, <2>1, <2>2, HonestKeep DEF Inv, TrueFrames, TrueOutcomes
<1> QED
  BY <1>9, <1>10, <1>11, <1>12, <1>13 DEF Others

\* A refused admission, whoever refused it.
LEMMA RefusedOthers ==
  ASSUME Inv, Domains', \A f \in Effects : Protocol(f)', NEW n \in Levels, n \in alive,
         NEW e \in Effects, n <= Level[e], ask[n][e] \in Asks, Refuse(n, e), AskEnds(n, e),
         \A f \in Effects : f # e => AskFades(f),
         \A m \in Levels : m # n => \A f \in Effects : ask'[m][f] = ask[m][f],
         \A m \in Levels : Held(m)' = Held(m) /\ (gate[m].closed => gate'[m].closed),
         up' = up \/ SendUp(n, Settled(e, "not_dispatched")),
         UNCHANGED <<alive, permits, outcome, ack>>
  PROVE  Others'
<1>0. Domains /\ PipesOnce /\ Protocol(e) /\ Honest
  BY DEF Inv
<1>1. /\ IF Level[e] = n THEN effect'[e] = "refused" /\ ServedSame(e) /\ RepliedSame(e)
         ELSE n < Level[e] /\ effect'[e] = effect[e] /\ Answers(n, e, FALSE)
      /\ \A f \in Effects : f # e => effect'[f] = effect[f] /\ ServedSame(f) /\ RepliedSame(f)
  BY <1>0, RefuseShape
<1>2. \A m \in Children : \A f \in Effects :
        /\ f \in Served(m)' => f \in Served(m)
        /\ f \in Allowed(m)' => f \in Allowed(m)
  BY <1>1 DEF ServedSame, RepliedSame, Answers
<1>3. \A m \in Children : /\ serve'[m].pc = "off" <=> serve[m].pc = "off"
                          /\ serve'[m].pc = "result" => serve[m].pc = "result"
  <2>1. CASE Level[e] = n
    BY <2>1 DEF Refuse
  <2>2. CASE Level[e] # n
    <3>1. n + 1 \in Children /\ e \in Served(n + 1)
      BY <1>0, <1>1, <2>2, Places DEF Protocol, Forwarded
    <3>2. serve' = [serve EXCEPT ![n + 1] = [pc |-> "reading", e |-> NoEffect]]
          /\ serve[n + 1].pc = "asking"
      BY <2>2, <3>1 DEF Refuse, Served
    <3> QED
      BY <1>0, <3>1, <3>2 DEF Domains
  <2> QED
    BY <2>1, <2>2
<1>4. /\ \A f \in Effects : effect'[f] = effect[f] \/ (f = e /\ Level[e] = n /\ effect[e] = "asking"
                                                     /\ effect'[e] = "refused")
      /\ effect'[e] \in NotRun
  <2>1. Level[e] = n => effect[e] = "asking"
    BY <1>0 DEF Protocol, Own
  <2>2. effect[e] \in NotRun
    <3>1. ~Quiet(e)
      BY DEF Quiet
    <3> QED
      BY <1>0, <3>1 DEF Honest
  <2> QED
    BY <1>1, <2>1, <2>2 DEF NotRun
<1>5. /\ \A f \in Effects : RequestedSame(f)
      /\ \A m \in Children : \A f \in Effects : f \in Settling(m)' => f \in Settling(m) \/ m = n
      /\ \A m \in Children : \A frame \in Content(m)' : frame \in Content(m) \/
           (frame.type = "settled" /\ frame.e = e /\ frame.state = "not_dispatched")
  <2>1. CASE up' = up
    BY <1>0, <2>1, Stays, ContentChange DEF SettlingSame, NoneArrives
  <2>2. CASE SendUp(n, Settled(e, "not_dispatched"))
    <3>1. /\ Settled(e, "not_dispatched") \in Frames
          /\ Settled(e, "not_dispatched").type = "settled"
          /\ Settled(e, "not_dispatched").e = e
          /\ Settled(e, "not_dispatched").state = "not_dispatched"
      BY FrameTypes DEF Outcomes
    <3>2. UpGains(n, "settled", e) /\ Arrives(n, Settled(e, "not_dispatched"))
      BY <1>0, <2>2, <3>1, SendUpChange, ContentChange
    <3>3. \A f \in Effects : RequestedSame(f)
      BY <3>2, GainsSame
    <3>4. \A m \in Children : \A f \in Effects : f \in Settling(m)' => f \in Settling(m) \/ m = n
      BY <3>2 DEF UpGains
    <3> QED
      BY <3>1, <3>2, <3>3, <3>4 DEF Arrives
  <2> QED
    BY <2>1, <2>2
<1>6. \A f \in Effects : Course(f) /\ QuietKept(f)
  <2>1. \A f \in Effects : Course(f)
    BY <1>4 DEF Course
  <2>2. \A f \in Effects : \A m \in Levels : ask'[m][f] \in Asks => ask[m][f] \in Asks
    BY DEF AskEnds, AskFades, Asks
  <2>3. \A f \in Effects : QuietKept(f)
    BY <1>2, <1>5, <2>2, QuietBy DEF RequestedSame
  <2> QED
    BY <2>1, <2>3
<1>7. Steady
  <2>1. \A m \in Children : effect'[Launch[m]] = "running" <=> effect[Launch[m]] = "running"
    BY <1>4, Places
  <2> QED
    BY <1>3, <2>1 DEF Steady
<1>8. Local
  <2>1. \A m \in Children : serve[m].pc = "off" => m # n
    BY Talking
  <2> QED
    BY <1>2, <1>4, <1>5, <2>1 DEF Local
<1>9. Keeps
  <2>1. \A m \in Children : permits[m] # {} => effect[Launch[m]] \in InHand /\ Launch[m] \in Effects
    BY Places DEF Inv, KeptByLaunch
  <2> QED
    BY <1>4, <2>1 DEF Keeps, InHand
<1>10. Shut
  BY Places DEF Shut
<1>11. Silent
  BY <1>3, <1>5 DEF Silent
<1>12. TrueFrames
  BY <1>4, <1>5 DEF TrueFrames, Truth
<1> QED
  BY <1>6, <1>7, <1>8, <1>9, <1>10, <1>11, <1>12, Unmoved, OthersKeep

LEMMA AdmissionOthers ==
  ASSUME Inv, Domains', \A f \in Effects : Protocol(f)', NEW n \in Levels, NEW e \in Effects,
         Admissions(n, e)
  PROVE  Others'
<1>0. /\ Protocol(e) /\ n <= Level[e] /\ ask[n][e] \in Asks /\ n \in alive /\ Domains
      /\ PipesOnce /\ Processes
  <2>1. Protocol(e) /\ ask[n][e] # "none" /\ ask[n][e] \in Asks /\ n \in alive
    BY DEF Admissions, Enter, TakeRefusal, ControlLost, Asks, Inv
  <2> QED
    BY <2>1 DEF Protocol, Placed, Inv
<1>5. ASSUME ask' = [ask EXCEPT ![n][e] = "none"]
      PROVE  /\ AskEnds(n, e) /\ \A f \in Effects : f # e => AskFades(f)
             /\ \A m \in Levels : m # n => \A f \in Effects : ask'[m][f] = ask[m][f]
  <2>1. AskEnds(n, e) /\ \A f \in Effects : f # e => AskSame(f)
    BY <1>0, <1>5, AskChange
  <2>2. \A m \in Levels : m # n => \A f \in Effects : ask'[m][f] = ask[m][f]
    BY <1>0, <1>5 DEF Domains
  <2> QED
    BY <2>1, <2>2, FadeSame
<1>1. CASE Enter(n, e) /\ ~MayEnter(n)
  <2>1. /\ ask' = [ask EXCEPT ![n][e] = "none"]
        /\ Refuse(n, e) /\ SendUp(n, Settled(e, "not_dispatched"))
        /\ UNCHANGED <<gate, alive, permits, outcome, ack>>
    BY <1>1 DEF Enter, historyVars
  <2>2. /\ AskEnds(n, e) /\ \A f \in Effects : f # e => AskFades(f)
        /\ \A m \in Levels : m # n => \A f \in Effects : ask'[m][f] = ask[m][f]
    BY <1>5, <2>1
  <2>3. \A m \in Levels : Held(m)' = Held(m) /\ (gate[m].closed => gate'[m].closed)
    BY <2>1 DEF Held
  <2> QED
    BY <1>0, <2>1, <2>2, <2>3, RefusedOthers
<1>2. CASE TakeRefusal(n, e)
  <2>1. /\ ask' = [ask EXCEPT ![n][e] = "none"] /\ Refuse(n, e)
        /\ UNCHANGED <<gate, alive, permits, up, outcome, ack>>
    BY <1>2 DEF TakeRefusal, historyVars
  <2>2. /\ AskEnds(n, e) /\ \A f \in Effects : f # e => AskFades(f)
        /\ \A m \in Levels : m # n => \A f \in Effects : ask'[m][f] = ask[m][f]
    BY <1>5, <2>1
  <2>3. \A m \in Levels : Held(m)' = Held(m) /\ (gate[m].closed => gate'[m].closed)
    BY <2>1 DEF Held
  <2> QED
    BY <1>0, <2>1, <2>2, <2>3, RefusedOthers
<1>3. CASE ControlLost(n, e)
  <2>1. Refuse(n, e) /\ UNCHANGED <<alive, permits, up, outcome, ack>>
    BY <1>3 DEF ControlLost
  <2>2. \A f \in Effects :
          /\ \A m \in Levels : m # n => ask'[m][f] = ask[m][f]
          /\ ask'[n][f] = CASE f = e -> "none"
                           [] f # e /\ ask[n][f] = "waiting" -> "cleared"
                           [] f # e /\ ask[n][f] = "orphan" -> "none"
                           [] OTHER -> ask[n][f]
    BY <1>0, <1>3 DEF ControlLost, Domains
  <2>3. AskEnds(n, e)
    BY <2>2 DEF AskEnds
  <2>4. \A f \in Effects : f # e => AskFades(f)
    BY <2>2 DEF AskFades
  <2>5. \A m \in Levels : Held(m)' = Held(m) /\ (gate[m].closed => gate'[m].closed)
    BY <1>0, <1>3, GateChange DEF ControlLost
  <2> QED
    BY <1>0, <2>1, <2>2, <2>3, <2>4, <2>5, RefusedOthers
<1>4. CASE Enter(n, e) /\ MayEnter(n)
  <2>0. /\ ask[n][e] = "granted" /\ ask' = [ask EXCEPT ![n][e] = "none"]
        /\ gate' = [gate EXCEPT ![n].outstanding = Counted(n, e)] /\ ~gate[n].closed
        /\ Grant(n, e) /\ UNCHANGED <<up, outcome, ack>>
    BY <1>4 DEF Enter, MayEnter, historyVars
  <2>1. /\ AskEnds(n, e)
        /\ \A m \in Levels : m # n => \A f \in Effects : ask'[m][f] = ask[m][f]
        /\ \A f \in Effects : f # e => AskSame(f)
    <3>1. ask' = [ask EXCEPT ![n][e] = "none"] /\ Domains
      BY <1>0, <2>0
    <3>2. AskEnds(n, e) /\ \A f \in Effects : f # e => AskSame(f)
      BY <3>1, AskChange
    <3>3. \A m \in Levels : m # n => \A f \in Effects : ask'[m][f] = ask[m][f]
      BY <3>1 DEF Domains
    <3> QED
      BY <3>2, <3>3
  <2>2. \A m \in Levels : /\ m # n => Held(m)' = Held(m)
                          /\ gate'[m].closed = gate[m].closed
    <3>1. Counted(n, e) \in SUBSET Effects
      BY <1>0 DEF Counted, Domains, Gates
    <3>2. PICK all \in SUBSET Effects : all = Counted(n, e)
      BY <3>1
    <3>3. gate' = [gate EXCEPT ![n].outstanding = all]
      BY <2>0, <3>2
    <3> QED
      BY <1>0, <3>3, GateChange
  <2>3. /\ IF Level[e] = n
           THEN effect'[e] = "running" /\ ServedSame(e) /\ RepliedSame(e) /\ PermitsSame(e)
           ELSE /\ n < Level[e] /\ effect'[e] = effect[e] /\ Answers(n, e, TRUE)
                /\ \A m \in Children : e \in permits'[m] <=> e \in permits[m] \/ m = n + 1
        /\ \A f \in Effects : f # e =>
             effect'[f] = effect[f] /\ ServedSame(f) /\ RepliedSame(f) /\ PermitsSame(f)
    BY <1>0, <2>0, GrantShape
  <2>4. \A f \in Effects : RequestedSame(f) /\ SettlingSame(f)
    BY <2>0, Stays
  <2>5. Level[e] = n => effect[e] = "asking"
    BY <1>0 DEF Protocol, Own
  <2>6. \A f \in Effects : Course(f) /\ QuietKept(f)
    <3>1. \A f \in Effects : Course(f)
      BY <2>0, <2>3, <2>5 DEF Course
    <3>2. \A f \in Effects : \A m \in Levels : ask'[m][f] \in Asks => ask[m][f] \in Asks
      BY <2>1 DEF AskEnds, AskSame, Asks
    <3>3. \A f \in Effects : \A m \in Children : f \in Served(m)' => f \in Served(m)
      BY <2>3 DEF ServedSame, Answers
    <3>4. \A f \in Effects : QuietKept(f)
      BY <2>4, <3>2, <3>3, QuietBy DEF RequestedSame
    <3> QED
      BY <3>1, <3>4
  <2>7. Shut
    <3>1. gate[0].closed => n # 0
      BY <2>0
    <3> QED
      BY <2>0, <2>2, <3>1, Places DEF Shut
  <2>8. TrueFrames /\ TrueOutcomes
    BY <2>0, Unmoved
  <2>9. CASE Level[e] = n
    <3>1. /\ alive' = alive \union Launches(e) /\ permits' = permits /\ down' = down
          /\ \A m \in Children : serve'[m] = IF Launch[m] = e THEN [pc |-> "reading", e |-> NoEffect]
                                            ELSE serve[m]
      BY <2>0, <2>9 DEF Grant, Launches
    <3>2. effect'[e] = "running" /\ \A f \in Effects : f # e => effect'[f] = effect[f]
      BY <2>3, <2>9
    <3>3. \A m \in Children : Launch[m] = e => m \in alive' /\ m \notin alive
      <4>1. \A m \in Children : m \in alive => effect[Launch[m]] = "running"
        BY <1>0 DEF Processes
      <4> QED
        BY <2>5, <2>9, <3>1, <4>1 DEF Launches
    <3>4. \A m \in Children : m \in alive' => m \in alive \/ Launch[m] = e
      BY <3>1 DEF Launches
    <3>5. \A m \in alive : m \in alive'
      BY <3>1
    <3>6. Processes'
      <4>1. \A m \in Children : m \in alive' => effect'[Launch[m]] = "running"
        BY <1>0, <3>2, <3>4, Places DEF Processes
      <4>2. \A m \in Children : serve'[m].pc # "off" <=> effect'[Launch[m]] = "running"
        BY <1>0, <3>1, <3>2, Places DEF Processes
      <4>3. \A f \in Effects : Level[f] \notin alive' => effect'[f] \in Ended
        BY <1>0, <2>9, <3>2, <3>5 DEF Processes
      <4>4. \A m \in Children : m \notin alive' => Held(m)' = {} /\ \A f \in Effects : ask'[m][f] = "none"
        BY <1>0, <2>1, <2>2, <3>5, Places DEF Processes
      <4>5. \A m \in Children : serve'[m].pc = "off" =>
              \A f \in Effects : f \notin Settling(m)' /\ f \notin Allowed(m)'
        BY <1>0, <2>4, <3>1 DEF Processes, SettlingSame, Allowed
      <4> QED
        BY <4>1, <4>2, <4>3, <4>4, <4>5 DEF Processes
    <3>7. KeptByLaunch'
      BY <3>1, <3>2, Places DEF Inv, KeptByLaunch, InHand
    <3>8. Finishes'
      <4>1. Silent
        BY <2>0, <3>1 DEF Silent, Content
      <4>2. \A m \in Children : m \in alive' => m \in alive \/ effect[Launch[m]] = "asking"
        BY <2>5, <2>9, <3>4
      <4> QED
        BY <2>6, <4>1, <4>2, FinishesKeep DEF Inv, Silent
    <3>9. Revoked'
      BY <2>7, RevokedKeep DEF Inv, Shut
    <3>10. Honest'
      BY <1>0, <2>6, <2>8, HonestKeep DEF Inv, TrueFrames, TrueOutcomes
    <3> QED
      BY <3>6, <3>7, <3>8, <3>9, <3>10 DEF Others
  <2>10. CASE Level[e] # n
    <3>1. n + 1 \in Children /\ e \in Served(n + 1)
      BY <1>0, <2>0, <2>3, <2>10, Places DEF Protocol, Forwarded, Asks
    <3>2. /\ effect' = effect /\ alive' = alive
          /\ permits' = [permits EXCEPT ![n + 1] = @ \union {e}]
          /\ serve' = [serve EXCEPT ![n + 1] = [pc |-> "reading", e |-> NoEffect]]
          /\ serve[n + 1].pc = "asking"
      BY <2>0, <2>10, <3>1 DEF Grant, Served
    <3>3. \A m \in Children : /\ serve'[m].pc = "off" <=> serve[m].pc = "off"
                              /\ serve'[m].pc = "result" => serve[m].pc = "result"
                              /\ m # n + 1 => permits'[m] = permits[m]
      BY <1>0, <3>1, <3>2 DEF Domains
    <3>4. Steady
      BY <3>2, <3>3 DEF Steady
    <3>5. Local
      <4>1. \A m \in Children : \A f \in Effects : f \in Allowed(m)' => f \in Allowed(m) \/ m = n + 1
        BY <2>3, <2>10 DEF RepliedSame, Answers
      <4>2. \A m \in Levels : m \notin alive => \A f \in Effects :
              (f \in Held(m)' => f \in Held(m)) /\ ask'[m][f] = ask[m][f]
        BY <1>0, <2>1, <2>2
      <4> QED
        BY <2>4, <3>2, <4>1, <4>2 DEF Local, SettlingSame
    <3>6. KeptByLaunch'
      <4>1. effect[Launch[n + 1]] \in InHand
        BY <1>0, <3>1, <3>2 DEF Processes, InHand
      <4> QED
        BY <3>2, <3>3, <4>1 DEF Inv, KeptByLaunch
    <3>7. Finishes'
      <4>1. Silent
        BY <2>0, <3>3 DEF Silent, Content
      <4> QED
        BY <2>6, <3>2, <4>1, FinishesKeep DEF Inv, Silent
    <3>8. Processes'
      BY <1>0, <3>4, <3>5, ProcessesKeep
    <3>9. Revoked'
      BY <2>7, RevokedKeep DEF Inv, Shut
    <3>10. Honest'
      BY <1>0, <2>6, <2>8, HonestKeep DEF Inv, TrueFrames, TrueOutcomes
    <3> QED
      BY <3>6, <3>7, <3>8, <3>9, <3>10 DEF Others
  <2> QED
    BY <2>9, <2>10
<1> QED
  BY <1>1, <1>2, <1>3, <1>4 DEF Admissions

LEMMA ExitOthers ==
  ASSUME Inv, Domains', \A f \in Effects : Protocol(f)', NEW n \in Children, Exit(n)
  PROVE  Others'
<1>0. /\ n \in Levels /\ n # 0 /\ Domains /\ PipesOnce /\ KeptByLaunch /\ Processes /\ Finishes
      /\ \A f \in Effects : Protocol(f)
  BY Places DEF Inv
<1>1. /\ n \in alive /\ \A e \in Effects : Level[e] = n => effect[e] \in Ended
      /\ alive' = alive \ {n}
      /\ SendUp(n, Result)
      /\ down' = [down EXCEPT ![n] = <<>>]
      /\ ask' = [ask EXCEPT ![n] = NoAsks]
      /\ gate' = [gate EXCEPT ![n] = OpenGate]
      /\ UNCHANGED <<effect, serve, permits, outcome, ack>>
  BY DEF Exit, historyVars, Ended
<1>2. Arrives(n, Result) /\ Result \in Frames /\ Result.type = "result"
  BY <1>0, <1>1, FrameTypes, ContentChange
<1>3. \A f \in Effects : RequestedSame(f) /\ SettlingSame(f)
  <2>1. /\ \A m \in Children : up'[m] = IF m = n THEN Append(up[n], Result) ELSE up[m]
        /\ \A m \in Children : up[m] \in Seq(Frames)
    BY <1>0, <1>1 DEF SendUp, Domains
  <2>2. /\ \A f \in Effects : f \in Named(Append(up[n], Result), "admit") <=> f \in Named(up[n], "admit")
        /\ \A f \in Effects : f \in Named(Append(up[n], Result), "settled") <=> f \in Named(up[n], "settled")
    BY <1>2, <2>1, AppendNamed
  <2> QED
    BY <2>1, <2>2 DEF RequestedSame, SettlingSame, Requested, Settling
<1>4. \A m \in Children : \A f \in Effects : f \in Allowed(m)' => f \in Allowed(m)
  <2>1. \A m \in Children : down'[m] = IF m = n THEN <<>> ELSE down[m]
    BY <1>0, <1>1 DEF Domains
  <2>2. Approved(<<>>) = {}
    BY DEF Approved
  <2> QED
    BY <2>1, <2>2 DEF Allowed
<1>5. \A m \in Levels : \A f \in Effects : ask'[m][f] = IF m = n THEN "none" ELSE ask[m][f]
  BY <1>0, <1>1 DEF Domains, NoAsks
<1>6. \A m \in Levels : /\ Held(m)' = IF m = n THEN {} ELSE Held(m)
                        /\ m # n => gate'[m] = gate[m]
  BY <1>0, <1>1 DEF Domains, Held, OpenGate
<1>7. \A f \in Effects : Course(f) /\ QuietKept(f)
  <2>1. \A f \in Effects : \A m \in Levels : ask'[m][f] \in Asks => ask[m][f] \in Asks
    BY <1>5 DEF Asks
  <2>2. \A f \in Effects : ServedSame(f)
    BY <1>1, Stays
  <2> QED
    BY <1>1, <1>3, <2>1, <2>2, Unmoved, QuietBy DEF RequestedSame, ServedSame
<1>8. Processes'
  <2>1. \A m \in Children : m \in alive' => effect'[Launch[m]] = "running"
    BY <1>0, <1>1 DEF Processes
  <2>2. \A m \in Children : serve'[m].pc # "off" <=> effect'[Launch[m]] = "running"
    BY <1>0, <1>1 DEF Processes
  <2>3. \A f \in Effects : Level[f] \notin alive' => effect'[f] \in Ended
    BY <1>0, <1>1 DEF Processes
  <2>4. \A m \in Children : m \notin alive' => Held(m)' = {} /\ \A f \in Effects : ask'[m][f] = "none"
    BY <1>0, <1>1, <1>5, <1>6, Places DEF Processes
  <2>5. \A m \in Children : serve'[m].pc = "off" =>
          \A f \in Effects : f \notin Settling(m)' /\ f \notin Allowed(m)'
    BY <1>0, <1>1, <1>3, <1>4 DEF Processes, SettlingSame
  <2> QED
    BY <2>1, <2>2, <2>3, <2>4, <2>5 DEF Processes
<1>9. KeptByLaunch'
  BY <1>0, <1>1 DEF KeptByLaunch
<1>10. Finishes'
  <2> SUFFICES ASSUME NEW m \in Children,
                      serve'[m].pc = "result" \/ (\E frame \in Content(m)' : frame.type = "result")
               PROVE  m \notin alive' /\ effect'[Launch[m]] \notin {"idle", "asking"}
    BY DEF Finishes
  <2>1. CASE m = n
    <3>1. effect[Launch[n]] = "running"
      BY <1>0, <1>1 DEF Processes
    <3> QED
      BY <1>1, <2>1, <3>1
  <2>2. CASE m # n
    <3>1. serve[m].pc = "result" \/ \E frame \in Content(m) : frame.type = "result"
      BY <1>1, <1>2, <2>2 DEF Arrives
    <3> QED
      BY <1>0, <1>1, <3>1 DEF Finishes
  <2> QED
    BY <2>1, <2>2
<1>11. Revoked'
  <2>1. Shut
    BY <1>0, <1>1, <1>6, Places DEF Shut
  <2> QED
    BY <2>1, RevokedKeep DEF Inv, Shut
<1>12. Honest'
  <2>1. TrueFrames
    BY <1>2 DEF TrueFrames, Arrives
  <2>2. TrueOutcomes
    BY <1>1, Unmoved
  <2> QED
    BY <1>0, <1>7, <2>1, <2>2, HonestKeep DEF Inv, TrueFrames, TrueOutcomes
<1> QED
  BY <1>8, <1>9, <1>10, <1>11, <1>12 DEF Others

LEMMA EndsOthers ==
  ASSUME Inv, Domains', \A f \in Effects : Protocol(f)', NEW e \in Effects, EndsEarly(e)
  PROVE  Others'
<1>0. Domains /\ Processes /\ KeptByLaunch
  BY DEF Inv
<1>1. PICK inner \in SUBSET Effects, killed \in BOOLEAN : EndsWith(e, inner, killed)
  BY <1>0, EndsShape
<1>2. PICK n \in Levels : n = Level[e] /\ n \in alive
  BY Places DEF EndsEarly
<1>3. \A f \in Effects :
        /\ f \in inner => effect'[f] = CASE effect[f] = "running" -> "dropping"
                                         [] effect[f] = "asking" -> "abandoned"
                                         [] OTHER -> effect[f]
        /\ f \notin inner /\ ~(killed /\ Level[f] > n) => effect'[f] = effect[f]
        /\ killed /\ Level[f] > n =>
             /\ effect'[f] \in Ended
             /\ effect'[f] = effect[f] \/ (effect[f] \notin Ended /\ effect'[f] = "killed")
        /\ \A m \in Levels : m # n /\ ~(m > n /\ killed) => ask'[m][f] = ask[m][f]
        /\ \A m \in Levels : m > n /\ killed => ask'[m][f] = "none"
        /\ f \notin inner /\ ~(killed /\ Level[f] > n) => ask'[n][f] = ask[n][f]
        /\ f \in inner \/ (killed /\ Level[f] > n) =>
             ask'[n][f] = CASE ask[n][f] = "waiting" -> IF n > 0 THEN "orphan" ELSE "none"
                            [] ask[n][f] = "orphan" -> "orphan"
                            [] OTHER -> "none"
        /\ f \in inner => Level[f] = n
  BY <1>1, <1>2 DEF EndsWith
<1>4. /\ IF killed THEN Kill(n + 1) ELSE UNCHANGED <<gate, alive, reader, serve, permits, up, down>>
      /\ killed = (\E f \in inner : effect[f] = "running" /\ Launches(f) # {})
      /\ UNCHANGED <<outcome, ack>>
  BY <1>1, <1>2 DEF EndsWith
<1>5. /\ n \in Int /\ n >= 0 /\ \A m \in Levels : m \in Int
      /\ \A f \in Effects : Level[f] \in Levels /\ Level[f] \in Int
  BY <1>2, Places
<1>6. \A f \in Effects : Course(f)
  <2> SUFFICES ASSUME NEW f \in Effects PROVE Course(f)
    OBVIOUS
  <2>0. effect[f] \in EffectStates
    BY <1>0 DEF Domains
  <2>1. CASE f \in inner
    <3>1. CASE effect[f] = "running"
      BY <1>3, <2>1, <3>1 DEF Course, InHand
    <3>2. CASE effect[f] = "asking"
      BY <1>3, <2>1, <3>2 DEF Course
    <3>3. CASE effect[f] \notin {"running", "asking"}
      BY <1>3, <2>1, <3>3 DEF Course
    <3> QED
      BY <3>1, <3>2, <3>3
  <2>2. CASE f \notin inner /\ ~(killed /\ Level[f] > n)
    BY <1>3, <2>2 DEF Course
  <2>3. CASE killed /\ Level[f] > n
    BY <1>3, <2>0, <2>3 DEF Course, InHand, Ended, EffectStates
  <2> QED
    BY <2>1, <2>2, <2>3
<1>7. \A f \in Effects : \A m \in Levels : ask'[m][f] \in Asks => ask[m][f] \in Asks
  <2> TAKE f \in Effects
  <2> TAKE m \in Levels
  <2>1. CASE m # n
    BY <1>3, <2>1 DEF Asks
  <2>2. CASE m = n /\ f \notin inner /\ ~(killed /\ Level[f] > n)
    BY <1>3, <2>2
  <2>3. CASE m = n /\ (f \in inner \/ (killed /\ Level[f] > n))
    BY <1>3, <2>3 DEF Asks
  <2> QED
    BY <2>1, <2>2, <2>3
<1>8. CASE ~killed
  <2>1. UNCHANGED <<gate, alive, serve, permits, up, down, outcome, ack>>
    BY <1>4, <1>8
  <2>2. \A f \in Effects : /\ HeldSame(f) /\ RequestedSame(f) /\ SettlingSame(f)
                           /\ RepliedSame(f) /\ ServedSame(f)
    BY <2>1, Stays
  <2>3. \A f \in Effects : QuietKept(f)
    BY <1>7, <2>2, QuietBy DEF RequestedSame, ServedSame
  <2>4. \A m \in Children : effect'[Launch[m]] = effect[Launch[m]] \/ effect[Launch[m]] \notin InHand
                            \/ (effect[Launch[m]] = "dropping" /\ effect'[Launch[m]] = "dropping")
    <3> TAKE m \in Children
    <3>1. Launch[m] \in Effects /\ Launches(Launch[m]) # {}
      BY Places DEF Launches
    <3>2. CASE Launch[m] \in inner
      <4>1. effect[Launch[m]] # "running"
        BY <1>4, <1>8, <3>1, <3>2
      <4> QED
        BY <1>3, <3>1, <3>2, <4>1 DEF InHand
    <3>3. CASE Launch[m] \notin inner
      BY <1>3, <1>8, <3>1, <3>3
    <3> QED
      BY <3>2, <3>3
  <2>5. Steady
    <3>1. \A m \in Children : effect'[Launch[m]] = "running" <=> effect[Launch[m]] = "running"
      <4> TAKE m \in Children
      <4>1. Launch[m] \in Effects /\ Course(Launch[m])
        BY <1>6, Places
      <4>2. effect[Launch[m]] = "running" => effect'[Launch[m]] = "running"
        BY <2>4 DEF InHand
      <4>3. effect[Launch[m]] # "running" => effect'[Launch[m]] # "running"
        BY <1>3, <1>8, <4>1
      <4> QED
        BY <4>2, <4>3
    <3> QED
      BY <2>1, <3>1 DEF Steady
  <2>6. Local
    BY <1>2, <1>3, <1>8, <2>1, <2>2 DEF Local, HeldSame, SettlingSame, RepliedSame
  <2>7. Keeps
    <3>1. \A m \in Children : permits[m] # {} => effect[Launch[m]] \in InHand
      BY <1>0 DEF KeptByLaunch
    <3> QED
      BY <2>1, <2>4, <3>1 DEF Keeps
  <2> QED
    BY <1>6, <2>1, <2>3, <2>5, <2>6, <2>7, Unmoved, OthersKeep
<1>9. CASE killed
  <2>1. Kill(n + 1)
    BY <1>4, <1>9
  <2>2. /\ \A m \in Levels : Held(m)' = IF m <= n THEN Held(m) ELSE {}
        /\ \A m \in Children : permits'[m] = IF m <= n + 1 THEN permits[m] ELSE {}
        /\ \A m \in Children :
             /\ m <= n => up'[m] = up[m] /\ down'[m] = down[m] /\ serve'[m] = serve[m]
             /\ ~(m <= n) => up'[m] = <<>> /\ down'[m] = <<>> /\ serve'[m].pc = "off"
        /\ alive' = {m \in alive : m <= n}
        /\ \A f \in Effects : \A m \in Children :
             /\ f \in Requested(m)' <=> f \in Requested(m) /\ m <= n
             /\ f \in Settling(m)' <=> f \in Settling(m) /\ m <= n
             /\ f \in Allowed(m)' <=> f \in Allowed(m) /\ m <= n
             /\ f \in Served(m)' <=> f \in Served(m) /\ m <= n
    BY <1>0, <2>1, KillShape
  <2>3. NoneArrives
    <3>1. \A m \in Children : up'[m] = up[m] \/ up'[m] = <<>>
      BY <2>2
    <3> QED
      BY <3>1 DEF NoneArrives, Content
  <2>4. \A f \in Effects : QuietKept(f)
    BY <1>7, <2>2, QuietBy
  \* The launch of child n + 1 is dropped; those of the children above go on.
  <2>5. \A m \in Children :
          /\ Launch[m] \in Effects
          /\ m <= n => effect'[Launch[m]] = effect[Launch[m]]
          /\ m = n + 1 => effect'[Launch[m]] = "dropping"
          /\ ~(m <= n) => effect'[Launch[m]] # "running"
    <3> TAKE m \in Children
    <3>1. /\ Launch[m] \in Effects /\ Level[Launch[m]] = m - 1 /\ m \in Int
          /\ Launch[m] \in inner => m - 1 = n
      BY <1>3, <1>5, Places
    <3>2. m <= n => effect'[Launch[m]] = effect[Launch[m]]
      BY <1>3, <1>5, <3>1
    <3>3. ASSUME m = n + 1 PROVE effect'[Launch[m]] = "dropping"
      <4>1. PICK f \in inner : effect[f] = "running" /\ Launches(f) # {}
        BY <1>4, <1>9
      <4>2. PICK k \in Launches(f) : k \in Children /\ Launch[k] = f /\ k = Level[f] + 1
        BY <4>1, Places
      <4>3. f \in Effects /\ Level[f] = n
        BY <1>3
      <4>4. Launch[m] = f
        BY <3>3, <4>2, <4>3
      <4> QED
        BY <1>3, <4>1, <4>3, <4>4
    <3>4. ASSUME ~(m <= n) PROVE effect'[Launch[m]] # "running"
      <4>1. CASE m = n + 1
        BY <3>3, <4>1
      <4>2. CASE m # n + 1
        <5>1. Level[Launch[m]] > n
          BY <1>5, <3>1, <3>4, <4>2
        <5>2. effect'[Launch[m]] \in Ended
          BY <1>3, <1>9, <3>1, <5>1
        <5> QED
          BY <5>2 DEF Ended, Finals
      <4> QED
        BY <4>1, <4>2
    <3> QED
      BY <3>1, <3>2, <3>3, <3>4
  <2>6. Processes'
    <3>1. \A m \in Children : m \in alive' => effect'[Launch[m]] = "running"
      BY <1>0, <2>2, <2>5 DEF Processes
    <3>2. \A m \in Children : serve'[m].pc # "off" <=> effect'[Launch[m]] = "running"
      BY <1>0, <2>2, <2>5 DEF Processes
    <3>3. ASSUME NEW f \in Effects, Level[f] \notin alive' PROVE effect'[f] \in Ended
      <4>1. CASE Level[f] > n
        BY <1>3, <1>9, <4>1
      <4>2. CASE ~(Level[f] > n)
        <5>1. Level[f] \notin alive
          BY <1>5, <2>2, <3>3, <4>2
        <5>2. effect[f] \in Ended /\ f \notin inner
          BY <1>0, <1>2, <1>3, <5>1 DEF Processes
        <5> QED
          BY <1>3, <4>2, <5>2
      <4> QED
        BY <4>1, <4>2
    <3>4. ASSUME NEW m \in Children, m \notin alive'
          PROVE  Held(m)' = {} /\ \A f \in Effects : ask'[m][f] = "none"
      <4>1. m \in Levels /\ m \in Int
        BY Places
      <4>2. CASE m <= n
        <5>1. m \notin alive /\ m # n /\ ~(m > n)
          BY <1>2, <1>5, <2>2, <3>4, <4>1, <4>2
        <5>2. Held(m) = {} /\ \A f \in Effects : ask[m][f] = "none"
          BY <1>0, <5>1 DEF Processes
        <5> QED
          BY <1>3, <2>2, <4>1, <4>2, <5>1, <5>2
      <4>3. CASE ~(m <= n)
        <5>1. m > n
          BY <1>5, <4>1, <4>3
        <5> QED
          BY <1>3, <1>9, <2>2, <4>1, <4>3, <5>1
      <4> QED
        BY <4>2, <4>3
    <3>5. \A m \in Children : serve'[m].pc = "off" =>
            \A f \in Effects : f \notin Settling(m)' /\ f \notin Allowed(m)'
      BY <1>0, <2>2 DEF Processes
    <3> QED
      BY <3>1, <3>2, <3>3, <3>4, <3>5 DEF Processes
  <2>7. KeptByLaunch'
    <3> SUFFICES ASSUME NEW m \in Children, permits'[m] # {} PROVE effect'[Launch[m]] \in InHand
      BY DEF KeptByLaunch
    <3>1. m \in Int
      BY Places, <1>5
    <3>2. permits[m] # {} /\ (m <= n \/ m = n + 1)
      BY <1>5, <2>2, <3>1
    <3> QED
      BY <1>0, <2>5, <3>2 DEF KeptByLaunch, InHand
  <2>8. Finishes'
    <3>1. \A m \in Children : serve'[m].pc = "result" => serve[m].pc = "result"
      BY <2>2
    <3>2. \A m \in Children : m \in alive' => m \in alive
      BY <2>2
    <3> QED
      BY <1>6, <2>3, <3>1, <3>2, FinishesKeep DEF Inv, NoneArrives
  <2>9. Revoked'
    <3>1. 0 \in Levels /\ 0 <= n /\ ~(0 >= n + 1)
      BY <1>5, Places
    <3>2. gate'[0] = gate[0]
      BY <2>1, <3>1 DEF Kill
    <3> QED
      BY <1>4, <3>2, RevokedKeep DEF Inv, Held
  <2>10. Honest'
    <3>1. TrueFrames
      BY <2>3 DEF TrueFrames, NoneArrives
    <3>2. TrueOutcomes
      BY <1>4, Unmoved
    <3> QED
      BY <1>6, <2>4, <3>1, <3>2, HonestKeep DEF Inv, TrueFrames, TrueOutcomes
  <2> QED
    BY <2>6, <2>7, <2>8, <2>9, <2>10 DEF Others
<1> QED
  BY <1>8, <1>9

LEMMA OthersStep ==
  ASSUME Inv, Domains', \A f \in Effects : Protocol(f)', Next
  PROVE  Others'
BY BeginOthers, AdmissionOthers, AdmitOthers, SettledOthers, ResultOthers, TakeOthers,
   ExitOthers, CompleteOthers, EndsOthers, DropOwnOthers, DropKeptOthers, RevokeOthers
   DEF Next, Running, Started, Conversation

(***************************************************************************)
(* The invariant holds in every state                                      *)
(***************************************************************************)
LEMMA InvInit ==
  ASSUME Init
  PROVE  Inv
<1>0. /\ Named(<<>>, "admit") = {} /\ Named(<<>>, "settled") = {}
      /\ Answered(<<>>) = {} /\ Approved(<<>>) = {} /\ OnceEach(<<>>) /\ AnsweredOnce(<<>>)
  BY DEF Named, Answered, Approved, OnceEach, AnsweredOnce
<1>1. Domains
  <2>1. OpenGate \in Gates /\ NoAsks \in [Effects -> AskStates]
    BY DEF OpenGate, Gates, NoAsks, AskStates
  <2>2. <<>> \in Seq(Frames) /\ <<>> \in Seq(Replies)
    BY EmptySeq
  <2>3. alive \subseteq Levels /\ 0 \in alive /\ reader \subseteq alive
    BY Places DEF Init
  <2> QED
    BY <2>1, <2>2, <2>3, TalkTypes DEF Domains, Init, EffectStates, Outcomes
<1>2. /\ \A n \in Children : /\ Requested(n) = {} /\ Settling(n) = {} /\ Replied(n) = {}
                             /\ Allowed(n) = {} /\ Served(n) = {} /\ permits[n] = {}
                             /\ serve[n].pc = "off" /\ Content(n) = {}
      /\ \A n \in Levels : Held(n) = {} /\ \A e \in Effects : ask[n][e] = "none"
      /\ \A e \in Effects : effect[e] = "idle" /\ outcome[e] = "none"
  BY <1>0 DEF Init, Requested, Settling, Replied, Allowed, Served, Held, OpenGate, NoAsks, Content
<1>3. PipesOnce
  BY <1>0 DEF Init, PipesOnce
<1>4. ASSUME NEW e \in Effects PROVE Protocol(e)
  <2>1. Placed(e) /\ RequestedOnce(e) /\ ServedOnce(e) /\ RepliedOnce(e)
    BY <1>2, Places DEF Placed, RequestedOnce, ServedOnce, RepliedOnce
  <2>2. GrantedOnce(e) /\ HeldAbove(e)
    BY <1>2, Places DEF GrantedOnce, HeldAbove
  <2>3. Forwarded(e) /\ Own(e)
    BY <1>2, Places DEF Forwarded, Own, Asks, InHand
  <2> QED
    BY <2>1, <2>2, <2>3 DEF Protocol
<1>5. Processes
  BY <1>2, Places DEF Init, Processes, Ended
<1>6. KeptByLaunch /\ Finishes
  BY <1>2 DEF KeptByLaunch, Finishes
<1>7. Revoked
  BY DEF Init, Revoked
<1>8. Honest
  BY <1>2, Places DEF Honest, Quiet, Truth, Asks
<1> QED
  BY <1>1, <1>3, <1>4, <1>5, <1>6, <1>7, <1>8 DEF Inv

LEMMA InvStep ==
  ASSUME Inv, [Next]_vars
  PROVE  Inv'
<1>1. CASE Next
  <2>1. Domains'
    BY <1>1, DomainsStep DEF Inv
  <2>2. PipesOnce' /\ \A f \in Effects : Protocol(f)'
    BY <1>1, ProtocolStep DEF Inv
  <2>3. Others'
    BY <1>1, <2>1, <2>2, OthersStep
  <2> QED
    BY <2>1, <2>2, <2>3 DEF Inv, Others
<1>2. CASE UNCHANGED vars
  <2>0. /\ gate' = gate /\ ask' = ask /\ effect' = effect /\ alive' = alive /\ reader' = reader
        /\ serve' = serve /\ permits' = permits /\ up' = up /\ down' = down
        /\ outcome' = outcome /\ ack' = ack /\ orphaned' = orphaned
    BY <1>2 DEF vars, pipeVars, historyVars
  <2>1. Domains'
    BY <2>0 DEF Inv, Domains
  <2>2. ASSUME NEW f \in Effects PROVE Protocol(f)'
    <3>1. Rests(f)
      BY <2>0, Stays, FadeSame DEF Rests, FateSame
    <3> QED
      BY <3>1, RestsKeeps DEF Inv
  <2>3. PipesOnce'
    BY <2>0, Stays DEF Inv, PipesOnce
  <2>4. \A f \in Effects : /\ AskSame(f) /\ HeldSame(f) /\ ServedSame(f) /\ RepliedSame(f)
                           /\ RequestedSame(f) /\ SettlingSame(f)
    BY <2>0, Stays
  <2>5. \A f \in Effects : Course(f) /\ QuietKept(f)
    BY <2>0, <2>4, Unmoved, FadeSame, QuietFades
  <2>6. Local
    BY <2>0, <2>4 DEF Local, AskSame, HeldSame, SettlingSame, RepliedSame
  <2>7. Others'
    BY <2>0, <2>1, <2>2, <2>5, <2>6, Unmoved, OthersKeep
  <2> QED
    BY <2>1, <2>2, <2>3, <2>7 DEF Inv, Others
<1> QED
  BY <1>1, <1>2

LEMMA InvHolds == Spec => []Inv
<1>1. Init => Inv
  BY InvInit
<1>2. Inv /\ [Next]_vars => Inv'
  BY InvStep
<1> QED
  BY <1>1, <1>2, PTL DEF Spec

\* The variables stay in their domains, and native keeps permits for a child
\* only while the launch of that child holds its own.
THEOREM TypeCorrect == Spec => []TypeOK
<1>1. Inv => TypeOK
  BY TypeSplit DEF Inv
<1> QED
  BY <1>1, InvHolds, PTL

\* An effect in progress is counted by every gate between the host and its
\* process, wherever frames and replies are under way: an empty gate of the
\* host means that nothing runs in the chain.
THEOREM GatesCorrect == Spec => []EveryGateCounts
<1>1. ASSUME Inv PROVE EveryGateCounts
  <2> SUFFICES ASSUME NEW e \in Effects, InProgress(e), NEW n \in 0 .. Level[e]
               PROVE  e \in gate[n].outstanding
    BY DEF EveryGateCounts
  <2>1. /\ Level[e] \in Levels /\ n \in Levels /\ n <= Level[e]
    BY Places DEF Levels
  <2>2. e \in Held(Level[e]) /\ Protocol(e)
    BY <1>1 DEF InProgress, Inv, Protocol, Own, InHand
  <2> QED
    BY <2>1, <2>2 DEF Protocol, HeldAbove, Held
<1> QED
  BY <1>1, InvHolds, PTL

\* No effect of any process of the chain is in progress after a revocation
\* that its acknowledgement did not list: what a pipe held when the host's
\* gate closed can only release a permit, never start an effect.
THEOREM AckCorrect == Spec => []AckCoversEffects
<1>1. ASSUME Inv PROVE AckCoversEffects
  <2> SUFFICES ASSUME ack.sent, NEW e \in Effects, InProgress(e)
               PROVE  e \in ack.outstanding
    BY DEF AckCoversEffects
  <2>1. Level[e] \in Levels /\ 0 \in Levels /\ 0 <= Level[e]
    BY Places
  <2>2. e \in Held(Level[e]) /\ Protocol(e)
    BY <1>1 DEF InProgress, Inv, Protocol, Own, InHand
  <2>3. e \in Held(0)
    BY <2>1, <2>2 DEF Protocol, HeldAbove
  <2> QED
    BY <1>1, <2>3 DEF Inv, Revoked
<1> QED
  BY <1>1, InvHolds, PTL

\* The host reports an effect completed only when it completed in its process,
\* however many processes passed the news on, and not dispatched only when it
\* never ran.
THEOREM OutcomesCorrect == Spec => []OutcomesHonest
<1>1. Inv => OutcomesHonest
  BY DEF Inv, Honest, Truth, NotRun, OutcomesHonest
<1> QED
  BY <1>1, InvHolds, PTL

(***************************************************************************)
(* The order of what is heard of effects                                   *)
(***************************************************************************)
\* No admission lost its task and no launch was dropped.
Orderly ==
  /\ orphaned = {}
  /\ \A e \in Effects : Launches(e) # {} => effect[e] \notin {"dropping", "dropped"}

\* An admission that is anywhere on its way is waited for in each process below.
InTransit(e) ==
  /\ \A m \in Levels : ask[m][e] \notin {"orphan", "cleared"}
  /\ \A m, k \in Levels : ask[m][e] \in Asks /\ m < k /\ k <= Level[e] => ask[k][e] = "waiting"
  /\ \A m \in Children, k \in Levels :
       e \in Requested(m) \union Served(m) \union Replied(m) /\ m <= k /\ k <= Level[e] =>
         ask[k][e] = "waiting"

\* An effect is begun inside another of its process, or under the launch of it.
BegunInside(e) ==
  effect[e] # "idle" /\ Parent[e] # NoEffect =>
    /\ Parent[e] # e
    /\ Level[Parent[e]] = Level[e] \/ (Level[e] > 0 /\ Parent[e] = Launch[Level[e]])
    /\ effect[Parent[e]] \notin {"idle", "asking", "refused", "abandoned"}

\* It ends before the effect it is inside of.
EndsInside(e) ==
  Parent[e] # NoEffect /\ Level[Parent[e]] = Level[e] =>
    /\ effect[e] \in {"asking", "running"} => effect[Parent[e]] = "running"
    /\ effect[e] = "dropping" => effect[Parent[e]] \in InHand

\* A permit is kept while the child uses it, or is about to, or has settled it.
Awaited(e) ==
  \A n \in Children : e \in permits[n] =>
    e \in Held(n) \/ ask[n][e] = "granted" \/ e \in Allowed(n) \/ e \in Settling(n)

\* A pipe has the settlements of inner effects if it has that of the outer one,
\* and has them before it.
SettledInside(e) ==
  \A n \in Children : e \in permits[n] /\ Parent[e] \in Settling(n) => e \in Settling(n)
InnerFirst(s) ==
  \A i, j \in 1 .. Len(s) :
    i < j /\ s[i].type = "settled" /\ s[j].type = "settled" => Parent[s[j].e] # s[i].e

AllInnerFirst == \A n \in Children : InnerFirst(up[n])
AllBegunInside == \A e \in Effects : BegunInside(e)
Sequenced ==
  /\ \A e \in Effects : InTransit(e) /\ EndsInside(e) /\ Awaited(e) /\ SettledInside(e)
  /\ AllInnerFirst
InOrder == AllBegunInside /\ (Orderly => Sequenced)

\* What an effect can turn to in a step.
Turns(e) ==
  \/ effect'[e] = effect[e]
  \/ effect[e] = "idle" /\ effect'[e] \in {"asking", "refused"}
  \/ effect[e] = "asking" /\ effect'[e] \in {"running", "refused", "abandoned", "killed"}
  \/ effect[e] = "running" /\ effect'[e] \in {"dropping", "completed", "killed"}
  \/ effect[e] = "dropping" /\ effect'[e] \in {"dropped", "killed"}

\* Effects only begin in Begin.
Advances(e) == Turns(e) /\ (effect[e] = "idle" => effect'[e] = "idle")

LEMMA AdmissionTurns ==
  ASSUME Inv, NEW n \in Levels, NEW e \in Effects, Admissions(n, e)
  PROVE  \A f \in Effects : Advances(f)
<1>0. Domains /\ Protocol(e)
  BY DEF Inv
<1>1. Level[e] = n => effect[e] = "asking"
  BY <1>0 DEF Protocol, Own, Admissions, Enter, TakeRefusal, ControlLost, Asks
<1>2. \/ effect' = effect
      \/ Level[e] = n /\ effect' = [effect EXCEPT ![e] = "refused"]
      \/ Level[e] = n /\ effect' = [effect EXCEPT ![e] = "running"]
  BY DEF Admissions, Enter, TakeRefusal, ControlLost, Refuse, Grant
<1>3. effect \in [Effects -> EffectStates]
  BY <1>0 DEF Domains
<1> QED
  BY <1>1, <1>2, <1>3 DEF Advances, Turns

LEMMA EndTurns ==
  ASSUME Inv, NEW e \in Effects, Started(e)
  PROVE  \A f \in Effects : Advances(f)
<1>0. Domains /\ effect \in [Effects -> EffectStates]
  BY DEF Inv, Domains
<1>1. CASE Complete(e)
  BY <1>0, <1>1 DEF Complete, Advances, Turns
<1>2. CASE DropOwn(e)
  BY <1>0, <1>2 DEF DropOwn, Advances, Turns
<1>3. CASE EndsEarly(e)
  <2>1. PICK inner \in SUBSET Effects, killed \in BOOLEAN : EndsWith(e, inner, killed)
    BY <1>0, <1>3, EndsShape
  <2> SUFFICES ASSUME NEW f \in Effects PROVE Advances(f)
    OBVIOUS
  <2>2. f \in inner => Level[f] = Level[e]
    BY <2>1 DEF EndsWith
  <2>3. CASE f \in inner
    <3>1. effect'[f] = CASE effect[f] = "running" -> "dropping"
                         [] effect[f] = "asking" -> "abandoned"
                         [] OTHER -> effect[f]
      BY <2>1, <2>3 DEF EndsWith
    <3> QED
      BY <3>1 DEF Advances, Turns
  <2>4. CASE f \notin inner /\ ~(killed /\ Level[f] > Level[e])
    <3>1. effect'[f] = effect[f]
      BY <2>1, <2>4 DEF EndsWith
    <3> QED
      BY <3>1 DEF Advances, Turns
  <2>5. CASE killed /\ Level[f] > Level[e]
    <3>1. /\ effect'[f] = "idle" <=> effect[f] = "idle"
          /\ effect'[f] = effect[f] \/ (effect[f] \notin Ended /\ effect'[f] = "killed")
      BY <2>1, <2>5 DEF EndsWith
    <3>2. effect[f] \in EffectStates
      BY <1>0
    <3> QED
      BY <3>1, <3>2 DEF Advances, Turns, Ended, EffectStates
  <2> QED
    BY <2>3, <2>4, <2>5
<1> QED
  BY <1>1, <1>2, <1>3 DEF Started

LEMMA TurnsStep ==
  ASSUME Inv, Next
  PROVE  \/ \E e \in Effects : Begin(e)
         \/ \A f \in Effects : Advances(f)
<1>1. effect' = effect => \A f \in Effects : Advances(f)
  BY DEF Advances, Turns
<1>2. ASSUME NEW n \in Children, Conversation(n) PROVE effect' = effect
  BY <1>2 DEF Conversation, ServeAdmit, ServeSettled, ServeResult, TakeReply, Exit
<1>3. ASSUME NEW n \in Children, NEW e \in Effects, DropKept(n, e) PROVE effect' = effect
  BY <1>3 DEF DropKept
<1>4. Revoke => effect' = effect
  BY DEF Revoke
<1> QED
  BY <1>1, <1>2, <1>3, <1>4, AdmissionTurns, EndTurns DEF Next, Running

LEMMA BegunStep ==
  ASSUME Inv, AllBegunInside, Next
  PROVE  AllBegunInside'
<1> DEFINE Active == {"running", "dropping", "completed", "dropped", "killed"}
<1>0. \A f \in Effects : effect[f] \in EffectStates
  BY DEF Inv, Domains
<1>1. Active = EffectStates \ {"idle", "asking", "refused", "abandoned"}
  BY DEF EffectStates, Finals
<1>2. Parent \in [Effects -> Effects \union {NoEffect}] /\ Domains /\ NoEffect \notin Effects
  BY RoleAssumption DEF Inv
<1>3. \A f \in Effects : Turns(f) /\ effect[f] \in Active => effect'[f] \in Active
  BY DEF Turns
<1>4. CASE \A f \in Effects : Advances(f)
  <2> SUFFICES ASSUME NEW e \in Effects, effect'[e] # "idle", Parent[e] # NoEffect
               PROVE  BegunInside(e)'
    BY DEF AllBegunInside, BegunInside
  <2>1. effect[e] # "idle" /\ Parent[e] \in Effects
    BY <1>2, <1>4 DEF Advances
  <2>2. effect[Parent[e]] \in Active /\ BegunInside(e)
    BY <1>0, <1>1, <2>1 DEF AllBegunInside, BegunInside
  <2>3. effect'[Parent[e]] \in Active
    BY <1>3, <1>4, <2>1, <2>2 DEF Advances
  <2> QED
    BY <1>1, <2>1, <2>2, <2>3 DEF BegunInside
<1>5. CASE \E b \in Effects : Begin(b)
  <2>0. PICK b \in Effects : Begin(b)
    BY <1>5
  <2>1. /\ effect[b] = "idle" /\ Level[b] \in alive
        /\ effect' \in {[effect EXCEPT ![b] = "refused"], [effect EXCEPT ![b] = "asking"]}
    BY <2>0 DEF Begin
  <2>2. \A f \in Effects : f # b => effect'[f] = effect[f]
    BY <1>2, <2>1 DEF Domains
  <2> SUFFICES ASSUME NEW e \in Effects, effect'[e] # "idle", Parent[e] # NoEffect
               PROVE  BegunInside(e)'
    BY DEF AllBegunInside, BegunInside
  <2>3. PICK g \in Effects : g = Parent[e]
    BY <1>2
  <2>4. CASE e # b
    <3>1. BegunInside(e) /\ effect[g] \in Active
      BY <1>0, <1>1, <2>2, <2>3, <2>4 DEF AllBegunInside, BegunInside
    <3>2. effect'[g] \in Active
      BY <2>1, <2>2, <3>1
    <3> QED
      BY <1>1, <2>2, <2>3, <2>4, <3>1, <3>2 DEF BegunInside
  <2>5. CASE e = b
    <3>1. \/ Level[g] = Level[b] /\ effect[g] = "running"
          \/ Level[b] > 0 /\ g = Launch[Level[b]]
      BY <2>0, <2>3, <2>5 DEF Begin
    <3>2. CASE Level[g] = Level[b] /\ effect[g] = "running"
      <4>1. g # b /\ effect'[g] = "running"
        BY <2>1, <2>2, <3>2
      <4> QED
        BY <2>3, <2>5, <3>2, <4>1 DEF BegunInside
    <3>3. CASE Level[b] > 0 /\ g = Launch[Level[b]]
      <4>1. PICK n \in Levels : n = Level[b]
        BY Places
      <4>2. n \in Children
        BY <3>3, <4>1, Places
      <4>3. effect[g] = "running" /\ g # b
        <5>1. Level[Launch[n]] = n - 1 /\ n - 1 # n
          BY <4>2, Places
        <5> QED
          BY <2>1, <3>3, <4>1, <4>2, <5>1 DEF Inv, Processes
      <4> QED
        BY <2>2, <2>3, <2>5, <3>3, <4>3 DEF BegunInside
    <3> QED
      BY <3>1, <3>2, <3>3
  <2> QED
    BY <2>4, <2>5
<1> QED
  BY <1>4, <1>5, TurnsStep

LEMMA Nesting ==
  ASSUME NEW e \in Effects, NEW f \in Effects
  PROVE  Parent[f] = e \/ Under(Parent[f], e) => Under(f, e)
<1>1. ASSUME Parent[f] = e PROVE Under(f, e)
  BY <1>1 DEF Under, Enclosed
<1>2. ASSUME Under(Parent[f], e) PROVE Under(f, e)
  BY <1>2 DEF Under, Enclosed
<1> QED
  BY <1>1, <1>2

\* What ends early where no admission and no launch is lost.
EndsQuietly(e, inner) ==
  /\ e \in inner
  /\ \A f \in Effects :
       /\ effect'[f] = IF f \in inner /\ effect[f] = "running" THEN "dropping" ELSE effect[f]
       /\ AskSame(f)
       /\ Parent[f] \in inner /\ Level[f] = Level[Parent[f]] => f \in inner
  /\ \A f \in inner : Level[f] = Level[e] /\ effect[f] # "asking"
  /\ UNCHANGED <<gate, alive, reader, serve, permits, up, down>>

LEMMA EndsCalm ==
  ASSUME Inv, NEW e \in Effects, EndsEarly(e), Orderly'
  PROVE  \E inner \in SUBSET Effects : EndsQuietly(e, inner)
<1>0. Domains /\ \A f \in Effects : Protocol(f)
  BY DEF Inv
<1>1. PICK inner \in SUBSET Effects, killed \in BOOLEAN : EndsWith(e, inner, killed)
  BY <1>0, EndsShape
<1>2. /\ inner = {f \in Effects : Level[f] = Level[e] /\ (f = e \/ Under(f, e))}
      /\ killed = (\E f \in inner : effect[f] = "running" /\ Launches(f) # {})
  BY <1>1 DEF EndsWith
<1>3. ~killed
  <2>1. ASSUME killed PROVE FALSE
    <3>1. PICK f \in inner : effect[f] = "running" /\ Launches(f) # {}
      BY <1>2, <2>1
    <3>2. effect'[f] = CASE effect[f] = "running" -> "dropping"
                         [] effect[f] = "asking" -> "abandoned"
                         [] OTHER -> effect[f]
      BY <1>1 DEF EndsWith
    <3>3. effect'[f] = "dropping" /\ f \in Effects
      BY <3>1, <3>2
    <3>4. Launches(f)' = Launches(f)
      BY DEF Launches
    <3> QED
      BY <3>1, <3>3, <3>4 DEF Orderly
  <2> QED
    BY <2>1
<1>4. \A f \in inner : ask[Level[e]][f] = "none"
  <2>1. {f \in Effects : ask[Level[e]][f] # "none" /\ f \in inner} \subseteq orphaned'
    BY <1>2 DEF EndsEarly
  <2> QED
    BY <2>1 DEF Orderly
<1>5. ASSUME NEW f \in inner PROVE Level[f] = Level[e] /\ effect[f] # "asking"
  <2>1. Level[f] = Level[e] /\ f \in Effects
    BY <1>2
  <2> QED
    BY <1>0, <1>4, <2>1 DEF Protocol, Own, Asks
<1>6. ASSUME NEW f \in Effects
      PROVE  /\ effect'[f] = IF f \in inner /\ effect[f] = "running" THEN "dropping" ELSE effect[f]
             /\ AskSame(f)
             /\ Parent[f] \in inner /\ Level[f] = Level[Parent[f]] => f \in inner
  <2>1. /\ f \in inner => effect'[f] = CASE effect[f] = "running" -> "dropping"
                                         [] effect[f] = "asking" -> "abandoned"
                                         [] OTHER -> effect[f]
        /\ f \notin inner => effect'[f] = effect[f]
        /\ \A m \in Levels : m # Level[e] => ask'[m][f] = ask[m][f]
        /\ f \notin inner => ask'[Level[e]][f] = ask[Level[e]][f]
        /\ f \in inner =>
             ask'[Level[e]][f] = CASE ask[Level[e]][f] = "waiting" -> IF Level[e] > 0 THEN "orphan" ELSE "none"
                                   [] ask[Level[e]][f] = "orphan" -> "orphan"
                                   [] OTHER -> "none"
    BY <1>1, <1>3 DEF EndsWith
  <2>2. effect'[f] = IF f \in inner /\ effect[f] = "running" THEN "dropping" ELSE effect[f]
    <3>1. CASE f \in inner
      BY <1>5, <2>1, <3>1
    <3>2. CASE f \notin inner
      BY <2>1, <3>2
    <3> QED
      BY <3>1, <3>2
  <2>3. ask'[Level[e]][f] = ask[Level[e]][f]
    <3>1. CASE f \in inner
      BY <1>4, <2>1, <3>1
    <3>2. CASE f \notin inner
      BY <2>1, <3>2
    <3> QED
      BY <3>1, <3>2
  <2>4. Parent[f] \in inner /\ Level[f] = Level[Parent[f]] => f \in inner
    BY <1>2, Nesting
  <2> QED
    BY <2>1, <2>2, <2>3, <2>4 DEF AskSame
<1>7. UNCHANGED <<gate, alive, reader, serve, permits, up, down>> /\ e \in inner
  BY <1>1, <1>2, <1>3 DEF EndsWith
<1> QED
  BY <1>5, <1>6, <1>7 DEF EndsQuietly

LEMMA OrderlyBack ==
  ASSUME Inv, Next, Orderly'
  PROVE  Orderly
<1>0. effect \in [Effects -> EffectStates] /\ \A e \in Effects : Launches(e)' = Launches(e)
  BY DEF Inv, Domains, Launches
<1>1. orphaned \subseteq orphaned'
  <2>1. ASSUME NEW n \in Levels, NEW e \in Effects, Admissions(n, e) PROVE orphaned \subseteq orphaned'
    BY <2>1 DEF Admissions, Enter, TakeRefusal, ControlLost, historyVars
  <2>2. ASSUME NEW n \in Children, Conversation(n) PROVE orphaned' = orphaned
    BY <2>2 DEF Conversation, ServeAdmit, ServeSettled, ServeResult, TakeReply, Exit, historyVars
  <2>3. ASSUME NEW e \in Effects, Begin(e) \/ Complete(e) \/ DropOwn(e) PROVE orphaned' = orphaned
    BY <2>3 DEF Begin, Complete, DropOwn, historyVars
  <2>4. ASSUME NEW e \in Effects, EndsEarly(e) PROVE orphaned \subseteq orphaned'
    BY <2>4 DEF EndsEarly
  <2>5. ASSUME NEW n \in Children, NEW e \in Effects, DropKept(n, e) PROVE orphaned' = orphaned
    BY <2>5 DEF DropKept
  <2>6. Revoke => orphaned' = orphaned
    BY DEF Revoke
  <2> QED
    BY <2>1, <2>2, <2>3, <2>4, <2>5, <2>6 DEF Next, Running, Started
<1>2. \A f \in Effects : effect'[f] = "killed" => effect[f] = "killed"
  <2>1. ASSUME NEW n \in Levels, NEW e \in Effects, Admissions(n, e)
        PROVE  \A f \in Effects : effect'[f] = "killed" => effect[f] = "killed"
    <3>1. effect' \in {effect, [effect EXCEPT ![e] = "refused"], [effect EXCEPT ![e] = "running"]}
      BY <2>1 DEF Admissions, Enter, TakeRefusal, ControlLost, Refuse, Grant
    <3> QED
      BY <1>0, <3>1
  <2>2. ASSUME NEW n \in Children, Conversation(n) PROVE effect' = effect
    BY <2>2 DEF Conversation, ServeAdmit, ServeSettled, ServeResult, TakeReply, Exit
  <2>3. ASSUME NEW e \in Effects, Begin(e) \/ Complete(e) \/ DropOwn(e)
        PROVE  \A f \in Effects : effect'[f] = "killed" => effect[f] = "killed"
    <3>1. \E state \in {"refused", "asking", "completed", "dropped"} :
            effect' = [effect EXCEPT ![e] = state]
      BY <2>3 DEF Begin, Complete, DropOwn
    <3> QED
      BY <1>0, <3>1
  <2>4. ASSUME NEW e \in Effects, EndsEarly(e)
        PROVE  \A f \in Effects : effect'[f] = "killed" => effect[f] = "killed"
    BY <2>4, EndsCalm DEF EndsQuietly
  <2>5. ASSUME NEW n \in Children, NEW e \in Effects, DropKept(n, e) PROVE effect' = effect
    BY <2>5 DEF DropKept
  <2>6. Revoke => effect' = effect
    BY DEF Revoke
  <2> QED
    BY <2>1, <2>2, <2>3, <2>4, <2>5, <2>6 DEF Next, Running, Started
<1>3. ASSUME NEW e \in Effects, Launches(e) # {}, effect[e] \in {"dropping", "dropped"} PROVE FALSE
  <2>1. effect'[e] \notin {"dropping", "dropped"}
    BY <1>0, <1>3 DEF Orderly
  <2>2. Turns(e)
    <3>1. CASE \E b \in Effects : Begin(b)
      <4>1. PICK b \in Effects : Begin(b)
        BY <3>1
      <4>2. effect[b] = "idle" /\ \E state \in EffectStates : effect' = [effect EXCEPT ![b] = state]
        BY <4>1 DEF Begin, EffectStates, Finals
      <4> QED
        BY <1>0, <1>3, <4>2 DEF Turns
    <3> QED
      BY <3>1, TurnsStep DEF Advances
  <2> QED
    BY <1>2, <1>3, <2>1, <2>2 DEF Turns
<1> QED
  BY <1>1, <1>3 DEF Orderly

LEMMA TransitAsking ==
  ASSUME Inv, NEW e \in Effects, InTransit(e)
  PROVE  /\ \A m \in Levels : ask[m][e] \in Asks => effect[e] = "asking"
         /\ \A m \in Children :
              e \in Requested(m) \/ e \in Served(m) \/ e \in Replied(m) => effect[e] = "asking"
<1>0. Protocol(e) /\ Level[e] \in Levels
  BY Places DEF Inv
<1>1. effect[e] = "asking" <=> ask[Level[e]][e] \in Asks
  BY <1>0 DEF Protocol, Own
<1>2. "waiting" \in Asks
  BY DEF Asks
<1>3. ASSUME NEW m \in Levels, ask[m][e] \in Asks PROVE effect[e] = "asking"
  <2>1. m <= Level[e]
    BY <1>0, <1>3 DEF Protocol, Placed, Asks
  <2>2. m = Level[e] \/ m < Level[e]
    BY <2>1, Places
  <2>3. Level[e] <= Level[e]
    BY Places
  <2> QED
    BY <1>0, <1>1, <1>2, <1>3, <2>2, <2>3 DEF InTransit
<1>4. ASSUME NEW m \in Children, e \in Requested(m) \/ e \in Served(m) \/ e \in Replied(m)
      PROVE  effect[e] = "asking"
  <2>1. m <= Level[e] /\ Level[e] <= Level[e]
    BY <1>0, <1>4, Places DEF Protocol, Placed
  <2> QED
    BY <1>0, <1>1, <1>2, <1>4, <2>1 DEF InTransit
<1> QED
  BY <1>3, <1>4

LEMMA HeldByAll ==
  ASSUME Inv, NEW e \in Effects, effect[e] \in InHand
  PROVE  /\ \A n \in Levels : n <= Level[e] => e \in Held(n)
         /\ \A n \in Children : e \notin Settling(n) /\ (n <= Level[e] => e \in permits[n])
<1>0. Protocol(e) /\ Level[e] \in Levels
  BY Places DEF Inv
<1>1. e \in Held(Level[e])
  BY <1>0 DEF Protocol, Own
<1>2. \A n \in Levels : n <= Level[e] => e \in Held(n)
  BY <1>0, <1>1 DEF Protocol, HeldAbove
<1>3. ASSUME NEW n \in Children PROVE e \notin Settling(n) /\ (n <= Level[e] => e \in permits[n])
  <2>1. n \in Levels
    BY Places
  <2>2. n <= Level[e] => e \in permits[n] /\ e \notin Settling(n)
    BY <1>0, <1>2, <2>1 DEF Protocol, HeldAbove
  <2>3. e \in Settling(n) => n <= Level[e]
    BY <1>0 DEF Protocol, Placed
  <2> QED
    BY <2>2, <2>3
<1> QED
  BY <1>2, <1>3

LEMMA OuterHeld ==
  ASSUME Inv, NEW e \in Effects, BegunInside(e), EndsInside(e),
         effect[e] \in {"asking", "running"}, NEW g \in Effects, g = Parent[e]
  PROVE  /\ effect[g] = "running" /\ g # e
         /\ \A n \in Children : g \notin Settling(n) /\ (n <= Level[g] => g \in permits[n])
         /\ Level[g] = Level[e] \/ (Level[e] \in Children /\ g = Launch[Level[e]])
<1>0. Domains /\ Processes /\ NoEffect \notin Effects
  BY RoleAssumption DEF Inv
<1>1. g # e /\ (Level[g] = Level[e] \/ (Level[e] > 0 /\ g = Launch[Level[e]]))
  BY <1>0 DEF BegunInside
<1>2. PICK n \in Levels : n = Level[e]
  BY Places
<1>3. n > 0 => n \in Children
  BY <1>2, Places
<1>4. effect[g] = "running"
  <2>1. CASE Level[g] = Level[e]
    BY <1>0, <2>1 DEF EndsInside
  <2>2. CASE Level[e] > 0 /\ g = Launch[Level[e]]
    <3>1. n \in alive
      BY <1>0, <1>2 DEF Processes, Ended, Finals
    <3> QED
      BY <1>0, <1>2, <1>3, <2>2, <3>1 DEF Processes
  <2> QED
    BY <1>1, <2>1, <2>2
<1>5. effect[g] \in InHand
  BY <1>4 DEF InHand
<1> QED
  BY <1>1, <1>2, <1>3, <1>4, <1>5, HeldByAll

LEMMA ExplainedByOrder ==
  ASSUME Inv, InOrder
  PROVE  BreachExplained
<1> SUFFICES ASSUME NEW n \in alive \ {0}, Breach(n), Orderly
             PROVE  FALSE
  <2>1. Orderly \/ orphaned # {} \/ \E e \in Effects : Launches(e) # {} /\ effect[e] \in {"dropping", "dropped"}
    BY DEF Orderly
  <2> QED
    BY <2>1 DEF BreachExplained
<1>0. Domains /\ Sequenced /\ AllBegunInside /\ \A f \in Effects : Protocol(f)
  BY DEF Inv, InOrder
<1>1. n \in Children /\ n \in Int /\ n > 0
  BY <1>0, Places DEF Domains
<1>2. PICK s \in Seq(Frames) : s = up[n] /\ s # <<>> /\ Head(s) = s[1] /\ 1 \in 1 .. Len(s)
  <2>1. up[n] \in Seq(Frames) /\ up[n] # <<>>
    BY <1>0, <1>1 DEF Breach, Domains
  <2> QED
    BY <2>1, ContentOf
<1>3. s[1] \in Frames
  BY <1>2, ContentOf
<1>4. CASE s[1].type = "admit" /\ ~LineageOf(n, s[1].e)
  <2>1. PICK e \in Effects : e = s[1].e
    BY <1>3, <1>4, FrameTypes
  <2>2. e \in Requested(n)
    BY <1>2, <1>4, <2>1 DEF Requested, Named
  <2>3. /\ effect[e] = "asking" /\ n <= Level[e] /\ BegunInside(e) /\ EndsInside(e)
    <3>1. InTransit(e) /\ BegunInside(e) /\ EndsInside(e)
      BY <1>0 DEF AllBegunInside, Sequenced
    <3>2. n <= Level[e]
      BY <1>0, <1>1, <2>2 DEF Protocol, Placed
    <3>3. effect[e] = "asking"
      BY <1>1, <2>2, <3>1, TransitAsking
    <3> QED
      BY <3>1, <3>2, <3>3
  <2>4. Level[e] > 0 /\ Level[e] \in Int
    <3>1. PICK k \in Levels : k = Level[e] /\ k \in Int
      BY Places
    <3> QED
      BY <1>1, <2>3, <3>1
  <2>5. PICK g \in Effects : g = Parent[e]
    BY <2>4, RoleAssumption
  <2>6. /\ n <= Level[g] => g \in permits[n]
        /\ Level[g] = Level[e] \/ (Level[e] \in Children /\ g = Launch[Level[e]])
    BY <1>1, <2>3, <2>5, OuterHeld
  <2>7. ~(n <= Level[g]) /\ g # Launch[n]
    BY <1>4, <2>1, <2>5, <2>6 DEF LineageOf
  <2>8. Level[e] \in Children /\ g = Launch[Level[e]] /\ Level[e] # n
    BY <2>3, <2>6, <2>7
  <2>9. Level[g] = Level[e] - 1
    BY <2>8, Places
  <2> QED
    BY <1>1, <2>3, <2>4, <2>7, <2>8, <2>9
<1>5. CASE s[1].type = "settled" /\ ~Settleable(n, s[1].e)
  <2>1. PICK e \in Effects : e = s[1].e
    BY <1>3, <1>5, FrameTypes
  <2>2. e \in Settling(n)
    BY <1>2, <1>5, <2>1 DEF Settling, Named
  <2>3. e \in permits[n]
    BY <1>0, <1>1, <2>2 DEF Protocol, HeldAbove
  <2>4. PICK f \in permits[n] : Parent[f] = e
    BY <1>5, <2>1, <2>3 DEF Settleable
  <2>5. f \in Effects
    BY <1>0, <1>1, <2>4 DEF Domains
  <2>6. f \in Settling(n) /\ effect[f] # "idle" /\ Parent[f] # f
    <3>1. effect[f] # "idle" /\ Parent[f] # NoEffect
      BY <1>0, <1>1, <2>4, <2>5, RoleAssumption DEF Protocol, Placed
    <3> QED
      BY <1>0, <1>1, <2>2, <2>4, <2>5, <3>1 DEF Sequenced, SettledInside, AllBegunInside, BegunInside
  <2>7. PICK j \in 1 .. Len(s) : s[j].type = "settled" /\ s[j].e = f
    BY <1>2, <2>6 DEF Settling, Named
  <2>8. 1 < j
    <3>1. j # 1
      BY <2>1, <2>4, <2>6, <2>7
    <3> QED
      BY <3>1
  <2>9. InnerFirst(s)
    BY <1>0, <1>1, <1>2 DEF Sequenced, AllInnerFirst
  <2> QED
    BY <1>2, <1>5, <2>1, <2>4, <2>7, <2>8, <2>9 DEF InnerFirst
<1> QED
  BY <1>2, <1>4, <1>5 DEF Breach

LEMMA FirstChange ==
  ASSUME NEW s \in Seq(Frames), InnerFirst(s)
  PROVE  /\ s # <<>> => InnerFirst(Tail(s))
         /\ \A frame \in Frames :
              (frame.type = "settled" => Parent[frame.e] \notin Named(s, "settled")) =>
                InnerFirst(Append(s, frame))
<1>0. Len(s) \in Nat
  BY LenProperties
<1>1. ASSUME s # <<>> PROVE InnerFirst(Tail(s))
  <2>1. /\ Len(s) \in Nat \ {0} /\ Len(Tail(s)) = Len(s) - 1
        /\ \A i \in 1 .. Len(Tail(s)) : Tail(s)[i] = s[i + 1]
    BY <1>1, HeadTailProperties, LenProperties, EmptySeq
  <2>2. ASSUME NEW i \in 1 .. Len(Tail(s)), NEW j \in 1 .. Len(Tail(s)), i < j,
               Tail(s)[i].type = "settled", Tail(s)[j].type = "settled"
        PROVE  Parent[Tail(s)[j].e] # Tail(s)[i].e
    <3>1. i + 1 \in 1 .. Len(s) /\ j + 1 \in 1 .. Len(s) /\ i + 1 < j + 1
      BY <2>1, <2>2
    <3>2. Tail(s)[i] = s[i + 1] /\ Tail(s)[j] = s[j + 1]
      BY <2>1
    <3> QED
      BY <2>2, <3>1, <3>2 DEF InnerFirst
  <2> QED
    BY <2>2 DEF InnerFirst
<1>2. ASSUME NEW frame \in Frames,
             frame.type = "settled" => Parent[frame.e] \notin Named(s, "settled")
      PROVE  InnerFirst(Append(s, frame))
  <2> DEFINE t == Append(s, frame)
  <2>1. /\ Len(t) = Len(s) + 1 /\ t[Len(s) + 1] = frame
        /\ \A i \in 1 .. Len(s) : t[i] = s[i]
    BY AppendProperties, LenProperties
  <2> HIDE DEF t
  <2>2. ASSUME NEW i \in 1 .. Len(t), NEW j \in 1 .. Len(t), i < j,
               t[i].type = "settled", t[j].type = "settled"
        PROVE  Parent[t[j].e] # t[i].e
    <3>1. i \in 1 .. Len(s) /\ (j \in 1 .. Len(s) \/ j = Len(s) + 1)
      BY <1>0, <2>1, <2>2
    <3>2. CASE j \in 1 .. Len(s)
      BY <2>1, <2>2, <3>1, <3>2 DEF InnerFirst
    <3>3. CASE j = Len(s) + 1
      <4>1. t[i] = s[i] /\ t[j] = frame /\ s[i] \in Frames /\ s[i].type = "settled"
        BY <2>1, <2>2, <3>1, <3>3, ContentOf
      <4>2. s[i].e \in Effects
        BY <4>1, FrameTypes
      <4>3. s[i].e \in Named(s, "settled")
        BY <3>1, <4>1, <4>2 DEF Named
      <4> QED
        BY <1>2, <2>2, <4>1, <4>3
    <3> QED
      BY <3>1, <3>2, <3>3
  <2> QED
    BY <2>2 DEF InnerFirst, t
<1> QED
  BY <1>1, <1>2

\* A frame may follow what is in the pipe of process n.
Follows(n, frame) ==
  frame.type = "settled" /\ n \in Children => Parent[frame.e] \notin Settling(n)

LEMMA OrderKept ==
  ASSUME Domains, AllInnerFirst
  PROVE  /\ up' = up => AllInnerFirst'
         /\ \A n \in Levels, frame \in Frames :
              SendUp(n, frame) /\ Follows(n, frame) => AllInnerFirst'
         /\ \A n \in Children : up[n] # <<>> =>
              /\ up' = [up EXCEPT ![n] = Tail(@)] => AllInnerFirst'
              /\ \A frame \in Frames :
                   /\ up' = [m \in Children |->
                        CASE m = n -> Tail(up[n])
                          [] m = n - 1 -> Append(up[m], frame)
                          [] OTHER -> up[m]]
                   /\ Follows(n - 1, frame)
                   => AllInnerFirst'
<1>0. up \in [Children -> Seq(Frames)] /\ \A m \in Children : InnerFirst(up[m])
  BY DEF Domains, AllInnerFirst
<1>1. ASSUME up' = up PROVE AllInnerFirst'
  BY <1>0, <1>1 DEF AllInnerFirst
<1>2. ASSUME NEW n \in Children, NEW frame \in Frames, Follows(n, frame)
      PROVE  InnerFirst(Append(up[n], frame))
  BY <1>0, <1>2, FirstChange DEF Follows, Settling
<1>3. ASSUME NEW n \in Levels, NEW frame \in Frames, SendUp(n, frame), Follows(n, frame)
      PROVE  AllInnerFirst'
  <2>1. CASE n = 0
    BY <1>1, <1>3, <2>1 DEF SendUp
  <2>2. CASE n # 0
    <3>1. n \in Children /\ up' = [up EXCEPT ![n] = Append(up[n], frame)]
      BY <1>3, <2>2, Places DEF SendUp
    <3>2. \A m \in Children : up'[m] = IF m = n THEN Append(up[n], frame) ELSE up[m]
      BY <1>0, <3>1
    <3> QED
      BY <1>0, <1>2, <1>3, <3>1, <3>2 DEF AllInnerFirst
  <2> QED
    BY <2>1, <2>2
<1>4. ASSUME NEW n \in Children, up[n] # <<>> PROVE InnerFirst(Tail(up[n]))
  BY <1>0, <1>4, FirstChange
<1>5. ASSUME NEW n \in Children, up[n] # <<>>, up' = [up EXCEPT ![n] = Tail(@)] PROVE AllInnerFirst'
  <2>1. \A m \in Children : up'[m] = IF m = n THEN Tail(up[n]) ELSE up[m]
    BY <1>0, <1>5
  <2> QED
    BY <1>0, <1>4, <1>5, <2>1 DEF AllInnerFirst
<1>6. ASSUME NEW n \in Children, up[n] # <<>>, NEW frame \in Frames, Follows(n - 1, frame),
             up' = [m \in Children |->
                CASE m = n -> Tail(up[n])
                  [] m = n - 1 -> Append(up[m], frame)
                  [] OTHER -> up[m]]
      PROVE  AllInnerFirst'
  <2>1. \A m \in Children : \/ m = n /\ up'[m] = Tail(up[n])
                            \/ m = n - 1 /\ up'[m] = Append(up[m], frame)
                            \/ up'[m] = up[m]
    BY <1>6
  <2> QED
    BY <1>0, <1>2, <1>4, <1>6, <2>1 DEF AllInnerFirst
<1> QED
  BY <1>1, <1>3, <1>5, <1>6

LEMMA TransitKept ==
  ASSUME NEW e \in Effects, InTransit(e), AskSame(e), ServedSame(e), PipesFade(e)
  PROVE  InTransit(e)'
BY DEF InTransit, AskSame, ServedSame, PipesFade

LEMMA AwaitedKept ==
  ASSUME NEW e \in Effects, Awaited(e), AskSame(e), HeldSame(e), PermitsSame(e),
         RepliedSame(e), SettlingSame(e)
  PROVE  Awaited(e)'
BY Places DEF Awaited, AskSame, HeldSame, PermitsSame, RepliedSame, SettlingSame

LEMMA InsideKept ==
  ASSUME NEW e \in Effects, SettledInside(e), PermitsSame(e), Parent[e] = NoEffect \/ SettlingSame(Parent[e]),
         \A n \in Children : e \in Settling(n) => e \in Settling(n)'
  PROVE  SettledInside(e)'
<1>1. \A n \in Children : NoEffect \notin Settling(n)'
  BY RoleAssumption DEF Settling, Named
<1> QED
  BY <1>1 DEF SettledInside, PermitsSame, SettlingSame

\* The admission of e is over at process n.
LEMMA TransitEnds ==
  ASSUME Domains, NEW e \in Effects, InTransit(e), Placed(e), NEW n \in Levels, n <= Level[e],
         ask[n][e] \in Ready, AskEnds(n, e), RequestedSame(e),
         \/ n = Level[e] /\ ServedSame(e) /\ RepliedSame(e)
         \/ n < Level[e] /\ e \in Served(n + 1) /\ \E ok \in BOOLEAN : Answers(n, e, ok)
  PROVE  InTransit(e)'
<1>0. /\ Level[e] \in Levels /\ \A m \in Levels : m \in Int
      /\ \A m \in Children : m \in Levels
  BY Places
<1>1. ask[n][e] # "waiting" /\ ask'[n][e] = "none" /\ \A m \in Levels : m # n => ask'[m][e] = ask[m][e]
  BY DEF Ready, AskEnds
<1>2. \A m \in Levels : m < n => ask[m][e] \notin Asks
  BY <1>0, <1>1 DEF InTransit
<1>3. \A m \in Children : m <= n => e \notin Requested(m) /\ e \notin Served(m) /\ e \notin Replied(m)
  BY <1>0, <1>1 DEF InTransit
<1>4. \A m \in Levels : ask'[m][e] \notin {"orphan", "cleared"}
  BY <1>1 DEF InTransit
<1>5. ASSUME NEW m \in Levels, NEW k \in Levels, ask'[m][e] \in Asks, m < k, k <= Level[e]
      PROVE  ask'[k][e] = "waiting"
  <2>1. m # n /\ ask[m][e] \in Asks
    BY <1>1, <1>5 DEF Asks
  <2>2. n < m
    BY <1>0, <1>2, <2>1
  <2>3. k # n /\ ask[k][e] = "waiting"
    BY <1>0, <1>5, <2>1, <2>2 DEF InTransit
  <2> QED
    BY <1>1, <2>3
<1>6. ASSUME NEW m \in Children, NEW k \in Levels, m <= k, k <= Level[e],
             e \in Requested(m)' \union Served(m)' \union Replied(m)'
      PROVE  ask'[k][e] = "waiting"
  <2>1. \/ e \in Requested(m) \union Served(m) \union Replied(m)
        \/ m = n + 1 /\ e \in Served(m)
    BY <1>6 DEF RequestedSame, ServedSame, RepliedSame, Answers
  <2>2. n < m
    BY <1>0, <1>3, <2>1
  <2>3. k # n /\ ask[k][e] = "waiting"
    BY <1>0, <1>6, <2>1, <2>2 DEF InTransit
  <2> QED
    BY <1>1, <2>3
<1> QED
  BY <1>4, <1>5, <1>6 DEF InTransit

\* What every step may use.
Ordered == Inv /\ Orderly /\ Sequenced /\ AllBegunInside

LEMMA OrderedParts ==
  ASSUME Ordered, NEW e \in Effects
  PROVE  /\ Domains /\ PipesOnce /\ Processes /\ KeptByLaunch /\ Protocol(e)
         /\ InTransit(e) /\ EndsInside(e) /\ Awaited(e) /\ SettledInside(e) /\ BegunInside(e)
         /\ AllInnerFirst
BY DEF Ordered, Inv, Sequenced, AllBegunInside

LEMMA OrderedPipes == Ordered => Domains /\ PipesOnce /\ Processes /\ KeptByLaunch /\ AllInnerFirst
BY DEF Ordered, Inv, Sequenced

LEMMA BeginOrder ==
  ASSUME Ordered, NEW b \in Effects, Begin(b)
  PROVE  Sequenced'
<1>0. /\ Domains /\ Protocol(b) /\ effect[b] = "idle" /\ Level[b] \in Levels /\ AllInnerFirst
      /\ UNCHANGED <<gate, serve, permits, down>>
  BY Places, OrderedParts DEF Begin
<1>1. /\ effect' \in {[effect EXCEPT ![b] = "refused"], [effect EXCEPT ![b] = "asking"]}
      /\ effect \in [Effects -> EffectStates]
  BY <1>0 DEF Begin, Domains
<1>2. \A f \in Effects : f # b => effect'[f] = effect[f]
  BY <1>1
<1>3. \A f \in Effects : HeldSame(f) /\ ServedSame(f) /\ PermitsSame(f) /\ RepliedSame(f)
  BY <1>0, Stays
<1>4. /\ \A f \in Effects : SettlingSame(f) /\ (f # b => AskSame(f) /\ RequestedSame(f))
      /\ AllInnerFirst' /\ InTransit(b)'
  <2>1. CASE gate[Level[b]].closed
    <3>1. ask' = ask /\ up' = up
      BY <2>1 DEF Begin
    <3>2. \A f \in Effects : RequestedSame(f) /\ SettlingSame(f) /\ AskSame(f)
      BY <3>1, Stays
    <3>3. InTransit(b)'
      BY <1>3, <3>2, OrderedParts, TransitKept, FadeSame
    <3> QED
      BY <1>0, <3>1, <3>2, <3>3, OrderKept
  <2>2. CASE ~gate[Level[b]].closed
    <3>1. SendUp(Level[b], Admit(b)) /\ Follows(Level[b], Admit(b)) /\ UpGains(Level[b], "admit", b)
      BY <1>0, <2>2, FrameTypes, SendUpChange DEF Begin, Request, Follows
    <3>2. \A f \in Effects : SettlingSame(f) /\ (f # b => RequestedSame(f))
      BY <3>1, GainsSame
    <3>3. AllInnerFirst'
      BY <1>0, <3>1, FrameTypes, OrderKept
    <3> DEFINE s == IF Level[b] = 0 THEN "granted" ELSE "waiting"
    <3>4. ask' = [ask EXCEPT ![Level[b]][b] = s]
      BY <2>2 DEF Begin, Request
    <3>5. s \in {"granted", "waiting"} /\ (Level[b] \in Children => s = "waiting")
      BY Places
    <3> HIDE DEF s
    <3>6. /\ ask'[Level[b]][b] = s
          /\ \A m \in Levels : m # Level[b] => ask'[m][b] = ask[m][b]
          /\ \A f \in Effects : f # b => AskSame(f)
      <4>1. PICK n \in Levels : n = Level[b]
        BY <1>0
      <4> QED
        BY <1>0, <3>4, <4>1 DEF Domains, AskSame
    <3>7. /\ \A m \in Levels : ask[m][b] = "none"
          /\ \A m \in Children : b \notin Requested(m) /\ b \notin Served(m) /\ b \notin Replied(m)
      BY <1>0 DEF Protocol, Placed
    <3>8. InTransit(b)'
      <4>1. \A m \in Children : b \in Requested(m)' \union Served(m)' \union Replied(m)' => m = Level[b]
        BY <1>3, <3>1, <3>7 DEF UpGains, ServedSame, RepliedSame
      <4>2. \A m \in Levels : ask'[m][b] \in Asks => m = Level[b]
        BY <3>6, <3>7 DEF Asks
      <4>3. \A m \in Levels : ask'[m][b] \notin {"orphan", "cleared"}
        BY <3>5, <3>6, <3>7
      <4>4. \A k \in Levels : k \in Int
        BY Places
      <4>5. \A k \in Levels : Level[b] <= k /\ k <= Level[b] => k = Level[b]
        BY <1>0, <4>4
      <4> QED
        BY <1>0, <3>5, <3>6, <4>1, <4>2, <4>3, <4>4, <4>5 DEF InTransit
    <3> QED
      BY <3>2, <3>3, <3>6, <3>8
  <2> QED
    BY <2>1, <2>2
<1>5. ASSUME NEW e \in Effects PROVE InTransit(e)'
  <2>1. CASE e # b
    BY <1>3, <1>4, <2>1, OrderedParts, TransitKept, FadeSame
  <2> QED
    BY <1>4, <2>1
<1>6. ASSUME NEW e \in Effects PROVE EndsInside(e)'
  <2> SUFFICES ASSUME NEW g \in Effects, g = Parent[e], Level[g] = Level[e]
               PROVE  /\ effect'[e] \in {"asking", "running"} => effect'[g] = "running"
                      /\ effect'[e] = "dropping" => effect'[g] \in InHand
    BY RoleAssumption DEF EndsInside
  <2>0. Parent[e] # NoEffect /\ EndsInside(e) /\ BegunInside(e)
    BY OrderedParts, RoleAssumption
  <2>1. CASE e = b
    <3>1. \/ effect[g] = "running"
          \/ Level[b] > 0 /\ g = Launch[Level[b]]
      BY <2>0, <2>1 DEF Begin
    <3>2. ~(Level[b] > 0 /\ g = Launch[Level[b]])
      <4>1. PICK n \in Levels : n = Level[b]
        BY <1>0
      <4>2. n > 0 => n \in Children /\ Level[Launch[n]] = n - 1 /\ n - 1 # n
        BY <4>1, Places
      <4> QED
        BY <2>1, <4>1, <4>2
    <3>3. g # b
      BY <1>0, <3>1, <3>2
    <3> QED
      BY <1>1, <1>2, <2>1, <3>1, <3>2, <3>3
  <2>2. CASE e # b
    <3>1. CASE g = b
      <4>1. effect[e] = "idle"
        BY <1>0, <2>0, <3>1 DEF BegunInside
      <4> QED
        BY <1>2, <2>2, <4>1
    <3>2. CASE g # b
      BY <1>2, <2>0, <2>2, <3>2 DEF EndsInside
    <3> QED
      BY <3>1, <3>2
  <2> QED
    BY <2>1, <2>2
<1>7. ASSUME NEW e \in Effects PROVE Awaited(e)'
  <2>1. CASE e = b
    <3>1. \A n \in Children : e \notin permits'[n]
      BY <1>0, <2>1 DEF Protocol, Placed
    <3> QED
      BY <3>1 DEF Awaited
  <2>2. CASE e # b
    BY <1>3, <1>4, <2>2, OrderedParts, AwaitedKept
  <2> QED
    BY <2>1, <2>2
<1>8. ASSUME NEW e \in Effects PROVE SettledInside(e)'
  BY <1>3, <1>4, OrderedParts, InsideKept, RoleAssumption DEF SettlingSame
<1> QED
  BY <1>4, <1>5, <1>6, <1>7, <1>8 DEF Sequenced

LEMMA EndsOrder ==
  ASSUME Ordered, Orderly', NEW b \in Effects, EndsEarly(b)
  PROVE  Sequenced'
<1>1. PICK inner \in SUBSET Effects : EndsQuietly(b, inner)
  BY EndsCalm DEF Ordered
<1>2. /\ \A f \in Effects :
           /\ effect'[f] = IF f \in inner /\ effect[f] = "running" THEN "dropping" ELSE effect[f]
           /\ AskSame(f)
           /\ Parent[f] \in inner /\ Level[f] = Level[Parent[f]] => f \in inner
      /\ \A f \in inner : effect[f] # "asking"
      /\ UNCHANGED <<gate, serve, permits, up, down>>
  BY <1>1 DEF EndsQuietly
<1>3. \A f \in Effects : /\ HeldSame(f) /\ ServedSame(f) /\ PermitsSame(f) /\ RepliedSame(f)
                         /\ RequestedSame(f) /\ SettlingSame(f)
  BY <1>2, Stays
<1>4. ASSUME NEW e \in Effects PROVE InTransit(e)' /\ Awaited(e)' /\ SettledInside(e)'
  <2>1. InTransit(e)'
    BY <1>2, <1>3, OrderedParts, TransitKept, FadeSame
  <2>2. Awaited(e)'
    BY <1>2, <1>3, OrderedParts, AwaitedKept
  <2>3. SettledInside(e)'
    BY <1>3, OrderedParts, InsideKept, RoleAssumption DEF SettlingSame
  <2> QED
    BY <2>1, <2>2, <2>3
<1>5. ASSUME NEW e \in Effects PROVE EndsInside(e)'
  <2> SUFFICES ASSUME NEW g \in Effects, g = Parent[e], Level[g] = Level[e]
               PROVE  /\ effect'[e] \in {"asking", "running"} => effect'[g] = "running"
                      /\ effect'[e] = "dropping" => effect'[g] \in InHand
    BY RoleAssumption DEF EndsInside
  <2>1. /\ effect[e] \in {"asking", "running"} => effect[g] = "running"
        /\ effect[e] = "dropping" => effect[g] \in InHand
    BY OrderedParts, RoleAssumption DEF EndsInside
  <2>2. CASE g \in inner
    <3>1. e \in inner /\ effect[e] # "asking"
      BY <1>2, <2>2
    <3> QED
      BY <1>2, <2>1, <2>2, <3>1 DEF InHand
  <2>3. CASE g \notin inner
    <3>1. effect'[g] = effect[g]
      BY <1>2, <2>3
    <3> QED
      BY <1>2, <2>1, <3>1 DEF InHand
  <2> QED
    BY <2>2, <2>3
<1>6. AllInnerFirst'
  BY <1>2, OrderedPipes, OrderKept
<1> QED
  BY <1>4, <1>5, <1>6 DEF Sequenced

\* Where no effect moves and no permit.
LEMMA EffectsKept ==
  ASSUME Ordered, effect' = effect
  PROVE  \A e \in Effects : EndsInside(e)'
BY OrderedParts DEF EndsInside

LEMMA RevokeOrder ==
  ASSUME Ordered, Revoke
  PROVE  Sequenced'
<1>0. Domains /\ 0 \in Levels /\ Close(0) /\ UNCHANGED <<effect, serve, permits, up, down>>
  BY Places DEF Revoke, Ordered, Inv, pipeVars
<1>1. \A f \in Effects : AskFades(f) /\ HeldSame(f)
  BY <1>0, CloseFades
<1>2. \A f \in Effects : /\ ServedSame(f) /\ PermitsSame(f) /\ RepliedSame(f)
                         /\ RequestedSame(f) /\ SettlingSame(f)
  BY <1>0, Stays
<1>3. ASSUME NEW f \in Effects PROVE AskSame(f)
  <2>1. \A m \in Levels : m # 0 => ask'[m][f] = ask[m][f]
    BY <1>0 DEF Close, Domains
  <2>2. ask[0][f] \in {"none", "granted"}
    BY OrderedParts DEF Protocol, GrantedOnce
  <2>3. ask'[0][f] = ask[0][f]
    BY <1>0, <1>1, <2>2 DEF AskFades
  <2> QED
    BY <2>1, <2>3 DEF AskSame
<1>4. ASSUME NEW e \in Effects PROVE InTransit(e)' /\ Awaited(e)' /\ SettledInside(e)'
  <2>1. InTransit(e)'
    BY <1>2, <1>3, OrderedParts, TransitKept, FadeSame
  <2>2. Awaited(e)'
    BY <1>1, <1>2, <1>3, OrderedParts, AwaitedKept
  <2>3. SettledInside(e)'
    BY <1>2, OrderedParts, InsideKept, RoleAssumption DEF SettlingSame
  <2> QED
    BY <2>1, <2>2, <2>3
<1>5. AllInnerFirst'
  BY <1>0, OrderedPipes, OrderKept
<1> QED
  BY <1>0, <1>4, <1>5, EffectsKept DEF Sequenced

LEMMA ResultOrder ==
  ASSUME Ordered, NEW n \in Children, ServeResult(n)
  PROVE  Sequenced'
<1>0. /\ Domains /\ up[n] # <<>> /\ serve[n].pc = "reading"
      /\ serve' = [serve EXCEPT ![n] = [pc |-> "result", e |-> NoEffect]]
      /\ up' = [up EXCEPT ![n] = Tail(@)] /\ Head(up[n]).type = "result"
      /\ UNCHANGED <<gate, ask, effect, permits, down>>
  BY DEF ServeResult, ReadFrame, Ordered, Inv
<1>1. \A f \in Effects : HeldSame(f) /\ AskSame(f) /\ PermitsSame(f) /\ RepliedSame(f)
  BY <1>0, Stays
<1>2. ASSUME NEW f \in Effects PROVE ServedSame(f)
  <2>1. \A m \in Children : m # n => serve'[m] = serve[m]
    BY <1>0 DEF Domains
  <2>2. serve'[n].pc = "result"
    BY <1>0 DEF Domains
  <2> QED
    BY <1>0, <2>1, <2>2 DEF ServedSame, Served
<1>3. ASSUME NEW f \in Effects PROVE RequestedSame(f) /\ SettlingSame(f)
  <2>1. /\ \A m \in Children : up'[m] = IF m = n THEN Tail(up[n]) ELSE up[m]
        /\ up[n] \in Seq(Frames)
    BY <1>0 DEF Domains
  <2>2. \A type \in {"admit", "settled"} : f \in Named(Tail(up[n]), type) <=> f \in Named(up[n], type)
    BY <1>0, <2>1, TailNamed
  <2> QED
    BY <2>1, <2>2 DEF RequestedSame, SettlingSame, Requested, Settling
<1>4. ASSUME NEW e \in Effects PROVE InTransit(e)' /\ Awaited(e)' /\ SettledInside(e)'
  <2>1. InTransit(e)'
    BY <1>1, <1>2, <1>3, OrderedParts, TransitKept, FadeSame
  <2>2. Awaited(e)'
    BY <1>1, <1>3, OrderedParts, AwaitedKept
  <2>3. SettledInside(e)'
    BY <1>1, <1>3, OrderedParts, InsideKept, RoleAssumption DEF SettlingSame
  <2> QED
    BY <2>1, <2>2, <2>3
<1>5. AllInnerFirst'
  BY <1>0, OrderedPipes, OrderKept
<1> QED
  BY <1>0, <1>4, <1>5, EffectsKept DEF Sequenced

LEMMA TakeOrder ==
  ASSUME Ordered, NEW n \in Children, TakeReply(n)
  PROVE  Sequenced'
<1>0. /\ Domains /\ PipesOnce /\ n \in Levels
      /\ down[n] # <<>> /\ down' = [down EXCEPT ![n] = Tail(down[n])]
      /\ UNCHANGED <<effect, serve, permits, up>>
  BY Places, OrderedPipes DEF TakeReply
<1>1. PICK reply \in Replies : reply = Head(down[n])
  BY <1>0, ReadReplyChange
<1>2. PICK b \in Effects : b = reply.e
  BY DEF Replies
<1>3. DownLoses(n, b) /\ b \in Replied(n)
  BY <1>0, <1>1, <1>2, ReadReplyChange
<1>4. /\ InTransit(b) /\ Protocol(b) /\ n <= Level[b]
      /\ b \notin Requested(n) /\ b \notin Served(n) /\ ask[n][b] = "waiting"
  <2>1. InTransit(b) /\ Protocol(b)
    BY OrderedParts
  <2>2. n <= Level[b] /\ n <= n
    BY <1>0, <1>3, <2>1, Places DEF Protocol, Placed
  <2>3. b \notin Requested(n) /\ b \notin Served(n)
    BY <1>3, <2>1, <2>2 DEF Protocol, RequestedOnce, Unseen, ServedOnce
  <2>4. ask[n][b] = "waiting"
    BY <1>0, <1>3, <2>1, <2>2 DEF InTransit
  <2> QED
    BY <2>1, <2>2, <2>3, <2>4
<1> DEFINE s == IF reply.allowed THEN "granted" ELSE "refused"
<1>5. gate' = gate /\ ask' = [ask EXCEPT ![n][b] = s]
  BY <1>1, <1>2, <1>4 DEF TakeReply
<1>6. /\ s \in Ready /\ (reply.allowed => s = "granted")
  BY DEF Ready
<1> HIDE DEF s
<1>7. /\ ask'[n][b] = s
      /\ \A m \in Levels : m # n => ask'[m][b] = ask[m][b]
      /\ \A f \in Effects : f # b => AskSame(f)
  BY <1>0, <1>5 DEF Domains, AskSame
<1>8. \A f \in Effects : /\ HeldSame(f) /\ ServedSame(f) /\ PermitsSame(f)
                         /\ RequestedSame(f) /\ SettlingSame(f) /\ PipesFade(f)
  <2>1. \A f \in Effects : /\ HeldSame(f) /\ ServedSame(f) /\ PermitsSame(f)
                           /\ RequestedSame(f) /\ SettlingSame(f)
    BY <1>0, <1>5, Stays
  <2> QED
    BY <1>3, <2>1 DEF PipesFade, DownLoses, RequestedSame, SettlingSame
<1>9. InTransit(b)'
  <2>0. /\ \A m \in Levels : m \in Int
        /\ \A m \in Children : m \in Levels /\ m - 1 \in Levels /\ m - 1 < m
        /\ Level[b] \in Levels
    BY Places
  <2>1. b \in Served(n) <=> FALSE
    BY <1>4
  <2>2. \A m \in Levels : m < n => ask[m][b] \notin Asks
    <3> SUFFICES ASSUME NEW m \in Levels, m < n, ask[m][b] \in Asks PROVE FALSE
      OBVIOUS
    <3>1. ask[n - 1][b] \in Asks
      <4>1. CASE m = n - 1
        BY <4>1
      <4>2. CASE m # n - 1
        <5>1. m < n - 1 /\ n - 1 <= Level[b]
          BY <1>0, <1>4, <2>0, <4>2
        <5>2. ask[n - 1][b] = "waiting"
          BY <1>4, <2>0, <5>1 DEF InTransit
        <5> QED
          BY <5>2 DEF Asks
      <4> QED
        BY <4>1, <4>2
    <3>2. n - 1 < Level[b] /\ (n - 1) + 1 = n
      BY <1>0, <1>4, <2>0
    <3> QED
      BY <1>4, <2>0, <3>1, <3>2 DEF Protocol, Forwarded
  <2>3. \A m \in Children : m <= n =>
          b \notin Requested(m)' /\ b \notin Served(m)' /\ b \notin Replied(m)'
    <3> SUFFICES ASSUME NEW m \in Children, m <= n
                 PROVE  b \notin Requested(m)' /\ b \notin Served(m)' /\ b \notin Replied(m)'
      OBVIOUS
    <3>1. CASE m = n
      BY <1>3, <1>4, <1>8, <3>1 DEF DownLoses, RequestedSame, ServedSame
    <3>2. CASE m # n
      <4>1. m <= n - 1 /\ n - 1 <= Level[b] /\ n - 1 < n
        BY <1>0, <1>4, <2>0, <3>2
      <4>2. ask[n - 1][b] # "waiting"
        BY <2>0, <2>2, <4>1 DEF Asks
      <4>3. b \notin Requested(m) /\ b \notin Served(m) /\ b \notin Replied(m)
        BY <1>4, <2>0, <4>1, <4>2 DEF InTransit
      <4> QED
        BY <1>8, <4>3 DEF PipesFade, ServedSame, RequestedSame
    <3> QED
      BY <3>1, <3>2
  <2>4. ASSUME NEW m \in Levels, NEW k \in Levels, ask'[m][b] \in Asks, m < k, k <= Level[b]
        PROVE  ask'[k][b] = "waiting"
    <3>1. n <= m
      BY <1>0, <1>7, <2>0, <2>2, <2>4
    <3>2. ask[m][b] \in Asks /\ k # n
      BY <1>0, <1>4, <1>7, <2>0, <2>4, <3>1 DEF Asks
    <3> QED
      BY <1>4, <1>7, <2>4, <3>2 DEF InTransit
  <2>5. ASSUME NEW m \in Children, NEW k \in Levels, m <= k, k <= Level[b],
               b \in Requested(m)' \union Served(m)' \union Replied(m)'
        PROVE  ask'[k][b] = "waiting"
    <3>1. ~(m <= n)
      BY <2>3, <2>5
    <3>2. k # n
      BY <1>0, <2>0, <2>5, <3>1
    <3>3. b \in Requested(m) \union Served(m) \union Replied(m)
      BY <1>8, <2>5 DEF PipesFade, ServedSame
    <3> QED
      BY <1>4, <1>7, <2>5, <3>2, <3>3 DEF InTransit
  <2>6. \A m \in Levels : ask'[m][b] \notin {"orphan", "cleared"}
    BY <1>4, <1>6, <1>7 DEF InTransit, Ready
  <2> QED
    BY <2>4, <2>5, <2>6 DEF InTransit
<1>10. ASSUME NEW e \in Effects PROVE InTransit(e)'
  <2>1. CASE e # b
    BY <1>7, <1>8, <2>1, OrderedParts, TransitKept
  <2> QED
    BY <1>9, <2>1
<1>11. ASSUME NEW e \in Effects, NEW m \in Children, e \in Allowed(m)
       PROVE  e \in Allowed(m)' \/ (m = n /\ e = b /\ reply.allowed)
  <2>1. CASE m # n
    BY <1>3, <1>11, <2>1 DEF DownLoses
  <2>2. CASE m = n
    <3>1. /\ down[n] \in Seq(Replies) /\ AnsweredOnce(down[n]) /\ down'[n] = Tail(down[n])
      BY <1>0 DEF Domains, PipesOnce
    <3> DEFINE t == down[n]
    <3>2. /\ Len(t) \in Nat \ {0} /\ Len(Tail(t)) = Len(t) - 1 /\ Head(t) = t[1]
          /\ \A i \in 1 .. Len(Tail(t)) : Tail(t)[i] = t[i + 1]
      BY <1>0, <3>1, HeadTailProperties, LenProperties, EmptySeq
    <3>3. PICK i \in 1 .. Len(t) : t[i].e = e /\ t[i].allowed
      BY <1>11, <2>2 DEF Allowed, Approved
    <3> HIDE DEF t
    <3>4. CASE i = 1
      BY <1>1, <1>2, <2>2, <3>2, <3>3, <3>4 DEF t
    <3>5. CASE i # 1
      <4>1. i - 1 \in 1 .. Len(Tail(t)) /\ Tail(t)[i - 1] = t[i]
        BY <3>2, <3>5
      <4>2. e \in Approved(Tail(t))
        BY <3>3, <4>1 DEF Approved
      <4> QED
        BY <2>2, <3>1, <4>2 DEF Allowed, t
    <3> QED
      BY <3>4, <3>5
  <2> QED
    BY <2>1, <2>2
<1>12. ASSUME NEW e \in Effects PROVE Awaited(e)'
  <2> SUFFICES ASSUME NEW m \in Children, e \in permits'[m]
               PROVE  e \in Held(m)' \/ ask'[m][e] = "granted" \/ e \in Allowed(m)' \/ e \in Settling(m)'
    BY DEF Awaited
  <2>1. m \in Levels /\ e \in permits[m]
    BY <1>8, Places DEF PermitsSame
  <2>2. e \in Held(m) \/ ask[m][e] = "granted" \/ e \in Allowed(m) \/ e \in Settling(m)
    BY <2>1, OrderedParts DEF Awaited
  <2>3. ask[m][e] = "granted" => ask'[m][e] = "granted"
    BY <1>4, <1>7, <2>1 DEF AskSame
  <2>4. e \in Allowed(m) => e \in Allowed(m)' \/ ask'[m][e] = "granted"
    BY <1>6, <1>7, <1>11
  <2> QED
    BY <1>8, <2>1, <2>2, <2>3, <2>4 DEF HeldSame, SettlingSame
<1>13. ASSUME NEW e \in Effects PROVE SettledInside(e)'
  BY <1>8, OrderedParts, InsideKept, RoleAssumption DEF SettlingSame
<1>14. AllInnerFirst'
  BY <1>0, OrderedPipes, OrderKept
<1> QED
  BY <1>0, <1>10, <1>12, <1>13, <1>14, EffectsKept DEF Sequenced

LEMMA ExitOrder ==
  ASSUME Ordered, NEW n \in Children, Exit(n)
  PROVE  Sequenced'
<1>0. /\ Domains /\ n \in Levels /\ n # 0
      /\ \A f \in Effects : Level[f] >= n => ask[n][f] \in {"none", "orphan"}
      /\ SendUp(n, Result)
      /\ down' = [down EXCEPT ![n] = <<>>]
      /\ ask' = [ask EXCEPT ![n] = NoAsks]
      /\ gate' = [gate EXCEPT ![n] = OpenGate]
      /\ UNCHANGED <<effect, serve, permits>>
  BY Places, OrderedPipes DEF Exit
<1>1. \A f \in Effects : ServedSame(f) /\ PermitsSame(f)
  BY <1>0, Stays
<1>2. \A f \in Effects : HeldSame(f)
  <2>1. \A m \in Levels : Held(m)' = IF m = n THEN {} ELSE Held(m)
    BY <1>0 DEF Domains, Held, OpenGate
  <2>2. Held(n) = {}
    BY ExitHolds DEF Ordered, Inv
  <2> QED
    BY <2>1, <2>2 DEF HeldSame
<1>3. ASSUME NEW f \in Effects PROVE ask[n][f] = "none"
  <2>1. InTransit(f) /\ Protocol(f)
    BY OrderedParts
  <2>2. CASE n <= Level[f]
    <3>1. PICK k \in Levels : k = Level[f] /\ k \in Int /\ n \in Int
      BY <1>0, Places
    <3>2. k >= n
      BY <2>2, <3>1
    <3> QED
      BY <1>0, <2>1, <3>1, <3>2 DEF InTransit
  <2>3. CASE ~(n <= Level[f])
    BY <1>0, <2>1, <2>3 DEF Protocol, Placed
  <2> QED
    BY <2>2, <2>3
<1>4. ASSUME NEW f \in Effects PROVE AskSame(f)
  <2>1. ask'[n][f] = "none" /\ \A m \in Levels : m # n => ask'[m][f] = ask[m][f]
    BY <1>0 DEF Domains, NoAsks
  <2> QED
    BY <1>3, <2>1 DEF AskSame
<1>5. ASSUME NEW f \in Effects PROVE RequestedSame(f) /\ SettlingSame(f)
  <2>1. /\ \A m \in Children : up'[m] = IF m = n THEN Append(up[n], Result) ELSE up[m]
        /\ up[n] \in Seq(Frames)
    BY <1>0 DEF SendUp, Domains
  <2>2. /\ f \in Named(Append(up[n], Result), "admit") <=> f \in Named(up[n], "admit")
        /\ f \in Named(Append(up[n], Result), "settled") <=> f \in Named(up[n], "settled")
    BY <2>1, FrameTypes, AppendNamed
  <2> QED
    BY <2>1, <2>2 DEF RequestedSame, SettlingSame, Requested, Settling
<1>6. \A f \in Effects : f \notin Replied(n) /\ f \notin Allowed(n)
  <2> SUFFICES ASSUME NEW f \in Effects PROVE f \notin Replied(n) /\ f \notin Allowed(n)
    OBVIOUS
  <2>1. f \notin Replied(n)
    <3>1. InTransit(f) /\ Protocol(f)
      BY OrderedParts
    <3>2. n <= n /\ (f \in Replied(n) => n <= Level[f])
      BY <1>0, <3>1, Places DEF Protocol, Placed
    <3> QED
      BY <1>0, <1>3, <3>1, <3>2 DEF InTransit
  <2> QED
    BY <2>1 DEF Replied, Allowed, Answered, Approved
<1>7. ASSUME NEW f \in Effects PROVE RepliedSame(f)
  <2>1. \A m \in Children : down'[m] = IF m = n THEN <<>> ELSE down[m]
    BY <1>0 DEF Domains
  <2>2. Answered(<<>>) = {} /\ Approved(<<>>) = {}
    BY DEF Answered, Approved
  <2> QED
    BY <1>6, <2>1, <2>2 DEF RepliedSame, Replied, Allowed
<1>8. ASSUME NEW e \in Effects PROVE InTransit(e)' /\ Awaited(e)' /\ SettledInside(e)'
  <2>1. InTransit(e)'
    BY <1>1, <1>4, <1>5, <1>7, OrderedParts, TransitKept, FadeSame
  <2>2. Awaited(e)'
    BY <1>1, <1>2, <1>4, <1>5, <1>7, OrderedParts, AwaitedKept
  <2>3. SettledInside(e)'
    BY <1>1, <1>5, OrderedParts, InsideKept, RoleAssumption DEF SettlingSame
  <2> QED
    BY <2>1, <2>2, <2>3
<1>9. AllInnerFirst'
  <2>1. Follows(n, Result)
    BY FrameTypes DEF Follows
  <2> QED
    BY <1>0, <2>1, FrameTypes, OrderedPipes, OrderKept
<1> QED
  BY <1>0, <1>8, <1>9, EffectsKept DEF Sequenced

LEMMA DropKeptCalm ==
  ASSUME Ordered, NEW n \in Children, NEW e \in Effects, DropKept(n, e)
  PROVE  FALSE
<1>1. Launch[n] \in Effects /\ n \in Launches(Launch[n]) /\ effect[Launch[n]] = "dropping"
  BY Places DEF Launches, DropKept
<1> QED
  BY <1>1 DEF Ordered, Orderly

LEMMA AdmitOrder ==
  ASSUME Ordered, NEW n \in Children, ServeAdmit(n)
  PROVE  Sequenced'
<1>0. /\ Domains /\ PipesOnce
      /\ up[n] # <<>> /\ Head(up[n]).type = "admit" /\ serve[n].pc = "reading"
      /\ UNCHANGED <<gate, effect, permits>>
  BY OrderedPipes DEF ServeAdmit, ReadFrame
<1>1. PICK e \in Effects : e = Head(up[n]).e
  BY <1>0, ReadTyped, FrameTypes
<1>2. Admit(e) \in Frames /\ Admit(e).type = "admit" /\ Admit(e).e = e
  BY FrameTypes
<1>3. \A f \in Effects : HeldSame(f) /\ PermitsSame(f)
  BY <1>0, Stays
<1>4. /\ e \in Requested(n) /\ InTransit(e) /\ n <= Level[e]
      /\ \A m \in Levels : m < n => ask[m][e] = "none"
      /\ \A m \in Children : m < n => e \notin Requested(m)
      /\ \A m \in Children : m <= n => e \notin Replied(m) /\ e \notin Served(m)
  <2>1. e \in Requested(n)
    BY <1>0, <1>1, <1>2, ReadUpChange DEF Requested
  <2>2. InTransit(e) /\ Protocol(e)
    BY OrderedParts
  <2>3. Unseen(e, n)
    BY <2>1, <2>2 DEF Protocol, RequestedOnce
  <2>4. n <= Level[e]
    BY <2>1, <2>2 DEF Protocol, Placed
  <2> QED
    BY <2>1, <2>2, <2>3, <2>4 DEF Unseen
<1>5. /\ \A k \in Levels : k \in Int /\ k >= 0
      /\ \A m \in Children : m \in Levels /\ m - 1 \in Levels /\ m - 1 < m /\ (m = 1 \/ m - 1 \in Children)
      /\ Level[e] \in Levels
  BY Places
<1>6. /\ gate[n - 1].closed =>
           /\ down' = [down EXCEPT ![n] = Append(@, [e |-> e, allowed |-> FALSE])]
           /\ up' = [up EXCEPT ![n] = Tail(@)] /\ UNCHANGED <<ask, serve>>
      /\ ~gate[n - 1].closed =>
           /\ serve' = [serve EXCEPT ![n] = [pc |-> "asking", e |-> e]]
           /\ ask' = [ask EXCEPT ![n - 1][e] = IF n = 1 THEN "granted" ELSE "waiting"]
           /\ up' = [m \in Children |->
                     CASE m = n -> Tail(up[n])
                       [] m = n - 1 -> Append(up[m], Admit(e))
                       [] OTHER -> up[m]]
           /\ down' = down
  BY <1>1 DEF ServeAdmit
<1>7. \A k \in Levels : n <= k /\ k <= Level[e] => ask[k][e] = "waiting"
  BY <1>4 DEF InTransit
<1>8. /\ \A f \in Effects : /\ SettlingSame(f)
                            /\ f # e => AskSame(f) /\ ServedSame(f) /\ RequestedSame(f) /\ RepliedSame(f)
                            /\ \A m \in Children : f \in Allowed(m)' <=> f \in Allowed(m)
      /\ InTransit(e)' /\ AllInnerFirst'
      /\ \A m \in Levels : ask[m][e] = "granted" => ask'[m][e] = "granted"
  <2>1. CASE gate[n - 1].closed
    <3>1. /\ down' = [down EXCEPT ![n] = Append(@, [e |-> e, allowed |-> FALSE])]
          /\ up' = [up EXCEPT ![n] = Tail(@)] /\ UNCHANGED <<ask, serve>>
      BY <1>6, <2>1
    <3>2. UpLoses(n, "admit", e)
      BY <1>0, <1>1, <1>2, <3>1, ReadUpChange
    <3>3. DownGains(n, e, FALSE)
      BY <1>0, <3>1, ReplyChange
    <3>4. \A f \in Effects : ServedSame(f) /\ AskSame(f)
      BY <3>1, Stays
    <3>5. \A f \in Effects : /\ SettlingSame(f) /\ (f # e => RequestedSame(f) /\ RepliedSame(f))
                             /\ \A m \in Children : f \in Allowed(m)' <=> f \in Allowed(m)
      BY <3>2, <3>3, GainsSame DEF DownGains
    <3>6. InTransit(e)'
      <4>1. /\ \A m \in Children : e \in Requested(m)' => e \in Requested(m)
            /\ \A m \in Children : e \in Replied(m)' <=> e \in Replied(m) \/ m = n
        BY <3>2, <3>3 DEF UpLoses, DownGains
      <4> QED
        BY <1>4, <1>7, <3>4, <4>1 DEF InTransit, AskSame, ServedSame
    <3>7. AllInnerFirst'
      BY <1>0, <3>1, OrderedPipes, OrderKept
    <3> QED
      BY <3>1, <3>4, <3>5, <3>6, <3>7
  <2>2. CASE ~gate[n - 1].closed
    <3>1. /\ serve' = [serve EXCEPT ![n] = [pc |-> "asking", e |-> e]]
          /\ ask' = [ask EXCEPT ![n - 1][e] = IF n = 1 THEN "granted" ELSE "waiting"]
          /\ up' = [m \in Children |->
                     CASE m = n -> Tail(up[n])
                       [] m = n - 1 -> Append(up[m], Admit(e))
                       [] OTHER -> up[m]]
          /\ down' = down
      BY <1>6, <2>2
    <3>2. UpPasses(n, "admit", e)
      BY <1>0, <1>1, <1>2, <3>1, ReadUpChange
    <3> DEFINE s == IF n = 1 THEN "granted" ELSE "waiting"
    <3>3. ask' = [ask EXCEPT ![n - 1][e] = s]
      BY <3>1
    <3>4. s \in {"granted", "waiting"} /\ (n - 1 \in Children => s = "waiting")
      BY Places
    <3> HIDE DEF s
    <3>5. /\ ask'[n - 1][e] = s
          /\ \A m \in Levels : m # n - 1 => ask'[m][e] = ask[m][e]
          /\ \A f \in Effects : f # e => AskSame(f)
      <4>1. PICK k \in Levels : k = n - 1
        BY <1>5
      <4> QED
        BY <1>0, <3>3, <4>1 DEF Domains, AskSame
    <3>6. \A f \in Effects : RepliedSame(f) /\ SettlingSame(f) /\ (f # e => RequestedSame(f))
      BY <3>1, <3>2, Stays, GainsSame
    <3>7. \A f \in Effects : \A m \in Children :
            f \in Served(m)' <=> f \in Served(m) \/ (m = n /\ f = e)
      <4>1. serve'[n].pc = "asking" /\ serve'[n].e = e
            /\ \A m \in Children : m # n => serve'[m] = serve[m]
        BY <1>0, <3>1 DEF Domains
      <4> QED
        BY <1>0, <4>1 DEF Served
    <3>8. AllInnerFirst'
      <4>1. Follows(n - 1, Admit(e))
        BY <1>2 DEF Follows
      <4> QED
        BY <1>0, <1>2, <3>1, <4>1, OrderedPipes, OrderKept
    <3>9. ASSUME NEW m \in Levels, NEW k \in Levels, ask'[m][e] \in Asks, m < k, k <= Level[e]
          PROVE  ask'[k][e] = "waiting"
      <4>1. n - 1 <= m
        <5>1. m < n - 1 => ask'[m][e] = "none"
          BY <1>4, <1>5, <3>5
        <5> QED
          BY <1>5, <3>9, <5>1 DEF Asks
      <4>2. n <= k /\ k # n - 1
        BY <1>5, <3>9, <4>1
      <4> QED
        BY <1>7, <3>5, <3>9, <4>2
    <3>10. ASSUME NEW m \in Children, NEW k \in Levels, m <= k, k <= Level[e],
                  e \in Requested(m)' \union Served(m)' \union Replied(m)'
           PROVE  ask'[k][e] = "waiting"
      <4>1. n - 1 <= m
        <5>1. m < n - 1 => e \notin Requested(m)' /\ e \notin Served(m)' /\ e \notin Replied(m)'
          BY <1>4, <1>5, <3>2, <3>6, <3>7 DEF UpPasses, RepliedSame
        <5> QED
          BY <1>5, <3>10, <5>1
      <4>2. n <= k \/ (k = n - 1 /\ n - 1 \in Children)
        <5>1. n \in Int /\ m \in Int /\ k \in Int /\ m <= k
          BY <1>5, <3>10
        <5>2. n <= k \/ (m = n - 1 /\ k = n - 1)
          BY <4>1, <5>1
        <5> QED
          BY <5>2
      <4>3. CASE k = n - 1 /\ n - 1 \in Children
        BY <3>4, <3>5, <4>3
      <4>4. CASE n <= k
        <5>1. k # n - 1
          BY <1>5, <4>4
        <5> QED
          BY <1>7, <3>5, <3>10, <4>4, <5>1
      <4> QED
        BY <4>2, <4>3, <4>4
    <3>11. InTransit(e)'
      <4>1. \A m \in Levels : ask'[m][e] \notin {"orphan", "cleared"}
        BY <1>4, <3>4, <3>5 DEF InTransit
      <4> QED
        BY <3>9, <3>10, <4>1 DEF InTransit
    <3>12. \A m \in Levels : ask[m][e] = "granted" => ask'[m][e] = "granted"
      BY <1>4, <1>5, <3>5
    <3> QED
      BY <3>5, <3>6, <3>7, <3>8, <3>11, <3>12 DEF ServedSame, RepliedSame
  <2> QED
    BY <2>1, <2>2
<1>9. ASSUME NEW f \in Effects PROVE InTransit(f)'
  <2>1. CASE f # e
    BY <1>8, <2>1, OrderedParts, TransitKept, FadeSame
  <2> QED
    BY <1>8, <2>1
<1>10. ASSUME NEW f \in Effects PROVE Awaited(f)'
  <2>1. CASE f # e
    BY <1>3, <1>8, <2>1, OrderedParts, AwaitedKept
  <2>2. CASE f = e
    <3>1. Awaited(e)
      BY OrderedParts
    <3> QED
      BY <1>3, <1>5, <1>8, <2>2, <3>1 DEF Awaited, HeldSame, PermitsSame, SettlingSame
  <2> QED
    BY <2>1, <2>2
<1>11. ASSUME NEW f \in Effects PROVE SettledInside(f)'
  BY <1>3, <1>8, OrderedParts, InsideKept, RoleAssumption DEF SettlingSame
<1> QED
  BY <1>0, <1>8, <1>9, <1>10, <1>11, EffectsKept DEF Sequenced

\* What an effect still has under way where its settlement is sent.
UnderWay(n, e) == e \in Held(n) \/ ask[n][e] \in Asks

LEMMA AwaitedUnderWay ==
  ASSUME Ordered, NEW n \in Children, NEW e \in Effects, e \in permits[n], e \notin Settling(n)
  PROVE  UnderWay(n, e)
<1>1. Protocol(e) /\ InTransit(e) /\ Awaited(e) /\ n \in Levels /\ n <= n
  BY Places, OrderedParts
<1>2. n <= Level[e]
  BY <1>1 DEF Protocol, Placed
<1>3. e \in Allowed(n) => ask[n][e] = "waiting"
  <2>1. e \in Allowed(n) => e \in Replied(n)
    BY DEF Allowed, Replied, Approved, Answered
  <2> QED
    BY <1>1, <1>2, <2>1 DEF InTransit
<1> QED
  BY <1>1, <1>3 DEF Awaited, UnderWay, Asks

\* The effect gives up its permit after those inside it, and sends that after theirs.
LEMMA HeldFollows ==
  ASSUME Ordered, NEW k \in Levels, NEW b \in Effects, b \in Held(k)
  PROVE  \A frame \in Frames : frame.e = b => Follows(k, frame)
<1>1. Protocol(b) /\ SettledInside(b)
  BY OrderedParts
<1>2. k \in Children => b \in permits[k] /\ b \notin Settling(k)
  BY <1>1 DEF Protocol, HeldAbove
<1> QED
  BY <1>1, <1>2 DEF SettledInside, Follows

LEMMA SettleOrder ==
  ASSUME Ordered, NEW k \in Levels, NEW b \in Effects, b \in Held(k),
         k \in Children => \A f \in permits[k] : Parent[f] = b => f \in Settling(k),
         \A m \in Children : b \in Settling(m)' <=> (b \in Settling(m) /\ m # k + 1) \/ m = k,
         \A m \in Children : b \in permits'[m] <=> b \in permits[m] /\ m # k + 1,
         \A m \in Levels : b \in Held(m)' <=> b \in Held(m) /\ m # k,
         \A f \in Effects : AskSame(f) /\ ServedSame(f) /\ RequestedSame(f) /\ RepliedSame(f),
         \A f \in Effects : f # b => HeldSame(f) /\ PermitsSame(f) /\ SettlingSame(f)
  PROVE  \A f \in Effects : InTransit(f)' /\ Awaited(f)' /\ SettledInside(f)'
<1>0. /\ \A n \in Children : n \in Levels /\ NoEffect \notin Settling(n)'
      /\ Parent \in [Effects -> Effects \union {NoEffect}]
      /\ Parent[b] # b
  <2>1. effect[b] # "idle" /\ BegunInside(b)
    BY OrderedParts DEF Protocol, Placed
  <2>2. Parent[b] = NoEffect => Parent[b] # b
    BY RoleAssumption
  <2> QED
    BY <2>1, <2>2, Places, RoleAssumption DEF BegunInside, Settling, Named
<1>1. ASSUME NEW f \in Effects PROVE InTransit(f)'
  <2>1. InTransit(f)
    BY OrderedParts
  <2> QED
    BY <2>1 DEF InTransit, AskSame, ServedSame, RequestedSame, RepliedSame
<1>2. ASSUME NEW f \in Effects PROVE Awaited(f)'
  <2>1. CASE f # b
    BY <2>1, OrderedParts, AwaitedKept
  <2>2. CASE f = b
    <3> SUFFICES ASSUME NEW n \in Children, b \in permits'[n]
                 PROVE  b \in Held(n)' \/ ask'[n][b] = "granted" \/ b \in Allowed(n)' \/ b \in Settling(n)'
      BY <2>2 DEF Awaited
    <3>1. n \in Levels /\ b \in permits[n] /\ n # k + 1 /\ Awaited(b)
      BY <1>0, OrderedParts
    <3>2. b \in Held(n) \/ ask[n][b] = "granted" \/ b \in Allowed(n) \/ b \in Settling(n)
      BY <3>1 DEF Awaited
    <3> QED
      BY <3>1, <3>2 DEF AskSame, RepliedSame
  <2> QED
    BY <2>1, <2>2
<1>3. ASSUME NEW f \in Effects PROVE SettledInside(f)'
  <2> SUFFICES ASSUME NEW n \in Children, f \in permits'[n], NEW g \in Effects, g = Parent[f], g \in Settling(n)'
               PROVE  f \in Settling(n)'
    BY <1>0 DEF SettledInside
  <2>1. f \in permits[n] /\ SettledInside(f) /\ (f = b => n # k + 1)
    BY OrderedParts DEF PermitsSame
  <2>2. g \in Settling(n) => f \in Settling(n)
    BY <2>1 DEF SettledInside
  <2>3. CASE f = b
    BY <1>0, <2>1, <2>2, <2>3 DEF SettlingSame
  <2>4. CASE f # b /\ g # b
    BY <2>2, <2>4 DEF SettlingSame
  <2>5. CASE f # b /\ g = b
    BY <2>1, <2>2, <2>5 DEF SettlingSame
  <2> QED
    BY <2>3, <2>4, <2>5
<1> QED
  BY <1>1, <1>2, <1>3

LEMMA SettledOrder ==
  ASSUME Ordered, NEW n \in Children, ServeSettled(n)
  PROVE  Sequenced'
<1>0. PICK k \in Levels : k = n - 1 /\ k + 1 = n /\ k < n /\ ~(n <= k) /\ k # n /\ k \in Int
  BY Places
<1>1. PICK frame \in Frames : frame = Head(up[n])
  BY ReadTyped, OrderedPipes DEF ServeSettled, ReadFrame
<1>2. /\ Domains /\ PipesOnce /\ serve[n].pc = "reading"
      /\ up[n] # <<>> /\ frame.type = "settled" /\ Settleable(n, frame.e)
      /\ permits' = [permits EXCEPT ![n] = @ \ {frame.e}]
      /\ gate' = [gate EXCEPT ![k].outstanding = @ \ {frame.e}]
      /\ up' = [m \in Children |->
             CASE m = n -> Tail(up[n])
               [] m = n - 1 -> Append(up[m], frame)
               [] OTHER -> up[m]]
      /\ UNCHANGED <<ask, effect, serve, down>>
  BY <1>0, <1>1, OrderedPipes DEF ServeSettled, ReadFrame
<1>3. PICK b \in Effects : b = frame.e
  BY <1>2, FrameTypes
<1>4. UpPasses(n, "settled", b) /\ b \in Settling(n)
  BY <1>1, <1>2, <1>3, ReadUpChange DEF Settling
<1>5. b \in permits[n] /\ b \in Held(k) /\ n <= Level[b]
  <2>1. Protocol(b)
    BY OrderedParts
  <2>2. b \in permits[n] /\ n <= Level[b]
    BY <1>4, <2>1 DEF Protocol, HeldAbove, Placed
  <2> QED
    BY <1>0, <2>1, <2>2 DEF Protocol, HeldAbove
<1>6. \A m \in Levels : Held(m)' = IF m = k THEN Held(k) \ {b} ELSE Held(m)
  <2>1. gate' = [gate EXCEPT ![k].outstanding = Held(k) \ {b}]
    BY <1>2, <1>3 DEF Held
  <2>2. PICK rest \in SUBSET Effects : rest = Held(k) \ {b}
    BY <1>2 DEF Held, Domains, Gates
  <2>3. gate' = [gate EXCEPT ![k].outstanding = rest]
    BY <2>1, <2>2
  <2>4. Domains
    BY <1>2
  <2>5. \A m \in Levels : Held(m)' = IF m = k THEN rest ELSE Held(m)
    BY <2>3, <2>4, GateChange
  <2> QED
    BY <2>2, <2>5
<1>7. \A f \in Effects : \A m \in Children : f \in permits'[m] <=> f \in permits[m] /\ ~(m = n /\ f = b)
  BY <1>2, <1>3 DEF Domains
<1>8. \A f \in Effects : AskSame(f) /\ RepliedSame(f) /\ ServedSame(f)
  BY <1>2, Stays
<1>9. \A f \in Effects : RequestedSame(f) /\ (f # b => SettlingSame(f))
  BY <1>4, GainsSame
<1>10. ASSUME k \in Children, NEW f \in permits[k], Parent[f] = b, f \notin Settling(k) PROVE FALSE
  <2>1. f \in Effects
    BY <1>2, <1>10 DEF Domains
  <2>2. Protocol(f) /\ UnderWay(k, f) /\ k <= Level[f] /\ BegunInside(f) /\ effect[f] # "idle"
    <3>1. Protocol(f) /\ BegunInside(f)
      BY <2>1, OrderedParts
    <3> QED
      BY <1>10, <2>1, <3>1, AwaitedUnderWay DEF Protocol, Placed
  <2>3. k < Level[f]
    <3>1. PICK x \in Levels : x = Level[f] /\ x \in Int
      BY <2>1, Places
    <3>2. PICK y \in Levels : y = Level[b] /\ y \in Int
      BY Places
    <3>3. Parent[f] # NoEffect
      BY <1>10, RoleAssumption
    <3>4. y = x \/ (x \in Children /\ y = x - 1)
      <4>1. x > 0 => x \in Children /\ Level[Launch[x]] = x - 1
        BY <3>1, Places
      <4> QED
        BY <1>10, <2>2, <3>1, <3>2, <3>3, <4>1 DEF BegunInside
    <3> QED
      BY <1>0, <1>5, <2>2, <3>1, <3>2, <3>4
  <2>4. f \in Held(k) => f \in permits[n]
    BY <1>0, <2>2, <2>3 DEF Protocol, HeldAbove
  <2>5. f \notin permits[n]
    BY <1>2, <1>3, <1>10 DEF Settleable
  <2>6. ask[k][f] \in Asks => f \in Served(n)
    BY <1>0, <2>2, <2>3 DEF Protocol, Forwarded
  <2>7. f \notin Served(n)
    BY <1>2 DEF Served
  <2> QED
    BY <2>2, <2>4, <2>5, <2>6, <2>7 DEF UnderWay
<1>11. \A f \in Effects : InTransit(f)' /\ Awaited(f)' /\ SettledInside(f)'
  <2>1. /\ \A m \in Children : b \in Settling(m)' <=> (b \in Settling(m) /\ m # k + 1) \/ m = k
        /\ \A m \in Children : b \in permits'[m] <=> b \in permits[m] /\ m # k + 1
    BY <1>0, <1>4, <1>7 DEF UpPasses
  <2>2. \A m \in Levels : b \in Held(m)' <=> b \in Held(m) /\ m # k
    BY <1>6
  <2>3. \A f \in Effects : f # b => HeldSame(f) /\ PermitsSame(f)
    BY <1>6, <1>7 DEF HeldSame, PermitsSame
  <2>4. k \in Children => \A f \in permits[k] : Parent[f] = b => f \in Settling(k)
    BY <1>10
  <2> QED
    BY <1>5, <1>8, <1>9, <2>1, <2>2, <2>3, <2>4, SettleOrder
<1>12. AllInnerFirst'
  <2>1. Follows(n - 1, frame)
    BY <1>0, <1>3, <1>5, HeldFollows
  <2> QED
    BY <1>2, <2>1, OrderedPipes, OrderKept
<1> QED
  BY <1>2, <1>11, <1>12, EffectsKept DEF Sequenced

\* Nothing inside an effect that is over is under way.
LEMMA OwnSettleOrder ==
  ASSUME Ordered, NEW b \in Effects, effect[b] \in InHand, NEW state \in Outcomes,
         Settle(Level[b], b, state), effect'[b] \in Finals,
         \A f \in Effects : f # b => effect'[f] = effect[f],
         \A f \in Effects : ServedSame(f),
         UNCHANGED <<ask, permits, down>>,
         \A f \in Effects : Parent[f] = b /\ Level[f] = Level[b] =>
           effect[f] \notin {"asking", "running", "dropping"},
         \A m \in Launches(b) : permits[m] = {} /\ serve[m].pc # "asking"
  PROVE  Sequenced'
<1>0. PICK k \in Levels : k = Level[b] /\ k \in Int
  BY Places
<1>1. Domains /\ PipesOnce /\ Protocol(b) /\ b \in Held(k)
  BY <1>0, OrderedParts DEF Protocol, Own
<1>2. /\ \A m \in Levels : b \in Held(m)' <=> b \in Held(m) /\ m # k
      /\ \A m \in Children : b \in Settling(m)' <=> b \in Settling(m) \/ m = k
      /\ \A f \in Effects : RequestedSame(f)
      /\ \A f \in Effects : f # b => HeldSame(f) /\ SettlingSame(f)
  BY <1>0, <1>1, SettleShape
<1>3. \A f \in Effects : AskSame(f) /\ PermitsSame(f) /\ RepliedSame(f)
  BY Stays
<1>4. \A m \in Children : m # k + 1 \/ (b \notin Settling(m) /\ b \notin permits[m])
  <2>1. ~(k + 1 <= k)
    BY <1>0
  <2> QED
    BY <1>0, <1>1, <2>1 DEF Protocol, Placed
<1>5. ASSUME k \in Children, NEW f \in permits[k], Parent[f] = b, f \notin Settling(k) PROVE FALSE
  <2>1. f \in Effects
    BY <1>1, <1>5 DEF Domains
  <2>2. Protocol(f) /\ UnderWay(k, f) /\ k <= Level[f] /\ BegunInside(f) /\ effect[f] # "idle"
    <3>1. Protocol(f) /\ BegunInside(f)
      BY <2>1, OrderedParts
    <3> QED
      BY <1>5, <2>1, <3>1, AwaitedUnderWay DEF Protocol, Placed
  <2>3. PICK x \in Levels : x = Level[f] /\ x \in Int
    BY <2>1, Places
  <2>4. x = k \/ (x \in Children /\ b = Launch[x] /\ k = x - 1)
    <3>1. Parent[f] # NoEffect
      BY <1>5, RoleAssumption
    <3>2. x > 0 => x \in Children /\ Level[Launch[x]] = x - 1
      BY <2>3, Places
    <3> QED
      BY <1>0, <1>5, <2>2, <2>3, <3>1, <3>2 DEF BegunInside
  <2>5. CASE x = k
    <3>1. effect[f] \notin {"asking", "running", "dropping"}
      BY <1>0, <1>5, <2>1, <2>3, <2>5
    <3> QED
      BY <2>2, <2>3, <2>5, <3>1 DEF Protocol, Own, UnderWay, InHand
  <2>6. CASE x \in Children /\ b = Launch[x] /\ k = x - 1
    <3>1. permits[x] = {} /\ serve[x].pc # "asking"
      BY <2>6 DEF Launches
    <3>2. k < x /\ k + 1 = x
      BY <1>0, <2>3, <2>6
    <3>3. f \in Held(k) => f \in permits[x]
      BY <2>2, <2>3, <3>2 DEF Protocol, HeldAbove
    <3>4. ask[k][f] \in Asks => f \in Served(x)
      BY <2>2, <2>3, <3>2 DEF Protocol, Forwarded
    <3> QED
      BY <2>2, <3>1, <3>3, <3>4 DEF UnderWay, Served
  <2> QED
    BY <2>4, <2>5, <2>6
<1>6. \A f \in Effects : InTransit(f)' /\ Awaited(f)' /\ SettledInside(f)'
  <2>1. /\ \A m \in Children : b \in Settling(m)' <=> (b \in Settling(m) /\ m # k + 1) \/ m = k
        /\ \A m \in Children : b \in permits'[m] <=> b \in permits[m] /\ m # k + 1
    BY <1>2, <1>3, <1>4 DEF PermitsSame
  <2>2. k \in Children => \A f \in permits[k] : Parent[f] = b => f \in Settling(k)
    BY <1>5
  <2> QED
    BY <1>1, <1>2, <1>3, <2>1, <2>2, SettleOrder
<1>7. AllInnerFirst'
  <2>1. Settled(b, state) \in Frames /\ Settled(b, state).e = b
    BY FrameTypes
  <2>2. SendUp(k, Settled(b, state)) /\ Follows(k, Settled(b, state))
    BY <1>0, <1>1, <2>1, HeldFollows DEF Settle
  <2> QED
    BY <2>1, <2>2, OrderedPipes, OrderKept
<1>8. ASSUME NEW e \in Effects PROVE EndsInside(e)'
  <2> SUFFICES ASSUME NEW g \in Effects, g = Parent[e], Level[g] = Level[e]
               PROVE  /\ effect'[e] \in {"asking", "running"} => effect'[g] = "running"
                      /\ effect'[e] = "dropping" => effect'[g] \in InHand
    BY RoleAssumption DEF EndsInside
  <2>1. EndsInside(e) /\ Parent[e] # NoEffect
    BY OrderedParts, RoleAssumption
  <2>2. CASE e = b
    BY <2>2 DEF Finals
  <2>3. CASE e # b /\ g = b
    BY <2>3
  <2>4. CASE e # b /\ g # b
    BY <2>1, <2>4 DEF EndsInside
  <2> QED
    BY <2>2, <2>3, <2>4
<1> QED
  BY <1>6, <1>7, <1>8 DEF Sequenced

LEMMA CompleteOrder ==
  ASSUME Ordered, NEW b \in Effects, Complete(b)
  PROVE  Sequenced'
<1>1. /\ effect[b] = "running" /\ effect' = [effect EXCEPT ![b] = "completed"]
      /\ Settle(Level[b], b, "completed")
      /\ serve' = [n \in Children |-> IF n \in Launches(b)
                    THEN [pc |-> "off", e |-> NoEffect] ELSE serve[n]]
      /\ \A n \in Launches(b) : serve[n].pc = "result" /\ permits[n] = {}
      /\ \A f \in Effects : Parent[f] = b /\ Level[f] = Level[b] => effect[f] \in {"idle"} \union Finals
      /\ UNCHANGED <<ask, permits, down>>
  BY DEF Complete, ChildDone
<1>2. effect'[b] = "completed" /\ \A f \in Effects : f # b => effect'[f] = effect[f]
  BY <1>1, OrderedPipes DEF Domains
<1>3. \A f \in Effects : ServedSame(f)
  BY <1>1 DEF ServedSame, Served
<1>4. "completed" \in Outcomes /\ effect'[b] \in Finals /\ effect[b] \in InHand
  BY <1>1, <1>2 DEF Outcomes, Finals, InHand
<1>5. \A f \in Effects : Parent[f] = b /\ Level[f] = Level[b] =>
        effect[f] \notin {"asking", "running", "dropping"}
  BY <1>1 DEF Finals
<1>6. \A m \in Launches(b) : permits[m] = {} /\ serve[m].pc # "asking"
  BY <1>1
<1> QED
  BY <1>1, <1>2, <1>3, <1>4, <1>5, <1>6, OwnSettleOrder

LEMMA DropOwnOrder ==
  ASSUME Ordered, NEW b \in Effects, DropOwn(b)
  PROVE  Sequenced'
<1>1. /\ effect[b] = "dropping" /\ effect' = [effect EXCEPT ![b] = "dropped"]
      /\ Settle(Level[b], b, DropState) /\ InnerDropped(b)
      /\ UNCHANGED <<ask, serve, permits, down>>
  BY DEF DropOwn
<1>2. effect'[b] = "dropped" /\ \A f \in Effects : f # b => effect'[f] = effect[f]
  BY <1>1, OrderedPipes DEF Domains
<1>3. \A f \in Effects : ServedSame(f)
  BY <1>1, Stays
<1>4. DropState \in Outcomes /\ effect'[b] \in Finals /\ effect[b] \in InHand
  BY <1>1, <1>2 DEF Outcomes, Finals, InHand, DropState
<1>5. ASSUME NEW f \in Effects, Parent[f] = b, Level[f] = Level[b]
      PROVE  effect[f] \notin {"asking", "running", "dropping"}
  <2>1. EndsInside(f) /\ Under(f, b) /\ Parent[f] # NoEffect
    BY <1>5, OrderedParts, Nesting, RoleAssumption
  <2> QED
    BY <1>1, <1>5, <2>1 DEF EndsInside, InnerDropped
<1>6. Launches(b) = {}
  BY <1>1 DEF Ordered, Orderly
<1> QED
  BY <1>1, <1>2, <1>3, <1>4, <1>5, <1>6, OwnSettleOrder

\* An effect whose admission is under way has nothing inside, and what it is inside of stays.
LEMMA AskingAlone ==
  ASSUME Ordered, NEW n \in Levels, NEW e \in Effects, ask[n][e] \in Asks
  PROVE  /\ effect[e] = "asking" /\ Parent[e] # e
         /\ \A f \in Effects : Parent[f] = e => effect[f] = "idle"
         /\ \A m \in Children : Parent[e] \notin Settling(m)
         /\ \A m \in Children : \A f \in permits[m] : Parent[f] # e
<1>1. effect[e] = "asking"
  BY OrderedParts, TransitAsking DEF Ordered
<1>2. ASSUME NEW f \in Effects, Parent[f] = e PROVE effect[f] = "idle"
  <2>1. BegunInside(f) /\ Parent[f] # NoEffect
    BY <1>2, OrderedParts, RoleAssumption
  <2>2. effect[Parent[f]] = "asking"
    BY <1>1, <1>2
  <2> QED
    BY <2>1, <2>2 DEF BegunInside
<1>3. ASSUME Parent[e] = NoEffect PROVE \A m \in Children : Parent[e] \notin Settling(m)
  BY <1>3, RoleAssumption DEF Settling, Named
<1>4. ASSUME Parent[e] # NoEffect PROVE \A m \in Children : Parent[e] \notin Settling(m)
  <2>1. PICK g \in Effects : g = Parent[e]
    BY <1>4, RoleAssumption
  <2>2. \A m \in Children : g \notin Settling(m)
    <3>1. BegunInside(e) /\ EndsInside(e) /\ Inv
      BY OrderedParts DEF Ordered
    <3>2. effect[e] \in {"asking", "running"}
      BY <1>1
    <3> QED
      BY <2>1, <3>1, <3>2, OuterHeld
  <2> QED
    BY <2>1, <2>2
<1>5. \A m \in Children : Parent[e] \notin Settling(m)
  BY <1>3, <1>4
<1>6. ASSUME NEW m \in Children, NEW f \in permits[m] PROVE Parent[f] # e
  <2>1. f \in Effects
    BY OrderedPipes DEF Domains
  <2>2. effect[f] # "idle"
    BY <2>1, OrderedParts DEF Protocol, Placed
  <2> QED
    BY <1>2, <2>1, <2>2
<1>7. Parent[e] # e
  <2>1. BegunInside(e)
    BY OrderedParts
  <2> QED
    BY <1>1, <2>1, RoleAssumption DEF BegunInside
<1> QED
  BY <1>1, <1>2, <1>5, <1>6, <1>7

\* The admission of e ends in its own process, or is answered.
LEMMA AdmittedInside ==
  ASSUME Ordered, NEW n \in Levels, NEW e \in Effects, ask[n][e] \in Asks,
         \A f \in Effects : f # e => effect'[f] = effect[f],
         effect'[e] \in {effect[e], "running", "refused"}
  PROVE  \A f \in Effects : EndsInside(f)'
<1>0. /\ effect[e] = "asking" /\ Parent[e] # e
      /\ \A f \in Effects : Parent[f] = e => effect[f] = "idle"
  BY AskingAlone
<1> SUFFICES ASSUME NEW f \in Effects, NEW g \in Effects, g = Parent[f], Level[g] = Level[f]
             PROVE  /\ effect'[f] \in {"asking", "running"} => effect'[g] = "running"
                    /\ effect'[f] = "dropping" => effect'[g] \in InHand
  BY RoleAssumption DEF EndsInside
<1>1. /\ effect[f] \in {"asking", "running"} => effect[g] = "running"
      /\ effect[f] = "dropping" => effect[g] \in InHand
  BY OrderedParts, RoleAssumption DEF EndsInside
<1>2. CASE f = e
  BY <1>0, <1>1, <1>2
<1>3. CASE f # e /\ g = e
  BY <1>0, <1>3
<1>4. CASE f # e /\ g # e
  BY <1>1, <1>4
<1> QED
  BY <1>2, <1>3, <1>4

LEMMA AdmittedTransit ==
  ASSUME Ordered, NEW n \in Levels, NEW e \in Effects, ask[n][e] \in Ready, AskEnds(n, e),
         \A f \in Effects : RequestedSame(f) /\ (f # e => AskSame(f) /\ ServedSame(f) /\ RepliedSame(f)),
         \/ n = Level[e] /\ ServedSame(e) /\ RepliedSame(e)
         \/ n < Level[e] /\ \E ok \in BOOLEAN : Answers(n, e, ok)
  PROVE  \A f \in Effects : InTransit(f)'
<1>1. InTransit(e)'
  <2>1. Domains /\ InTransit(e) /\ Protocol(e) /\ Placed(e)
    BY OrderedParts DEF Protocol
  <2>2. n <= Level[e]
    BY <2>1 DEF Placed, Ready
  <2>3. n < Level[e] => e \in Served(n + 1)
    BY <2>1 DEF Protocol, Forwarded, Ready, Asks
  <2> QED
    BY <2>1, <2>2, <2>3, TransitEnds
<1>2. ASSUME NEW f \in Effects, f # e PROVE InTransit(f)'
  <2>1. InTransit(f)
    BY OrderedParts
  <2> QED
    BY <1>2, <2>1 DEF InTransit, AskSame, ServedSame, RequestedSame, RepliedSame
<1> QED
  BY <1>1, <1>2

LEMMA GrantOrder ==
  ASSUME Ordered, NEW n \in Levels, NEW e \in Effects, Enter(n, e), MayEnter(n)
  PROVE  Sequenced'
<1>0. /\ Domains /\ PipesOnce /\ Processes /\ Protocol(e) /\ n <= Level[e]
      /\ ask[n][e] = "granted" /\ ask[n][e] \in Ready /\ ask[n][e] \in Asks
  <2>1. ask[n][e] = "granted"
    BY DEF Enter
  <2>2. Protocol(e)
    BY OrderedParts
  <2>3. n <= Level[e]
    BY <2>1, <2>2 DEF Protocol, Placed
  <2> QED
    BY <2>1, <2>2, <2>3, OrderedPipes DEF Ready, Asks
<1>1. AskEnds(n, e) /\ \A f \in Effects : f # e => AskSame(f)
  BY <1>0, AskChange DEF Enter
<1>2. gate' = [gate EXCEPT ![n].outstanding = Counted(n, e)] /\ Grant(n, e) /\ up' = up
  BY DEF Enter
<1>3. /\ \A m \in Levels : e \in Held(m)' <=> e \in Held(m) \/ m = n
      /\ \A f \in Effects : f # e => HeldSame(f)
  <2>1. PICK all \in SUBSET Effects : all = Counted(n, e)
    BY <1>0 DEF Counted, Domains, Gates
  <2>2. gate' = [gate EXCEPT ![n].outstanding = all]
    BY <1>2, <2>1
  <2>3. Domains
    BY <1>0
  <2>4. \A m \in Levels : Held(m)' = IF m = n THEN all ELSE Held(m)
    BY <2>2, <2>3, GateChange
  <2> QED
    BY <2>1, <2>4 DEF Counted, Held, HeldSame
<1>4. /\ IF Level[e] = n
         THEN effect'[e] = "running" /\ ServedSame(e) /\ RepliedSame(e) /\ PermitsSame(e)
         ELSE /\ n < Level[e] /\ effect'[e] = effect[e] /\ Answers(n, e, TRUE)
              /\ \A m \in Children : e \in permits'[m] <=> e \in permits[m] \/ m = n + 1
      /\ \A f \in Effects : f # e =>
           effect'[f] = effect[f] /\ ServedSame(f) /\ RepliedSame(f) /\ PermitsSame(f)
  BY <1>0, <1>2, GrantShape
<1>5. \A f \in Effects : RequestedSame(f) /\ SettlingSame(f)
  BY <1>2, Stays
<1>6. \A f \in Effects : InTransit(f)'
  BY <1>0, <1>1, <1>4, <1>5, AdmittedTransit
<1>7. \A f \in Effects : EndsInside(f)'
  BY <1>0, <1>4, AdmittedInside
<1>8. ASSUME NEW f \in Effects PROVE Awaited(f)'
  <2>1. CASE f # e
    BY <1>1, <1>3, <1>4, <1>5, <2>1, OrderedParts, AwaitedKept
  <2>2. CASE f = e
    <3> SUFFICES ASSUME NEW m \in Children, e \in permits'[m]
                 PROVE  e \in Held(m)' \/ ask'[m][e] = "granted" \/ e \in Allowed(m)' \/ e \in Settling(m)'
      BY <2>2 DEF Awaited
    <3>1. m \in Levels /\ Awaited(e)
      BY Places, OrderedParts
    <3>2. CASE e \in permits[m]
      <4>1. e \in Held(m) \/ ask[m][e] = "granted" \/ e \in Allowed(m) \/ e \in Settling(m)
        BY <3>1, <3>2 DEF Awaited
      <4>2. e \in Allowed(m) => e \in Allowed(m)'
        BY <1>4 DEF RepliedSame, Answers
      <4>3. ask[m][e] = "granted" => ask'[m][e] = "granted" \/ e \in Held(m)'
        BY <1>1, <1>3, <3>1 DEF AskEnds
      <4> QED
        BY <1>3, <1>5, <3>1, <4>1, <4>2, <4>3 DEF SettlingSame
    <3>3. CASE e \notin permits[m]
      BY <1>4, <3>3 DEF PermitsSame, Answers
    <3> QED
      BY <3>2, <3>3
  <2> QED
    BY <2>1, <2>2
<1>9. ASSUME NEW f \in Effects PROVE SettledInside(f)'
  <2>1. CASE f # e
    BY <1>4, <1>5, <2>1, OrderedParts, InsideKept, RoleAssumption DEF SettlingSame
  <2>2. CASE f = e
    <3>1. \A m \in Children : Parent[e] \notin Settling(m)
      BY <1>0, AskingAlone
    <3>2. \A m \in Children : NoEffect \notin Settling(m)'
      BY RoleAssumption DEF Settling, Named
    <3> QED
      BY <1>5, <2>2, <3>1, <3>2, RoleAssumption DEF SettledInside, SettlingSame
  <2> QED
    BY <2>1, <2>2
<1>10. AllInnerFirst'
  BY <1>2, OrderedPipes, OrderKept
<1> QED
  BY <1>6, <1>7, <1>8, <1>9, <1>10 DEF Sequenced

LEMMA DenialOrder ==
  ASSUME Ordered, NEW n \in Levels, NEW e \in Effects, ask[n][e] \in Ready, Refuse(n, e), AskEnds(n, e),
         \A f \in Effects : /\ HeldSame(f) /\ PermitsSame(f) /\ RequestedSame(f)
                            /\ f # e => AskSame(f) /\ SettlingSame(f),
         \A m \in Children : e \in Settling(m) => e \in Settling(m)',
         n \in Children /\ ask[n][e] = "granted" => e \in Settling(n)',
         AllInnerFirst'
  PROVE  Sequenced'
<1>0. /\ Domains /\ PipesOnce /\ Protocol(e) /\ n <= Level[e] /\ ask[n][e] \in Asks
  <2>1. Protocol(e) /\ ask[n][e] # "none" /\ ask[n][e] \in Asks
    BY OrderedParts DEF Ready, Asks
  <2>2. n <= Level[e]
    BY <2>1 DEF Protocol, Placed
  <2> QED
    BY <2>1, <2>2, OrderedPipes
<1>1. /\ IF Level[e] = n THEN effect'[e] = "refused" /\ ServedSame(e) /\ RepliedSame(e)
         ELSE n < Level[e] /\ effect'[e] = effect[e] /\ Answers(n, e, FALSE)
      /\ \A f \in Effects : f # e => effect'[f] = effect[f] /\ ServedSame(f) /\ RepliedSame(f)
  BY <1>0, RefuseShape
<1>2. \A f \in Effects : InTransit(f)'
  BY <1>1, AdmittedTransit
<1>3. \A f \in Effects : EndsInside(f)'
  BY <1>0, <1>1, AdmittedInside
<1>4. ASSUME NEW f \in Effects PROVE Awaited(f)'
  <2>1. CASE f # e
    BY <1>1, <2>1, OrderedParts, AwaitedKept
  <2>2. CASE f = e
    <3> SUFFICES ASSUME NEW m \in Children, e \in permits'[m]
                 PROVE  e \in Held(m)' \/ ask'[m][e] = "granted" \/ e \in Allowed(m)' \/ e \in Settling(m)'
      BY <2>2 DEF Awaited
    <3>1. m \in Levels /\ Awaited(e) /\ e \in permits[m]
      BY Places, OrderedParts DEF PermitsSame
    <3>2. e \in Held(m) \/ ask[m][e] = "granted" \/ e \in Allowed(m) \/ e \in Settling(m)
      BY <3>1 DEF Awaited
    <3>3. e \in Allowed(m) => e \in Allowed(m)'
      BY <1>1 DEF RepliedSame, Answers
    <3>4. ask[m][e] = "granted" => ask'[m][e] = "granted" \/ e \in Settling(m)'
      BY <3>1 DEF AskEnds
    <3> QED
      BY <3>1, <3>2, <3>3, <3>4 DEF HeldSame
  <2> QED
    BY <2>1, <2>2
<1>5. ASSUME NEW f \in Effects PROVE SettledInside(f)'
  <2> SUFFICES ASSUME NEW m \in Children, f \in permits'[m], NEW g \in Effects, g = Parent[f], g \in Settling(m)'
               PROVE  f \in Settling(m)'
    <3>1. Parent[f] = NoEffect => Parent[f] \notin Effects
      BY RoleAssumption
    <3>2. \A m \in Children : NoEffect \notin Settling(m)'
      BY RoleAssumption DEF Settling, Named
    <3> QED
      BY <3>1, <3>2, RoleAssumption DEF SettledInside
  <2>1. f \in permits[m] /\ SettledInside(f)
    BY OrderedParts DEF PermitsSame
  <2>2. g # e
    BY <1>0, <2>1, AskingAlone
  <2>3. f \in Settling(m)
    BY <2>1, <2>2 DEF SettledInside, SettlingSame
  <2> QED
    BY <2>3 DEF SettlingSame
<1> QED
  BY <1>2, <1>3, <1>4, <1>5 DEF Sequenced

LEMMA AdmissionOrder ==
  ASSUME Ordered, Orderly', NEW n \in Levels, NEW e \in Effects, Admissions(n, e)
  PROVE  Sequenced'
<1>0. Domains
  BY OrderedPipes
<1>1. CASE Enter(n, e) /\ MayEnter(n)
  BY <1>1, GrantOrder
<1>2. CASE Enter(n, e) /\ ~MayEnter(n)
  <2>1. /\ ask[n][e] = "granted" /\ ask' = [ask EXCEPT ![n][e] = "none"]
        /\ Refuse(n, e) /\ SendUp(n, Settled(e, "not_dispatched"))
        /\ gate' = gate /\ permits' = permits
    BY <1>2 DEF Enter
  <2>2. AskEnds(n, e) /\ \A f \in Effects : f # e => AskSame(f)
    BY <1>0, <2>1, AskChange
  <2>3. \A f \in Effects : HeldSame(f) /\ PermitsSame(f)
    BY <2>1, Stays
  <2>4. /\ Settled(e, "not_dispatched") \in Frames
        /\ Settled(e, "not_dispatched").type = "settled"
        /\ Settled(e, "not_dispatched").e = e
    BY FrameTypes DEF Outcomes
  <2>5. UpGains(n, "settled", e)
    BY <1>0, <2>1, <2>4, SendUpChange
  <2>6. \A f \in Effects : RequestedSame(f) /\ (f # e => SettlingSame(f))
    BY <2>5, GainsSame
  <2>7. /\ \A m \in Children : e \in Settling(m) => e \in Settling(m)'
        /\ n \in Children => e \in Settling(n)'
    BY <2>5 DEF UpGains
  <2>8. ask[n][e] \in Ready /\ ask[n][e] \in Asks
    BY <2>1 DEF Ready, Asks
  <2>9. AllInnerFirst'
    <3>1. Follows(n, Settled(e, "not_dispatched"))
      BY <2>4, <2>8, AskingAlone DEF Follows
    <3> QED
      BY <2>1, <2>4, <3>1, OrderedPipes, OrderKept
  <2> QED
    BY <2>1, <2>2, <2>3, <2>6, <2>7, <2>8, <2>9, DenialOrder
<1>3. CASE TakeRefusal(n, e)
  <2>1. /\ ask[n][e] = "refused" /\ ask' = [ask EXCEPT ![n][e] = "none"]
        /\ Refuse(n, e) /\ UNCHANGED <<gate, permits, up>>
    BY <1>3 DEF TakeRefusal
  <2>2. AskEnds(n, e) /\ \A f \in Effects : f # e => AskSame(f)
    BY <1>0, <2>1, AskChange
  <2>3. \A f \in Effects : HeldSame(f) /\ PermitsSame(f) /\ RequestedSame(f) /\ SettlingSame(f)
    BY <2>1, Stays
  <2>4. ask[n][e] \in Ready /\ ask[n][e] # "granted"
    BY <2>1 DEF Ready
  <2>5. AllInnerFirst'
    BY <2>1, OrderedPipes, OrderKept
  <2>6. \A m \in Children : e \in Settling(m) => e \in Settling(m)'
    BY <2>3 DEF SettlingSame
  <2> QED
    BY <2>1, <2>2, <2>3, <2>4, <2>5, <2>6, DenialOrder
<1>4. CASE ControlLost(n, e)
  <2>1. e \in orphaned'
    BY <1>4 DEF ControlLost
  <2> QED
    BY <2>1 DEF Orderly
<1> QED
  BY <1>1, <1>2, <1>3, <1>4 DEF Admissions

LEMMA OrderStep ==
  ASSUME Inv, InOrder, [Next]_vars
  PROVE  InOrder'
<1>1. CASE UNCHANGED vars
  <2>1. UNCHANGED <<gate, ask, effect, alive, serve, permits, up, down, orphaned>>
    BY <1>1 DEF vars, pipeVars, historyVars
  <2>2. \A n \in Children : /\ Requested(n)' = Requested(n) /\ Settling(n)' = Settling(n)
                            /\ Replied(n)' = Replied(n) /\ Allowed(n)' = Allowed(n)
                            /\ Served(n)' = Served(n)
    BY <2>1 DEF Requested, Settling, Replied, Allowed, Served
  <2>3. \A n \in Levels : Held(n)' = Held(n)
    BY <2>1 DEF Held
  <2>4. AllBegunInside' <=> AllBegunInside
    BY <2>1 DEF AllBegunInside, BegunInside
  <2>5. Orderly' <=> Orderly
    BY <2>1 DEF Orderly, Launches
  <2>6. \A e \in Effects : InTransit(e) => InTransit(e)'
    BY <2>1, <2>2 DEF InTransit
  <2>7. \A e \in Effects : EndsInside(e) => EndsInside(e)'
    BY <2>1 DEF EndsInside
  <2>8. \A e \in Effects : Awaited(e) => Awaited(e)'
    BY <2>1, <2>2, <2>3, Places DEF Awaited
  <2>9. \A e \in Effects : SettledInside(e) => SettledInside(e)'
    BY <2>1, <2>2 DEF SettledInside
  <2>10. AllInnerFirst => AllInnerFirst'
    BY <2>1 DEF AllInnerFirst
  <2> QED
    BY <2>4, <2>5, <2>6, <2>7, <2>8, <2>9, <2>10 DEF InOrder, Sequenced
<1>2. CASE Next
  <2>1. AllBegunInside'
    BY <1>2, BegunStep DEF InOrder
  <2>2. ASSUME Orderly' PROVE Sequenced'
    <3>1. Ordered
      BY <1>2, <2>2, OrderlyBack DEF InOrder, Ordered
    <3>2. ASSUME NEW e \in Effects, Begin(e) \/ Started(e) PROVE Sequenced'
      BY <2>2, <3>1, <3>2, BeginOrder, CompleteOrder, EndsOrder, DropOwnOrder DEF Started
    <3>3. ASSUME NEW n \in Levels, NEW e \in Effects, Admissions(n, e) PROVE Sequenced'
      BY <2>2, <3>1, <3>3, AdmissionOrder
    <3>4. ASSUME NEW n \in Children, Conversation(n) PROVE Sequenced'
      BY <3>1, <3>4, AdmitOrder, SettledOrder, ResultOrder, TakeOrder, ExitOrder DEF Conversation
    <3>5. ASSUME NEW n \in Children, NEW e \in Effects, DropKept(n, e) PROVE Sequenced'
      BY <3>1, <3>5, DropKeptCalm
    <3>6. CASE Revoke
      BY <3>1, <3>6, RevokeOrder
    <3> QED
      BY <1>2, <3>2, <3>3, <3>4, <3>5, <3>6 DEF Next, Running
  <2> QED
    BY <2>1, <2>2 DEF InOrder
<1> QED
  BY <1>1, <1>2

LEMMA OrderInit == Init => InOrder
<1> SUFFICES ASSUME Init PROVE InOrder
  OBVIOUS
<1>1. /\ ask = [n \in Levels |-> NoAsks]
      /\ effect = [e \in Effects |-> "idle"]
      /\ serve = [n \in Children |-> [pc |-> "off", e |-> NoEffect]]
      /\ permits = [n \in Children |-> {}]
      /\ up = [n \in Children |-> <<>>]
      /\ down = [n \in Children |-> <<>>]
  BY DEF Init
<1>2. \A m \in Levels, e \in Effects : ask[m][e] = "none"
  BY <1>1 DEF NoAsks
<1>3. \A m \in Children : permits[m] = {} /\ up[m] = <<>> /\ down[m] = <<>> /\ serve[m].pc = "off"
  BY <1>1
<1>4. \A e \in Effects : effect[e] = "idle"
  BY <1>1
<1>5. \A m \in Children, e \in Effects : e \notin Requested(m) /\ e \notin Served(m) /\ e \notin Replied(m)
  BY <1>3 DEF Requested, Served, Replied, Named, Answered
<1>6. AllBegunInside
  BY <1>4 DEF AllBegunInside, BegunInside
<1>7. \A e \in Effects : InTransit(e)
  BY <1>2, <1>5 DEF InTransit, Asks
<1>8. \A e \in Effects : EndsInside(e)
  BY <1>4 DEF EndsInside
<1>9. \A e \in Effects : Awaited(e) /\ SettledInside(e)
  BY <1>3 DEF Awaited, SettledInside
<1>10. AllInnerFirst
  BY <1>3 DEF AllInnerFirst, InnerFirst
<1> QED
  BY <1>6, <1>7, <1>8, <1>9, <1>10 DEF InOrder, Sequenced

\* A child breaks the rules of its channel only after the host or a process of the chain
\* lost an admission or dropped a launch: otherwise what `native` reads of an effect is
\* within a permit it keeps, and settled after everything inside it.
THEOREM BreachCorrect == Spec => []BreachExplained
<1>1. Init => Inv /\ InOrder
  BY InvInit, OrderInit
<1>2. Inv /\ InOrder /\ [Next]_vars => (Inv /\ InOrder)'
  BY InvStep, OrderStep
<1>3. Inv /\ InOrder => BreachExplained
  BY ExplainedByOrder
<1> QED
  BY <1>1, <1>2, <1>3, PTL DEF Spec

=============================================================================
