--------------------------- MODULE SessionProofs ---------------------------
(* Proofs about Session: whatever fails and wherever a signal comes, nothing   *)
(* dead is used, no function gets a NULL pointer but in the three known places, *)
(* and an ended program holds no device.                                       *)
EXTENDS Session, SequenceTheorems, TLAPS

-----------------------------------------------------------------------------
(* Scripts: what is left of a function is judged by the positions of its steps, *)
(* so that taking the first step off leaves the judgement intact.               *)

Steps ==
  {s \in [do : {"open", "use", "try", "close", "shut"}, with : SUBSET Handles] :
     s.do \in {"open", "close", "shut"} => \E h \in Handles : s.with = {h}}

\* The kinds of steps of a function.
Kinds(p) ==
  IF p = "cleanup" THEN {"close", "try"}
  ELSE IF p = "out" THEN {"use", "try", "shut"}
  ELSE IF p \in {"play", "last"} THEN {"use"}
  ELSE IF p \in {"init", "configure", "start"} THEN {"open", "use", "try"}
  ELSE {}

\* video_init opens no device, and a demux task is plaympeg's.
ProperStep(pl, p, st) ==
  /\ st.do \in Kinds(p)
  /\ st.do = "open" /\ p = "init" => st.with \cap Devices = {}
  /\ st.do = "open" /\ "demux" \in st.with => pl = "mpeg"

\* The pool is closed at the very end of a function.
Proper(pl, p, s) ==
  /\ s \in Seq(Steps)
  /\ \A i \in 1..Len(s) : ProperStep(pl, p, s[i])
  /\ \A i \in 1..Len(s) : s[i].do = "shut" => i = Len(s) /\ s[i].with = {"pool"}

Opens(st, h) == st.do = "open" /\ h \in st.with
Closes(st, h) == st.do = "close" /\ h \in st.with

\* What the steps of s get.
Gets(s) == {h \in Handles : \E j \in 1..Len(s) : Opens(s[j], h)}

\* With the handles a to begin with, every step of s has what it uses.
Sound(s, a) ==
  \A i \in 1..Len(s) : s[i].do \in {"use", "try", "shut"} =>
    \A h \in s[i].with : h \in a \/ \E j \in 1..i - 1 : Opens(s[j], h)

\* s closes d, and does so before the instance, which the close of a device reads.
Due(s, d) ==
  \E j \in 1..Len(s) :
    /\ Closes(s[j], d)
    /\ \A i \in 1..Len(s) : Closes(s[i], "rua") => j < i

LEMMA TailOf ==
  ASSUME NEW s \in Seq(Steps), s # <<>>
  PROVE  /\ Tail(s) \in Seq(Steps) /\ Len(s) \in Nat /\ Len(s) >= 1
         /\ Len(Tail(s)) = Len(s) - 1
         /\ \A i \in 1..Len(s) - 1 : Tail(s)[i] = s[i + 1]
         /\ Head(s) = s[1] /\ Head(s) \in Steps
<1>1. Len(s) \in Nat \ {0}
  BY EmptySeq
<1>2. Head(s) = s[1]
  OBVIOUS
<1> QED
  BY <1>1, <1>2, HeadTailProperties

LEMMA ProperTail ==
  ASSUME NEW pl, NEW p, NEW s, Proper(pl, p, s), s # <<>>
  PROVE  Proper(pl, p, Tail(s))
<1>1. s \in Seq(Steps)
  BY DEF Proper
<1>2. \A i \in 1..Len(Tail(s)) : i + 1 \in 1..Len(s) /\ Tail(s)[i] = s[i + 1]
  BY <1>1, TailOf
<1>3. \A i \in 1..Len(Tail(s)) : ProperStep(pl, p, Tail(s)[i])
  BY <1>2 DEF Proper
<1>4. \A i \in 1..Len(Tail(s)) : i + 1 = Len(s) => i = Len(Tail(s))
  BY <1>1, TailOf
<1>5. \A i \in 1..Len(Tail(s)) :
        Tail(s)[i].do = "shut" => i = Len(Tail(s)) /\ Tail(s)[i].with = {"pool"}
  BY <1>2, <1>4 DEF Proper
<1> QED
  BY <1>1, <1>3, <1>5, TailOf DEF Proper

\* What the first step opens is there for the rest.
LEMMA SoundTail ==
  ASSUME NEW s \in Seq(Steps), s # <<>>, NEW a, NEW b, Sound(s, a), a \subseteq b,
         \A h : Opens(Head(s), h) => h \in b
  PROVE  Sound(Tail(s), b)
<1>1. \A i \in 1..Len(Tail(s)) : i + 1 \in 1..Len(s) /\ Tail(s)[i] = s[i + 1]
  BY TailOf
<1> SUFFICES ASSUME NEW i \in 1..Len(Tail(s)), Tail(s)[i].do \in {"use", "try", "shut"},
                    NEW h \in Tail(s)[i].with, h \notin b
             PROVE  \E j \in 1..i - 1 : Opens(Tail(s)[j], h)
  BY DEF Sound
<1>2. h \notin a /\ h \in s[i + 1].with /\ s[i + 1].do \in {"use", "try", "shut"}
  BY <1>1
<1>3. PICK j \in 1..(i + 1) - 1 : Opens(s[j], h)
  BY <1>1, <1>2 DEF Sound
<1>4. j # 1
  BY <1>3, TailOf
<1>5. j - 1 \in 1..i - 1 /\ j - 1 \in 1..Len(Tail(s)) /\ (j - 1) + 1 = j
  BY <1>3, <1>4, TailOf
<1> QED
  BY <1>1, <1>3, <1>5

LEMMA GetsTail ==
  ASSUME NEW s \in Seq(Steps), s # <<>>, NEW h \in Gets(s), ~Opens(Head(s), h)
  PROVE  h \in Gets(Tail(s))
<1>1. PICK j \in 1..Len(s) : Opens(s[j], h)
  BY DEF Gets
<1>2. j # 1
  BY <1>1, TailOf
<1>3. j - 1 \in 1..Len(Tail(s)) /\ Tail(s)[j - 1] = s[j]
  BY <1>1, <1>2, TailOf
<1> QED
  BY <1>1, <1>3 DEF Gets

LEMMA DueTail ==
  ASSUME NEW s \in Seq(Steps), s # <<>>, NEW d, Due(s, d), ~Closes(Head(s), d)
  PROVE  Due(Tail(s), d)
<1>1. PICK j \in 1..Len(s) :
        /\ Closes(s[j], d)
        /\ \A i \in 1..Len(s) : Closes(s[i], "rua") => j < i
  BY DEF Due
<1>2. j # 1
  BY <1>1, TailOf
<1>3. j - 1 \in 1..Len(Tail(s)) /\ Tail(s)[j - 1] = s[j]
  BY <1>1, <1>2, TailOf
<1>4. ASSUME NEW i \in 1..Len(Tail(s)), Closes(Tail(s)[i], "rua") PROVE j - 1 < i
  <2>1. i + 1 \in 1..Len(s) /\ Closes(s[i + 1], "rua")
    BY <1>4, TailOf
  <2> QED
    BY <1>1, <2>1
<1> QED
  BY <1>1, <1>3, <1>4 DEF Due

\* The instance is closed when no device is due any more.
LEMMA DueFirst ==
  ASSUME NEW s \in Seq(Steps), s # <<>>, NEW d, Closes(Head(s), "rua")
  PROVE  ~Due(s, d)
BY TailOf DEF Due

-----------------------------------------------------------------------------
(* The scripts of the programs *)

\* s is a script for p that has what it uses if a is there, and then b is there.
Script(pl, p, s, a, b) ==
  /\ Proper(pl, p, s)
  /\ \A i \in 1..Len(s) : s[i].do # "shut"
  /\ Sound(s, a)
  /\ b \subseteq a \cup Gets(s)

LEMMA ProperConcat ==
  ASSUME NEW pl, NEW p, NEW s, NEW t, Proper(pl, p, s), Proper(pl, p, t),
         \A i \in 1..Len(s) : s[i].do # "shut"
  PROVE  Proper(pl, p, s \o t)
<1>1. s \in Seq(Steps) /\ t \in Seq(Steps) /\ Len(s) \in Nat /\ Len(t) \in Nat
  BY LenProperties DEF Proper
<1>2. /\ s \o t \in Seq(Steps) /\ Len(s \o t) = Len(s) + Len(t)
      /\ \A i \in 1..Len(s) + Len(t) : (s \o t)[i] = IF i <= Len(s) THEN s[i] ELSE t[i - Len(s)]
  BY <1>1, ConcatProperties
<1> SUFFICES ASSUME NEW i \in 1..Len(s \o t)
             PROVE  /\ ProperStep(pl, p, (s \o t)[i])
                    /\ (s \o t)[i].do = "shut" =>
                         i = Len(s \o t) /\ (s \o t)[i].with = {"pool"}
  BY <1>2 DEF Proper
<1>3. CASE i <= Len(s)
  <2>1. i \in 1..Len(s) /\ (s \o t)[i] = s[i]
    BY <1>1, <1>2, <1>3
  <2> QED
    BY <2>1 DEF Proper
<1>4. CASE ~(i <= Len(s))
  <2>1. i - Len(s) \in 1..Len(t) /\ (s \o t)[i] = t[i - Len(s)]
    BY <1>1, <1>2, <1>4
  <2>2. i - Len(s) = Len(t) => i = Len(s \o t)
    BY <1>1, <1>2
  <2> QED
    BY <2>1, <2>2 DEF Proper
<1> QED
  BY <1>3, <1>4

LEMMA SoundConcat ==
  ASSUME NEW s \in Seq(Steps), NEW t \in Seq(Steps), NEW a, NEW b,
         Sound(s, a), Sound(t, b), b \subseteq a \cup Gets(s)
  PROVE  Sound(s \o t, a)
<1>1. Len(s) \in Nat /\ Len(t) \in Nat
  BY LenProperties
<1>2. /\ s \o t \in Seq(Steps) /\ Len(s \o t) = Len(s) + Len(t)
      /\ \A i \in 1..Len(s) + Len(t) : (s \o t)[i] = IF i <= Len(s) THEN s[i] ELSE t[i - Len(s)]
  BY ConcatProperties
<1> SUFFICES ASSUME NEW i \in 1..Len(s \o t), (s \o t)[i].do \in {"use", "try", "shut"},
                    NEW h \in (s \o t)[i].with, h \notin a
             PROVE  \E j \in 1..i - 1 : Opens((s \o t)[j], h)
  BY DEF Sound
<1>3. CASE i <= Len(s)
  <2>1. i \in 1..Len(s) /\ (s \o t)[i] = s[i]
    BY <1>1, <1>2, <1>3
  <2>2. PICK j \in 1..i - 1 : Opens(s[j], h)
    BY <2>1 DEF Sound
  <2>3. (s \o t)[j] = s[j]
    BY <1>1, <1>2, <2>1, <2>2
  <2> QED
    BY <2>2, <2>3
<1>4. CASE ~(i <= Len(s)) /\ h \in b
  <2>1. PICK j \in 1..Len(s) : Opens(s[j], h)
    BY <1>4 DEF Gets
  <2>2. j \in 1..i - 1 /\ (s \o t)[j] = s[j]
    BY <1>1, <1>2, <1>4, <2>1
  <2> QED
    BY <2>1, <2>2
<1>5. CASE ~(i <= Len(s)) /\ h \notin b
  <2>1. i - Len(s) \in 1..Len(t) /\ (s \o t)[i] = t[i - Len(s)]
    BY <1>1, <1>2, <1>5
  <2>2. PICK j \in 1..(i - Len(s)) - 1 : Opens(t[j], h)
    BY <1>5, <2>1 DEF Sound
  <2>3. j + Len(s) \in 1..i - 1 /\ (s \o t)[j + Len(s)] = t[j]
    BY <1>1, <1>2, <1>5, <2>1, <2>2
  <2> QED
    BY <2>2, <2>3
<1> QED
  BY <1>3, <1>4, <1>5

LEMMA GetsConcat ==
  ASSUME NEW s \in Seq(Steps), NEW t \in Seq(Steps)
  PROVE  Gets(s) \cup Gets(t) \subseteq Gets(s \o t)
<1>1. Len(s) \in Nat /\ Len(t) \in Nat
  BY LenProperties
<1>2. /\ Len(s \o t) = Len(s) + Len(t)
      /\ \A i \in 1..Len(s) + Len(t) : (s \o t)[i] = IF i <= Len(s) THEN s[i] ELSE t[i - Len(s)]
  BY ConcatProperties
<1>3. \A j \in 1..Len(s) : j \in 1..Len(s \o t) /\ (s \o t)[j] = s[j]
  BY <1>1, <1>2
<1>4. \A j \in 1..Len(t) : j + Len(s) \in 1..Len(s \o t) /\ (s \o t)[j + Len(s)] = t[j]
  BY <1>1, <1>2
<1>5. ASSUME NEW h \in Gets(s) PROVE h \in Gets(s \o t)
  BY <1>3 DEF Gets
<1>6. ASSUME NEW h \in Gets(t) PROVE h \in Gets(s \o t)
  BY <1>4 DEF Gets
<1> QED
  BY <1>5, <1>6

LEMMA ScriptConcat ==
  ASSUME NEW pl, NEW p, NEW s, NEW t, NEW a, NEW b, NEW c,
         Script(pl, p, s, a, b), Script(pl, p, t, b, c)
  PROVE  Script(pl, p, s \o t, a, c)
<1>1. s \in Seq(Steps) /\ t \in Seq(Steps) /\ Len(s) \in Nat /\ Len(t) \in Nat
  BY LenProperties DEF Script, Proper
<1>2. Proper(pl, p, s \o t) /\ Sound(s \o t, a)
  BY <1>1, ProperConcat, SoundConcat DEF Script
<1>3. c \subseteq a \cup Gets(s \o t)
  BY <1>1, GetsConcat DEF Script
<1>4. ASSUME NEW i \in 1..Len(s \o t) PROVE (s \o t)[i].do # "shut"
  <2>1. \/ i \in 1..Len(s) /\ (s \o t)[i] = s[i]
        \/ i - Len(s) \in 1..Len(t) /\ (s \o t)[i] = t[i - Len(s)]
    BY <1>1, ConcatProperties
  <2> QED
    BY <2>1 DEF Script
<1> QED
  BY <1>2, <1>3, <1>4 DEF Script

LEMMA StepsAre ==
  /\ \A h \in Handles : /\ Open(h) \in Steps /\ Close(h) \in Steps /\ Shut(h) \in Steps
                        /\ Open(h).do = "open" /\ Open(h).with = {h}
                        /\ Close(h).do = "close" /\ Close(h).with = {h}
                        /\ Shut(h).do = "shut" /\ Shut(h).with = {h}
  /\ \A s \in SUBSET Handles : /\ Use(s) \in Steps /\ Try(s) \in Steps
                               /\ Use(s).do = "use" /\ Use(s).with = s
                               /\ Try(s).do = "try" /\ Try(s).with = s
BY DEF Steps, Open, Close, Shut, Use, Try

\* One step.
LEMMA ScriptOne ==
  ASSUME NEW pl, NEW p, NEW st \in Steps, NEW a, NEW b,
         ProperStep(pl, p, st), st.do # "shut",
         st.do \in {"use", "try"} => st.with \subseteq a,
         b \subseteq a \cup {h \in Handles : Opens(st, h)}
  PROVE  Script(pl, p, <<st>>, a, b)
<1>1. <<st>> \in Seq(Steps) /\ Len(<<st>>) = 1 /\ <<st>>[1] = st
  OBVIOUS
<1> DEFINE s == <<st>>
<1>2. s \in Seq(Steps) /\ Len(s) = 1 /\ s[1] = st
  BY <1>1
<1> HIDE DEF s
<1>3. Proper(pl, p, s) /\ \A i \in 1..Len(s) : s[i].do # "shut"
  BY <1>2 DEF Proper
<1>4. Sound(s, a)
  BY <1>2 DEF Sound
<1>5. \A h \in Handles : Opens(st, h) => h \in Gets(s)
  BY <1>2 DEF Gets
<1>6. Script(pl, p, s, a, b)
  BY <1>3, <1>4, <1>5 DEF Script
<1> QED
  BY <1>6 DEF s

\* Steps that only use what is there.
LEMMA ScriptUses ==
  ASSUME NEW pl, NEW p, NEW s \in Seq(Steps), NEW a, "use" \in Kinds(p),
         \A i \in 1..Len(s) :
           s[i].do \in {"use", "try"} /\ s[i].do \in Kinds(p) /\ s[i].with \subseteq a
  PROVE  Script(pl, p, s, a, a)
BY DEF Script, Proper, ProperStep, Sound

LEMMA VideoInitScript ==
  ASSUME NEW pl
  PROVE  Script(pl, "init", VideoInit, {}, {"rua", "dcc"})
<1> DEFINE s == VideoInit
<1>1. /\ s \in Seq(Steps) /\ Len(s) = 3
      /\ s[1] = Open("rua") /\ s[2] = Open("dcc") /\ s[3] = Use({"dcc"})
  BY StepsAre DEF VideoInit, Handles, Devices
<1> HIDE DEF s
<1>2. /\ s[1].do = "open" /\ s[1].with = {"rua"}
      /\ s[2].do = "open" /\ s[2].with = {"dcc"}
      /\ s[3].do = "use" /\ s[3].with = {"dcc"}
  BY <1>1 DEF Open, Use
<1>3. Proper(pl, "init", s) /\ \A i \in 1..Len(s) : s[i].do # "shut"
  BY <1>1, <1>2 DEF Proper, ProperStep, Kinds, Devices
<1>4. Sound(s, {})
  BY <1>1, <1>2 DEF Sound, Opens
<1>5. "rua" \in Gets(s) /\ "dcc" \in Gets(s)
  BY <1>1, <1>2 DEF Gets, Opens, Handles
<1> QED
  BY <1>3, <1>4, <1>5 DEF Script, s

LEMMA InitGets ==
  ASSUME player \in {"raw", "mp4", "mpeg"}
  PROVE  Script(player, "init", InitScript, {}, {"rua", "dcc"})
<1>1. Script(player, "init", <<Open("rc")>>, {"rua", "dcc"}, {"rua", "dcc"})
  <2>1. /\ Open("rc") \in Steps /\ Open("rc").do = "open" /\ Open("rc").with = {"rc"}
    BY StepsAre DEF Handles
  <2>2. ProperStep(player, "init", Open("rc"))
    BY <2>1 DEF ProperStep, Kinds, Devices
  <2> QED
    BY <2>1, <2>2, ScriptOne
<1>2. Script(player, "init", VideoInit \o <<Open("rc")>>, {}, {"rua", "dcc"})
  BY <1>1, VideoInitScript, ScriptConcat
<1> QED
  BY <1>2, VideoInitScript DEF InitScript

LEMMA SetVideoScript ==
  ASSUME NEW pl, NEW a, "dcc" \in a
  PROVE  Script(pl, "configure", SetVideo, a, a \cup {"video"})
<1> DEFINE s == SetVideo
<1>1. /\ s \in Seq(Steps) /\ Len(s) = 4
      /\ s[1] = Open("video") /\ s[2] = Use({"video"})
      /\ s[3] = Use({"dcc"}) /\ s[4] = Use({"dcc", "video"})
  BY StepsAre DEF SetVideo, Handles, Devices
<1> HIDE DEF s
<1>2. /\ s[1].do = "open" /\ s[1].with = {"video"}
      /\ s[2].do = "use" /\ s[2].with = {"video"}
      /\ s[3].do = "use" /\ s[3].with = {"dcc"}
      /\ s[4].do = "use" /\ s[4].with = {"dcc", "video"}
  BY <1>1 DEF Open, Use
<1>3. Proper(pl, "configure", s) /\ \A i \in 1..Len(s) : s[i].do # "shut"
  BY <1>1, <1>2 DEF Proper, ProperStep, Kinds
<1>4. Sound(s, a)
  BY <1>1, <1>2 DEF Sound, Opens
<1>5. "video" \in Gets(s)
  BY <1>1, <1>2 DEF Gets, Opens, Handles, Devices
<1> QED
  BY <1>3, <1>4, <1>5 DEF Script, s

LEMMA SetAudioScript ==
  ASSUME NEW pl, NEW a
  PROVE  Script(pl, "configure", SetAudio, a, a \cup {"audio"})
<1> DEFINE s == SetAudio
<1>1. /\ s \in Seq(Steps) /\ Len(s) = 2
      /\ s[1] = Open("audio") /\ s[2] = Use({"audio"})
  BY StepsAre DEF SetAudio, Handles, Devices
<1> HIDE DEF s
<1>2. /\ s[1].do = "open" /\ s[1].with = {"audio"}
      /\ s[2].do = "use" /\ s[2].with = {"audio"}
  BY <1>1 DEF Open, Use
<1>3. Proper(pl, "configure", s) /\ \A i \in 1..Len(s) : s[i].do # "shut"
  BY <1>1, <1>2 DEF Proper, ProperStep, Kinds
<1>4. Sound(s, a)
  BY <1>1, <1>2 DEF Sound, Opens
<1>5. "audio" \in Gets(s)
  BY <1>1, <1>2 DEF Gets, Opens, Handles, Devices
<1> QED
  BY <1>3, <1>4, <1>5 DEF Script, s

LEMMA RawConfigureScript ==
  ASSUME NEW pl
  PROVE  Script(pl, "configure", RawConfigure, {"rua", "dcc"},
                {"rua", "dcc", "stc", "video", "audio"})
<1> DEFINE a == {"rua", "dcc"}
           b == a \cup {"stc"}
           c == b \cup {"video"}
           d == c \cup {"audio"}
<1>1. Script(pl, "configure", <<Open("stc")>>, a, b)
  <2>1. /\ Open("stc") \in Steps /\ Open("stc").do = "open" /\ Open("stc").with = {"stc"}
    BY StepsAre DEF Handles, Devices
  <2>2. ProperStep(pl, "configure", Open("stc"))
    BY <2>1 DEF ProperStep, Kinds
  <2>3. b \subseteq a \cup {h \in Handles : Opens(Open("stc"), h)}
    BY <2>1 DEF Opens, Handles, Devices
  <2> HIDE DEF a, b
  <2> QED
    BY <2>1, <2>2, <2>3, ScriptOne
<1>2. Script(pl, "configure", SetVideo, b, c) /\ Script(pl, "configure", SetAudio, c, d)
  <2>1. "dcc" \in b
    OBVIOUS
  <2> HIDE DEF b
  <2> QED
    BY <2>1, SetVideoScript, SetAudioScript
<1>3. Script(pl, "configure", <<Use({"video"})>>, d, d)
  <2>1. Use({"video"}) \in Steps /\ Use({"video"}).do = "use" /\ Use({"video"}).with = {"video"}
    BY StepsAre DEF Handles, Devices
  <2>2. ProperStep(pl, "configure", Use({"video"})) /\ "video" \in d
    BY <2>1 DEF ProperStep, Kinds
  <2> HIDE DEF d
  <2> QED
    BY <2>1, <2>2, ScriptOne
<1>4. d = {"rua", "dcc", "stc", "video", "audio"}
  OBVIOUS
<1> HIDE DEF a, b, c, d
<1>5. Script(pl, "configure", <<Open("stc")>> \o SetVideo, a, c)
  BY <1>1, <1>2, ScriptConcat
<1>6. Script(pl, "configure", (<<Open("stc")>> \o SetVideo) \o SetAudio, a, d)
  BY <1>2, <1>5, ScriptConcat
<1>7. Script(pl, "configure", ((<<Open("stc")>> \o SetVideo) \o SetAudio) \o <<Use({"video"})>>, a, d)
  BY <1>3, <1>6, ScriptConcat
<1> QED
  BY <1>4, <1>7 DEF RawConfigure, a

LEMMA DemuxConfigureScript ==
  ASSUME NEW a, "rua" \in a
  PROVE  Script("mpeg", "configure", DemuxConfigure, a, a \cup {"demux", "stc"})
<1> DEFINE s == DemuxConfigure
<1>1. /\ s \in Seq(Steps) /\ Len(s) = 4
      /\ s[1] = Open("demux") /\ s[2] = Use({"demux"})
      /\ s[3] = Open("stc") /\ s[4] = Use({"rua"})
  BY StepsAre DEF DemuxConfigure, Handles, Devices
<1> HIDE DEF s
<1>2. /\ s[1].do = "open" /\ s[1].with = {"demux"}
      /\ s[2].do = "use" /\ s[2].with = {"demux"}
      /\ s[3].do = "open" /\ s[3].with = {"stc"}
      /\ s[4].do = "use" /\ s[4].with = {"rua"}
  BY <1>1 DEF Open, Use
<1>3. Proper("mpeg", "configure", s) /\ \A i \in 1..Len(s) : s[i].do # "shut"
  BY <1>1, <1>2 DEF Proper, ProperStep, Kinds
<1>4. Sound(s, a)
  BY <1>1, <1>2 DEF Sound, Opens
<1>5. "demux" \in Gets(s) /\ "stc" \in Gets(s)
  BY <1>1, <1>2 DEF Gets, Opens, Handles, Devices
<1> QED
  BY <1>3, <1>4, <1>5 DEF Script, s

LEMMA MpegConfigureScript ==
  Script("mpeg", "configure", MpegConfigure, {"rua", "dcc"},
         {"rua", "dcc", "stc", "video", "audio", "demux"})
<1> DEFINE a == {"rua", "dcc"}
           b == a \cup {"demux", "stc"}
           c == b \cup {"video"}
           d == c \cup {"audio"}
           Gives(s, x, y) == Script("mpeg", "configure", s, x, y)
<1>1. "rua" \in a /\ "rua" \in b /\ "dcc" \in b /\ "rua" \in c /\ "dcc" \in d /\ "video" \in d
  OBVIOUS
<1>2. d = {"rua", "dcc", "stc", "video", "audio", "demux"}
  OBVIOUS
<1> HIDE DEF a
<1>3. Gives(DemuxConfigure, a, b)
  BY <1>1, DemuxConfigureScript
<1> HIDE DEF b
<1>4. Gives(SetVideo, b, c)
  BY <1>1, SetVideoScript
<1> HIDE DEF c
<1>5. Gives(SetAudio, c, d)
  BY <1>1, SetAudioScript
<1> HIDE DEF d
<1>6. Gives(DemuxEntries, b, b)
  <2>1. DemuxEntries \in Seq(Steps) /\ Len(DemuxEntries) = 1 /\ DemuxEntries[1] = Use({"rua"})
    BY StepsAre DEF DemuxEntries, Handles
  <2>2. \A i \in 1..Len(DemuxEntries) : DemuxEntries[i].do = "use" /\ DemuxEntries[i].with \subseteq b
    BY <1>1, <2>1 DEF Use
  <2> QED
    BY <2>1, <2>2, ScriptUses DEF Kinds
<1>7. Gives(<<Use({"rua"}), Try({"rua"})>>, c, c)
  <2> DEFINE s == <<Use({"rua"}), Try({"rua"})>>
  <2>1. s \in Seq(Steps) /\ Len(s) = 2 /\ s[1] = Use({"rua"}) /\ s[2] = Try({"rua"})
    BY StepsAre DEF Handles
  <2> HIDE DEF s
  <2>2. \A i \in 1..Len(s) : s[i].do \in {"use", "try"} /\ s[i].with \subseteq c
    BY <1>1, <2>1 DEF Use, Try
  <2>3. Gives(s, c, c)
    BY <2>1, <2>2, ScriptUses DEF Kinds
  <2> QED
    BY <2>3 DEF s
<1>8. Gives(<<Use({"dcc"}), Use({"video"})>>, d, d)
  <2> DEFINE s == <<Use({"dcc"}), Use({"video"})>>
  <2>1. s \in Seq(Steps) /\ Len(s) = 2 /\ s[1] = Use({"dcc"}) /\ s[2] = Use({"video"})
    BY StepsAre DEF Handles, Devices
  <2> HIDE DEF s
  <2>2. \A i \in 1..Len(s) : s[i].do = "use" /\ s[i].with \subseteq d
    BY <1>1, <2>1 DEF Use
  <2>3. Gives(s, d, d)
    BY <2>1, <2>2, ScriptUses DEF Kinds
  <2> QED
    BY <2>3 DEF s
<1> HIDE DEF Gives
<1> DEFINE s1 == DemuxConfigure \o DemuxEntries
           s2 == s1 \o SetVideo
           s3 == s2 \o <<Use({"rua"}), Try({"rua"})>>
           s4 == s3 \o SetAudio
<1>9. ASSUME NEW s, NEW t, NEW x, NEW y, NEW z, Gives(s, x, y), Gives(t, y, z)
      PROVE  Gives(s \o t, x, z)
  BY <1>9, ScriptConcat DEF Gives
<1>10. Gives(s1, a, b)
  BY <1>3, <1>6, <1>9
<1>11. Gives(s2, a, c)
  BY <1>4, <1>9, <1>10
<1>12. Gives(s3, a, c)
  BY <1>7, <1>9, <1>11
<1>13. Gives(s4, a, d)
  BY <1>5, <1>9, <1>12
<1>14. Gives(s4 \o <<Use({"dcc"}), Use({"video"})>>, a, d)
  BY <1>8, <1>9, <1>13
<1> QED
  BY <1>2, <1>14 DEF MpegConfigure, Gives, a

\* The handles a configured player has.
Configured(pl) ==
  {"rua", "dcc", "stc", "video", "audio"} \cup (IF pl = "mpeg" THEN {"demux"} ELSE {})

LEMMA ConfigureGets ==
  ASSUME player \in {"raw", "mp4", "mpeg"}
  PROVE  Script(player, "configure", Configure, {"rua", "dcc"}, Configured(player))
<1>1. CASE player = "mpeg"
  <2>1. Configured(player) = {"rua", "dcc", "stc", "video", "audio", "demux"}
    BY <1>1 DEF Configured
  <2> QED
    BY <1>1, <2>1, MpegConfigureScript DEF Configure
<1>2. CASE player \in {"raw", "mp4"}
  <2>1. Configured(player) = {"rua", "dcc", "stc", "video", "audio"}
    BY <1>2 DEF Configured
  <2>2. Configure = RawConfigure
    BY <1>2 DEF Configure, Mp4Configure
  <2> QED
    BY <2>1, <2>2, RawConfigureScript
<1> QED
  BY <1>1, <1>2

LEMMA StartGets ==
  ASSUME player \in {"raw", "mp4", "mpeg"}
  PROVE  Script(player, "start", Start, Configured(player), Configured(player) \cup {"pool"})
<1> DEFINE s == Start
           a == Configured(player)
<1>1. \E n \in Nat : /\ s \in Seq(Steps) /\ Len(s) = n /\ n >= 1 /\ s[1] = Open("pool")
                     /\ \A i \in 2..n : s[i].do = "use" /\ s[i].with \subseteq a
  <2>0. {"rua", "stc", "video", "audio"} \subseteq a
    BY DEF Configured
  <2>1. CASE player = "raw"
    <3>1. /\ s \in Seq(Steps) /\ Len(s) = 5 /\ s[1] = Open("pool")
          /\ s[2] = Use({"stc"}) /\ s[3] = Use({"video"}) /\ s[4] = Use({"audio"})
          /\ s[5] = Use({"stc"})
      BY <2>1, StepsAre DEF Start, RawStart, Handles, Devices
    <3> HIDE DEF s, a
    <3>2. \A i \in 2..5 : s[i].do = "use" /\ s[i].with \subseteq a
      BY <2>0, <3>1 DEF Use
    <3> QED
      BY <3>1, <3>2
  <2>2. CASE player = "mp4"
    <3>1. /\ s \in Seq(Steps) /\ Len(s) = 4 /\ s[1] = Open("pool")
          /\ s[2] = Use({"stc"}) /\ s[3] = Use({"video"}) /\ s[4] = Use({"audio"})
      BY <2>2, StepsAre DEF Start, Mp4Start, Handles, Devices
    <3> HIDE DEF s, a
    <3>2. \A i \in 2..4 : s[i].do = "use" /\ s[i].with \subseteq a
      BY <2>0, <3>1 DEF Use
    <3> QED
      BY <3>1, <3>2
  <2>3. CASE player = "mpeg"
    <3>1. /\ s \in Seq(Steps) /\ Len(s) = 7 /\ s[1] = Open("pool") /\ s[2] = Use({"rua"})
          /\ s[3] = Use({"stc"}) /\ s[4] = Use({"video"}) /\ s[5] = Use({"audio"})
          /\ s[6] = Use({"demux"}) /\ s[7] = Use({"stc"})
      BY <2>3, StepsAre DEF Start, MpegStart, Handles, Devices
    <3>3. "demux" \in a
      BY <2>3 DEF Configured
    <3> HIDE DEF s, a
    <3>2. \A i \in 2..7 : s[i].do = "use" /\ s[i].with \subseteq a
      BY <2>0, <3>1, <3>3 DEF Use
    <3> QED
      BY <3>1, <3>2
  <2> QED
    BY <2>1, <2>2, <2>3
<1> HIDE DEF s, a
<1>2. PICK n \in Nat : /\ s \in Seq(Steps) /\ Len(s) = n /\ n >= 1 /\ s[1] = Open("pool")
                       /\ \A i \in 2..n : s[i].do = "use" /\ s[i].with \subseteq a
  BY <1>1
<1>3. s[1].do = "open" /\ s[1].with = {"pool"}
  BY <1>2 DEF Open
<1>4. \A i \in 1..Len(s) : i = 1 \/ i \in 2..n
  BY <1>2
<1>5. Proper(player, "start", s) /\ \A i \in 1..Len(s) : s[i].do # "shut"
  BY <1>2, <1>3, <1>4 DEF Proper, ProperStep, Kinds
<1>6. Sound(s, a)
  BY <1>2, <1>3, <1>4 DEF Sound
<1>7. "pool" \in Gets(s)
  BY <1>2, <1>3 DEF Gets, Opens, Handles
<1>8. Script(player, "start", s, a, a \cup {"pool"})
  BY <1>5, <1>6, <1>7 DEF Script
<1> QED
  BY <1>8 DEF s, a

LEMMA StartPlayScript ==
  ASSUME NEW pl, NEW p \in {"play", "last", "out"}, NEW a, {"stc", "video", "audio"} \subseteq a
  PROVE  Script(pl, p, StartPlay, a, a)
<1> DEFINE s == StartPlay
<1>1. /\ s \in Seq(Steps) /\ Len(s) = 3
      /\ s[1] = Use({"stc"}) /\ s[2] = Use({"video"}) /\ s[3] = Use({"audio"})
  BY StepsAre DEF StartPlay, Handles, Devices
<1> HIDE DEF s
<1>2. \A i \in 1..Len(s) : s[i].do = "use" /\ s[i].with \subseteq a
  BY <1>1 DEF Use
<1>3. "use" \in Kinds(p)
  BY DEF Kinds
<1>4. Script(pl, p, s, a, a)
  BY <1>1, <1>2, <1>3, ScriptUses
<1> QED
  BY <1>4 DEF s

LEMMA ScriptEmpty ==
  ASSUME NEW pl, NEW p, NEW a
  PROVE  Script(pl, p, <<>>, a, a)
<1>1. <<>> \in Seq(Steps) /\ Len(<<>>) = 0
  BY EmptySeq
<1> QED
  BY <1>1 DEF Script, Proper, Sound

LEMMA WayOutScript ==
  ASSUME player \in {"raw", "mp4", "mpeg"}, NEW kept \in BOOLEAN, NEW stops \in BOOLEAN
  PROVE  /\ Proper(player, "out", WayOut(kept, stops))
         /\ Sound(WayOut(kept, stops), Configured(player) \cup {"pool"})
<1> DEFINE a == Configured(player) \cup {"pool"}
           s1 == IF kept THEN <<Try({"pool"})>> ELSE <<>>
           s2 == IF stops /\ player = "mpeg" THEN <<Use({"demux"})>> ELSE <<>>
           s3 == IF stops THEN StartPlay ELSE <<>>
           s4 == <<Shut("pool")>>
<1>1. {"stc", "video", "audio", "pool"} \subseteq a /\ (player = "mpeg" => "demux" \in a)
  BY DEF Configured
<1> HIDE DEF a
<1>2. Script(player, "out", s1, a, a)
  <2>1. Try({"pool"}) \in Steps /\ Try({"pool"}).do = "try" /\ Try({"pool"}).with = {"pool"}
    BY StepsAre DEF Handles
  <2>2. ProperStep(player, "out", Try({"pool"}))
    BY <2>1 DEF ProperStep, Kinds
  <2>3. Script(player, "out", <<Try({"pool"})>>, a, a)
    BY <1>1, <2>1, <2>2, ScriptOne
  <2> QED
    BY <2>3, ScriptEmpty
<1>3. Script(player, "out", s2, a, a)
  <2>1. Use({"demux"}) \in Steps /\ Use({"demux"}).do = "use" /\ Use({"demux"}).with = {"demux"}
    BY StepsAre DEF Handles, Devices
  <2>2. ProperStep(player, "out", Use({"demux"}))
    BY <2>1 DEF ProperStep, Kinds
  <2>3. player = "mpeg" => Script(player, "out", <<Use({"demux"})>>, a, a)
    BY <1>1, <2>1, <2>2, ScriptOne
  <2> QED
    BY <2>3, ScriptEmpty
<1>4. Script(player, "out", s3, a, a)
  BY <1>1, StartPlayScript, ScriptEmpty
<1>5. s4 \in Seq(Steps) /\ Proper(player, "out", s4) /\ Sound(s4, a)
  <2>1. /\ s4 \in Seq(Steps) /\ Len(s4) = 1 /\ s4[1] = Shut("pool")
        /\ s4[1].do = "shut" /\ s4[1].with = {"pool"}
    BY StepsAre DEF Handles
  <2> HIDE DEF s4
  <2>2. Proper(player, "out", s4)
    BY <2>1 DEF Proper, ProperStep, Kinds
  <2>3. Sound(s4, a)
    BY <1>1, <2>1 DEF Sound
  <2> QED
    BY <2>1, <2>2, <2>3
<1> HIDE DEF s1, s2, s3, s4
<1>6. Script(player, "out", s1 \o s2, a, a)
  BY <1>2, <1>3, ScriptConcat
<1>7. Script(player, "out", (s1 \o s2) \o s3, a, a)
  BY <1>4, <1>6, ScriptConcat
<1> DEFINE s == (s1 \o s2) \o s3
<1> HIDE DEF s
<1>8. Script(player, "out", s, a, a)
  BY <1>7 DEF s
<1>9. s \in Seq(Steps) /\ Proper(player, "out", s) /\ Sound(s, a)
      /\ \A i \in 1..Len(s) : s[i].do # "shut"
  BY <1>8 DEF Script, Proper
<1>10. Proper(player, "out", s \o s4)
  BY <1>5, <1>9, ProperConcat
<1>11. a \subseteq a \cup Gets(s)
  OBVIOUS
<1>12. Sound(s \o s4, a)
  BY <1>5, <1>9, <1>11, SoundConcat
<1>13. WayOut(kept, stops) = s \o s4
  BY DEF WayOut, s, s1, s2, s3, s4
<1> QED
  BY <1>10, <1>12, <1>13 DEF a

\* The order in which playrawmp4 and playmp4 close what they have.
Closing == <<"pool", "audio", "video", "stc", "dcc", "rua", "rc">>

LEMMA ClosesAre ==
  /\ RawCleanup \in Seq(Steps) /\ Len(RawCleanup) = 6
  /\ \A i \in 1..6 : RawCleanup[i] = Close(Closing[i])
  /\ Mp4Cleanup \in Seq(Steps) /\ Len(Mp4Cleanup) = 7
  /\ \A i \in 1..7 : Mp4Cleanup[i] = Close(Closing[i])
<1> DEFINE r == RawCleanup
           t == <<Close("rc")>>
<1>1. /\ r \in Seq(Steps) /\ Len(r) = 6
      /\ r[1] = Close("pool") /\ r[2] = Close("audio") /\ r[3] = Close("video")
      /\ r[4] = Close("stc") /\ r[5] = Close("dcc") /\ r[6] = Close("rua")
  BY StepsAre DEF RawCleanup, Handles, Devices
<1>2. t \in Seq(Steps) /\ Len(t) = 1 /\ t[1] = Close("rc")
  BY StepsAre DEF Handles
<1>3. Mp4Cleanup = r \o t
  BY DEF Mp4Cleanup
<1> HIDE DEF r, t
<1>4. /\ r \o t \in Seq(Steps) /\ Len(r \o t) = Len(r) + Len(t)
      /\ \A i \in 1..Len(r) + Len(t) : (r \o t)[i] = IF i <= Len(r) THEN r[i] ELSE t[i - Len(r)]
  BY <1>1, <1>2, ConcatProperties
<1>5. \A i \in 1..6 : r[i] = Close(Closing[i])
  BY <1>1 DEF Closing
<1>6. ASSUME NEW i \in 1..7 PROVE (r \o t)[i] = Close(Closing[i])
  <2>1. CASE i \in 1..6
    <3>1. i \in 1..Len(r) + Len(t) /\ i <= Len(r)
      BY <1>1, <1>2, <2>1
    <3>2. (r \o t)[i] = r[i]
      BY <1>4, <3>1
    <3> QED
      BY <1>5, <2>1, <3>2
  <2>2. CASE i = 7
    <3>1. Closing[7] = "rc"
      BY DEF Closing
    <3>2. (r \o t)[7] = t[1]
      BY <1>1, <1>2, <1>4
    <3> QED
      BY <1>2, <2>2, <3>1, <3>2
  <2>3. i \in 1..6 \/ i = 7
    OBVIOUS
  <2> QED
    BY <2>1, <2>2, <2>3
<1> QED
  BY <1>1, <1>2, <1>3, <1>4, <1>5, <1>6 DEF r

\* A cleanup closes every device it may find, the instance after all of them, and only
\* plaympeg's does more than to close.
LEMMA CleanupCloses ==
  ASSUME player \in {"raw", "mp4", "mpeg"}
  PROVE  /\ Proper(player, "cleanup", Cleanup)
         /\ player # "mpeg" => Sound(Cleanup, {})
         /\ \A d \in Devices : (d = "demux" => player = "mpeg") => Due(Cleanup, d)
<1> DEFINE s == Cleanup
<1>1. CASE player \in {"raw", "mp4"}
  <2> DEFINE n == IF player = "raw" THEN 6 ELSE 7
             c == Closing
  <2>1. s \in Seq(Steps) /\ Len(s) = n /\ \A i \in 1..n : s[i] = Close(c[i])
    <3>1. CASE player = "raw"
      <4>1. s = RawCleanup /\ n = 6
        BY <3>1 DEF Cleanup
      <4> HIDE DEF s, n
      <4> QED
        BY <4>1, ClosesAre
    <3>2. CASE player = "mp4"
      <4>1. s = Mp4Cleanup /\ n = 7
        BY <3>2 DEF Cleanup
      <4> HIDE DEF s, n
      <4> QED
        BY <4>1, ClosesAre
    <3> QED
      BY <1>1, <3>1, <3>2
  <2>2. \A i \in 1..7 : c[i] \in Handles
    BY DEF Closing, Handles, Devices
  <2>3. /\ c[2] = "audio" /\ c[3] = "video" /\ c[4] = "stc"
        /\ \A i \in 1..7 : c[i] = "rua" => i = 6
    BY DEF Closing
  <2>4. n \in 6..7
    OBVIOUS
  <2> HIDE DEF s, n, c
  <2>5. \A i \in 1..n : s[i].do = "close" /\ s[i].with = {c[i]}
    BY <2>1, <2>4 DEF Close
  <2>6. Proper(player, "cleanup", s)
    BY <2>1, <2>5 DEF Proper, ProperStep, Kinds
  <2>7. Sound(s, {})
    BY <2>1, <2>5 DEF Sound
  <2>8. ASSUME NEW j \in 1..5 PROVE Due(s, c[j])
    <3>1. j \in 1..Len(s) /\ Closes(s[j], c[j])
      BY <2>1, <2>4, <2>5 DEF Closes
    <3>2. \A i \in 1..Len(s) : Closes(s[i], "rua") => i = 6
      BY <2>1, <2>3, <2>4, <2>5 DEF Closes
    <3> QED
      BY <3>1, <3>2 DEF Due
  <2>9. Due(s, "audio") /\ Due(s, "video") /\ Due(s, "stc")
    BY <2>3, <2>8
  <2> QED
    BY <1>1, <2>6, <2>7, <2>9 DEF s, Devices
<1>2. CASE player = "mpeg"
  <2>1. /\ s \in Seq(Steps) /\ Len(s) = 8
        /\ s[1] = Close("pool") /\ s[2] = Close("audio") /\ s[3] = Close("video")
        /\ s[4] = Try({"rua"}) /\ s[5] = Close("demux") /\ s[6] = Close("stc")
        /\ s[7] = Close("dcc") /\ s[8] = Close("rua")
    BY <1>2, StepsAre DEF Cleanup, MpegCleanup, Handles, Devices
  <2> HIDE DEF s
  <2>2. /\ s[1].do = "close" /\ s[1].with = {"pool"}
        /\ s[2].do = "close" /\ s[2].with = {"audio"}
        /\ s[3].do = "close" /\ s[3].with = {"video"}
        /\ s[4].do = "try" /\ s[4].with = {"rua"}
        /\ s[5].do = "close" /\ s[5].with = {"demux"}
        /\ s[6].do = "close" /\ s[6].with = {"stc"}
        /\ s[7].do = "close" /\ s[7].with = {"dcc"}
        /\ s[8].do = "close" /\ s[8].with = {"rua"}
    BY <2>1 DEF Close, Try
  <2>3. Proper(player, "cleanup", s)
    BY <2>1, <2>2 DEF Proper, ProperStep, Kinds
  <2>4. \A i \in 1..Len(s) : Closes(s[i], "rua") => i = 8
    BY <2>1, <2>2 DEF Closes
  <2>5. Closes(s[2], "audio") /\ Closes(s[3], "video") /\ Closes(s[5], "demux") /\ Closes(s[6], "stc")
    BY <2>2 DEF Closes
  <2>6. Due(s, "audio") /\ Due(s, "video") /\ Due(s, "demux") /\ Due(s, "stc")
    BY <2>1, <2>4, <2>5 DEF Due
  <2> QED
    BY <1>2, <2>3, <2>6 DEF s, Devices
<1> QED
  BY <1>1, <1>2

-----------------------------------------------------------------------------
(* The program holds what the rest of its function needs. *)

Places ==
  {"begin", "init", "configure", "start", "loop", "play", "last", "out", "cleanup", "hung",
   "gone"}

Simple ==
  /\ player \in Players /\ place \in Places
  /\ half \in BOOLEAN /\ exiting \in BOOLEAN /\ playing \in BOOLEAN /\ stopped \in BOOLEAN
  /\ back \in {"main", "last", "out", "exit"}
  /\ ctx \subseteq Handles /\ live \subseteq Handles
  /\ hw \subseteq Devices /\ lost \subseteq Devices
  /\ torn \in BOOLEAN /\ killed \in BOOLEAN
  /\ faults \in 0..MaxFaults

\* What is there as long as the function goes on, and what is there when it is done.
Entry(pl, p) ==
  IF p = "configure" THEN {"rua", "dcc"}
  ELSE IF p = "start" THEN Configured(pl)
  ELSE IF p \in {"loop", "play"} THEN Configured(pl) \cup {"pool"}
  ELSE {}

After(pl, p) ==
  IF p = "init" THEN {"rua", "dcc"}
  ELSE IF p = "configure" THEN Configured(pl)
  ELSE IF p = "start" THEN Configured(pl) \cup {"pool"}
  ELSE {}

\* The three cases of NeverNull.
Exempt ==
  \/ player = "mpeg" /\ place = "cleanup"
  \/ player = "mp4" /\ place = "last" /\ faults > 0
  \/ player = "mp4" /\ place = "out" /\ faults > 0

\* A cleanup needs nothing to be there.
Base == IF place = "cleanup" THEN {} ELSE ctx

\* The program is inside a call that opens or closes, and DCCXOpenVideoDecoderSource
\* has handed out its structure.
HalfWay ==
  half => /\ todo # <<>> /\ Head(todo).do \in {"open", "close"}
          /\ Opens(Head(todo), "video") => "video" \in ctx

\* Only playmp4 goes on after a cleanup, and only because a call has failed.
WayBack ==
  back \in {"last", "out"} =>
    player = "mp4" /\ faults > 0 /\ place \in {"cleanup", "gone"}

\* A very small video is started with everything there, or after such a cleanup.
All == Configured(player) \cup {"pool"}
LastHas == place = "last" => (player = "mp4" /\ faults > 0) \/ All \subseteq ctx

Flow ==
  /\ Proper(player, place, todo)
  /\ HalfWay
  /\ exiting => place \in {"cleanup", "gone"}
  /\ Entry(player, place) \subseteq ctx
  /\ After(player, place) \subseteq ctx \cup Gets(todo)
  /\ WayBack
  /\ LastHas
  /\ Exempt \/ Sound(todo, Base)

LEMMA NoScript ==
  ASSUME NEW pl, NEW p, NEW a
  PROVE  Proper(pl, p, <<>>) /\ Sound(<<>>, a) /\ Gets(<<>>) = {}
<1>1. Script(pl, p, <<>>, {}, {})
  BY ScriptEmpty
<1>2. Len(<<>>) = 0
  OBVIOUS
<1> QED
  BY <1>1, <1>2 DEF Script, Gets, Sound

LEMMA PlayerIs == Simple => player \in {"raw", "mp4", "mpeg"} /\ MaxFaults \in Nat /\ faults \in Nat
BY SessionAssumption DEF Simple

LEMMA FlowInit == Init => Simple /\ Flow
<1> SUFFICES ASSUME Init PROVE Simple /\ Flow
  OBVIOUS
<1>1. Simple
  <2>1. ctx \subseteq Handles
    BY DEF Init, Handles
  <2>2. faults \in 0..MaxFaults
    BY SessionAssumption DEF Init
  <2> QED
    BY <2>1, <2>2 DEF Init, Simple, Places
<1>2. place = "begin" /\ todo = <<>> /\ ~half /\ ~exiting /\ back = "exit"
  BY DEF Init
<1>3. Proper(player, place, todo) /\ Sound(todo, Base)
  BY <1>2, NoScript
<1> QED
  BY <1>1, <1>2, <1>3 DEF Flow, HalfWay, Entry, After, WayBack, LastHas

\* The step at hand is of its kind, and the handle of an open or a close is one.
LEMMA AtHand ==
  ASSUME Flow, todo # <<>>
  PROVE  /\ todo \in Seq(Steps) /\ Head(todo) \in Steps /\ Head(todo) = todo[1]
         /\ 1 \in 1..Len(todo)
         /\ Head(todo).do \in Kinds(place)
         /\ Head(todo).do \in {"open", "close", "shut"} =>
              Handle \in Handles /\ Head(todo).with = {Handle}
<1>1. todo \in Seq(Steps) /\ Head(todo) \in Steps /\ Head(todo) = todo[1] /\ 1 \in 1..Len(todo)
  BY TailOf DEF Flow, Proper
<1>2. Head(todo).do \in Kinds(place)
  BY <1>1 DEF Flow, Proper, ProperStep
<1>3. ASSUME Head(todo).do \in {"open", "close", "shut"}
      PROVE  Handle \in Handles /\ Head(todo).with = {Handle}
  <2>1. PICK h \in Handles : Head(todo).with = {h}
    BY <1>1, <1>3 DEF Steps
  <2>2. Handle = h
    BY <2>1 DEF Handle
  <2> QED
    BY <2>1, <2>2
<1> QED
  BY <1>1, <1>2, <1>3

\* The step is not done yet.
LEMMA FlowStay ==
  ASSUME Flow, player' = player /\ place' = place /\ todo' = todo /\ back' = back /\ exiting' = exiting, faults' >= faults,
         faults \in Nat, faults' \in Nat, ctx \subseteq ctx', HalfWay'
  PROVE  Flow'
<1>1. Exempt => Exempt'
  BY DEF Exempt
<1>2. Sound(todo, Base) => Sound(todo, Base')
  BY DEF Sound, Base
<1>3. WayBack' /\ LastHas'
  BY DEF Flow, WayBack, LastHas, All
<1> QED
  BY <1>1, <1>2, <1>3 DEF Flow

\* The step is done, and nothing was closed.
LEMMA FlowTail ==
  ASSUME Flow, todo # <<>>, player' = player /\ place' = place /\ back' = back /\ exiting' = exiting,
         faults' >= faults, faults \in Nat, faults' \in Nat,
         todo' = Tail(todo), half' = FALSE, ctx \subseteq ctx',
         \A h : Opens(Head(todo), h) => h \in ctx'
  PROVE  Flow'
<1>0. todo \in Seq(Steps) /\ Head(todo).do \in Kinds(place) /\ Head(todo) = todo[1]
  BY AtHand
<1>1. Proper(player, place, todo)'
  BY ProperTail DEF Flow
<1>2. HalfWay' /\ WayBack' /\ LastHas' /\ (Exempt => Exempt')
  BY DEF HalfWay, WayBack, LastHas, All, Exempt, Flow
<1>3. After(player, place) \subseteq ctx' \cup Gets(Tail(todo))
  BY <1>0, GetsTail DEF Flow
<1>4. ASSUME Sound(todo, Base) PROVE Sound(Tail(todo), Base')
  <2>1. CASE place = "cleanup"
    <3>1. Head(todo).do # "open"
      BY <1>0, <2>1 DEF Kinds
    <3> QED
      BY <1>0, <1>4, <2>1, <3>1, SoundTail DEF Base, Opens
  <2>2. CASE place # "cleanup"
    BY <1>0, <1>4, <2>2, SoundTail DEF Base
  <2> QED
    BY <2>1, <2>2
<1> QED
  BY <1>1, <1>2, <1>3, <1>4 DEF Flow

\* The step that closes something is done.
LEMMA FlowClosed ==
  ASSUME Flow, todo # <<>>, player' = player /\ place' = place /\ back' = back /\ exiting' = exiting,
         faults' >= faults, faults \in Nat, faults' \in Nat,
         todo' = Tail(todo), half' = FALSE, Head(todo).do \in {"close", "shut"}
  PROVE  Flow'
<1>0. todo \in Seq(Steps) /\ Head(todo).do \in Kinds(place) /\ Head(todo) = todo[1]
  BY AtHand
<1>1. Proper(player, place, todo)'
  BY ProperTail DEF Flow
<1>2. HalfWay' /\ WayBack' /\ (Exempt => Exempt')
  BY DEF HalfWay, WayBack, Exempt, Flow
<1>4. CASE Head(todo).do = "close"
  <2>1. place = "cleanup"
    BY <1>0, <1>4 DEF Kinds
  <2>2. Sound(todo, {}) => Sound(Tail(todo), {})
    BY <1>0, <1>4, SoundTail DEF Opens
  <2> QED
    BY <1>1, <1>2, <2>1, <2>2 DEF Flow, Entry, After, Base, LastHas
<1>5. CASE Head(todo).do = "shut"
  <2>1. place = "out"
    BY <1>0, <1>5 DEF Kinds
  <2>2. Len(todo) = 1
    BY <1>0, <1>5, AtHand DEF Flow, Proper
  <2>3. Tail(todo) \in Seq(Steps) /\ Len(Tail(todo)) = 0
    BY <1>0, <2>2, TailOf
  <2>4. Sound(Tail(todo), Base')
    BY <2>3 DEF Sound
  <2> QED
    BY <1>1, <1>2, <2>1, <2>4 DEF Flow, Entry, After, LastHas
<1> QED
  BY <1>4, <1>5

\* A cleanup begins, from wherever it may be.
LEMMA FlowCleanup ==
  ASSUME Simple, place' = "cleanup", todo' = Cleanup, half' = FALSE, player' = player,
         back' \in {"last", "out"} => player = "mp4" /\ faults' > 0
  PROVE  Flow'
<1>1. Proper(player, "cleanup", Cleanup) /\ (player # "mpeg" => Sound(Cleanup, {}))
  BY PlayerIs, CleanupCloses
<1>2. Base' = {}
  BY DEF Base
<1>3. Exempt' \/ Sound(todo, Base)'
  BY <1>1, <1>2 DEF Exempt
<1> QED
  BY <1>1, <1>3 DEF Flow, HalfWay, Entry, After, WayBack, LastHas

LEMMA FlowGone ==
  ASSUME place' = "gone", todo' = <<>>, half' = FALSE,
         back' \in {"last", "out"} => player' = "mp4" /\ faults' > 0
  PROVE  Flow'
<1>1. Proper(player, place, todo)' /\ Sound(todo, Base)'
  BY NoScript
<1> QED
  BY <1>1 DEF Flow, HalfWay, Entry, After, WayBack, LastHas

\* A function is entered.
LEMMA FlowEnter ==
  ASSUME player' = player /\ back' = back /\ exiting' = exiting /\ ctx' = ctx, half' = FALSE, ~exiting, back \notin {"last", "out"},
         place' \in {"init", "configure", "start", "loop", "play"},
         Entry(player, place') \subseteq ctx,
         NEW b, Script(player, place', todo', Entry(player, place'), b),
         After(player, place') \subseteq b
  PROVE  Flow'
<1>1. Sound(todo', ctx)
  BY DEF Script, Sound
<1>2. After(player, place') \subseteq ctx \cup Gets(todo')
  BY DEF Script
<1>3. Base' = ctx
  BY DEF Base
<1> QED
  BY <1>1, <1>2, <1>3 DEF Flow, HalfWay, WayBack, LastHas, Script

\* play_video is left: with everything there, or after playmp4's cleanup.
LEMMA FlowOut ==
  ASSUME Simple, player' = player /\ exiting' = exiting /\ ctx' = ctx, half' = FALSE, ~exiting,
         back' \notin {"last", "out"},
         place' = "out", NEW kept \in BOOLEAN, NEW stops \in BOOLEAN,
         todo' = WayOut(kept, stops),
         (player = "mp4" /\ faults' > 0) \/ All \subseteq ctx
  PROVE  Flow'
<1>1. Proper(player, "out", WayOut(kept, stops)) /\ Sound(WayOut(kept, stops), All)
  BY PlayerIs, WayOutScript DEF All
<1>2. All \subseteq ctx => Sound(todo, Base)'
  BY <1>1 DEF Sound, Base
<1>3. Exempt' \/ Sound(todo, Base)'
  BY <1>2 DEF Exempt
<1> QED
  BY <1>1, <1>3 DEF Flow, HalfWay, Entry, After, WayBack, LastHas

LEMMA FlowToOut ==
  ASSUME Simple, ToOut,
         player' = player /\ exiting' = exiting /\ ctx' = ctx, half' = FALSE, ~exiting,
         back' \notin {"last", "out"}, (player = "mp4" /\ faults' > 0) \/ All \subseteq ctx
  PROVE  Flow'
<1>1. PICK kept \in BOOLEAN, stops \in BOOLEAN :
        place' = "out" /\ todo' = WayOut(kept, stops)
  BY DEF ToOut, Goto
<1> QED
  BY <1>1, FlowOut

\* ... to start a very small video.
LEMMA FlowToLast ==
  ASSUME Simple, ToLast,
         player' = player /\ exiting' = exiting /\ ctx' = ctx, half' = FALSE, ~exiting,
         back' \notin {"last", "out"}, (player = "mp4" /\ faults' > 0) \/ All \subseteq ctx
  PROVE  Flow'
<1>1. place' = "last" /\ todo' = StartPlay /\ player = "mp4"
  BY DEF ToLast, Goto
<1>2. {"stc", "video", "audio"} \subseteq All
  BY DEF All, Configured
<1>3. Script(player, "last", StartPlay, All, All)
  BY <1>2, StartPlayScript
<1>4. Proper(player, "last", StartPlay) /\ Sound(StartPlay, All)
  BY <1>3 DEF Script
<1>5. All \subseteq ctx => Sound(todo, Base)'
  BY <1>1, <1>4 DEF Sound, Base
<1>6. Exempt' \/ Sound(todo, Base)'
  BY <1>1, <1>5 DEF Exempt
<1>7. LastHas'
  BY DEF LastHas, All
<1> QED
  BY <1>1, <1>4, <1>6, <1>7 DEF Flow, HalfWay, Entry, After, WayBack

LEMMA FlowFatal ==
  ASSUME Simple, Flow, Fatal, faults' >= faults, faults' \in Nat
  PROVE  Flow'
<1>0. faults \in Nat /\ (back \in {"last", "out"} => player = "mp4" /\ faults > 0)
  BY PlayerIs DEF Flow, WayBack
<1>1. player' = player /\ half' = FALSE /\ back' = back
  BY DEF Fatal, Exit, Same
<1>4. back' \in {"last", "out"} => player = "mp4" /\ faults' > 0
  BY <1>0, <1>1
<1>2. CASE exiting
  <2>1. place' = "gone" /\ todo' = <<>>
    BY <1>2 DEF Fatal, Goto
  <2> QED
    BY <1>1, <1>4, <2>1, FlowGone
<1>3. CASE ~exiting
  <2>1. place' = "cleanup" /\ todo' = Cleanup
    BY <1>3 DEF Fatal, Exit, Goto
  <2> QED
    BY <1>1, <1>4, <2>1, FlowCleanup
<1> QED
  BY <1>2, <1>3

LEMMA FlowGivesUp ==
  ASSUME Simple, Flow, NEW where, GivesUp(where), faults' >= faults, faults' \in Nat,
         place # "cleanup", where \in {"last", "out"} => player = "mp4" /\ faults' > 0
  PROVE  Flow'
<1>0. faults \in Nat /\ (back \in {"last", "out"} => player = "mp4" /\ faults > 0)
  BY PlayerIs DEF Flow, WayBack
<1>1. place' = "cleanup" /\ todo' = Cleanup /\ half' = FALSE /\ player' = player
  BY DEF GivesUp, Exit, Goto, Same
<1>2. back' \in {"last", "out"} => player = "mp4" /\ faults' > 0
  BY <1>0 DEF GivesUp, Exit
<1> QED
  BY <1>1, <1>2, FlowCleanup

LEMMA FlowFails ==
  ASSUME Simple, Flow, Fails, faults' >= faults, faults' \in Nat, place # "cleanup",
         player = "mp4" /\ place \in {"loop", "play", "last"} => faults' > 0
  PROVE  Flow'
<1>1. GivesUp(AfterFailure)
  BY DEF Fails
<1>2. AfterFailure \in {"last", "out"} => player = "mp4" /\ faults' > 0
  BY DEF AfterFailure
<1> QED
  BY <1>1, <1>2, FlowGivesUp

\* A function whose steps are done is not inside a call, and has got what it was to get.
LEMMA FlowDone ==
  ASSUME Flow, todo = <<>>
  PROVE  ~half /\ After(player, place) \subseteq ctx
BY NoScript DEF Flow, HalfWay

\* What the step at hand uses is there, but in the three known cases.
LEMMA Provided ==
  ASSUME Flow, Now("use") \/ Now("try") \/ Now("shut")
  PROVE  ~half /\ (Exempt \/ Missing = {})
<1>1. todo # <<>> /\ Head(todo).do \in {"use", "try", "shut"}
  BY DEF Now
<1>2. ~half
  BY <1>1 DEF Flow, HalfWay
<1>3. ASSUME Sound(todo, Base) PROVE Missing = {}
  <2>1. Head(todo) = todo[1] /\ 1 \in 1..Len(todo)
    BY <1>1, AtHand
  <2>2. \A h \in Head(todo).with : h \in Base
    BY <1>1, <1>3, <2>1 DEF Sound
  <2> QED
    BY <1>1, <2>2 DEF Missing, Base
<1> QED
  BY <1>2, <1>3 DEF Flow

LEMMA FlowSteps ==
  ASSUME Simple, Flow,
         BeginOpen \/ EndOpen \/ OpenFails \/ UseOk \/ UseFails \/ TryFails \/ UseNull
         \/ CloseSkipped \/ BeginClose \/ CloseDead \/ EndClose
  PROVE  Flow'
<1>0. faults \in Nat
  BY PlayerIs
<1>1. CASE BeginOpen
  <2>1. todo # <<>> /\ Head(todo).do = "open"
    BY <1>1 DEF BeginOpen, Now
  <2>2. Head(todo).with = {Handle}
    BY <2>1, AtHand
  <2>3. /\ UNCHANGED <<player, place, todo, back, exiting, faults>> /\ half' = TRUE
        /\ ctx \subseteq ctx' /\ (Handle = "video" => "video" \in ctx')
    BY <1>1 DEF BeginOpen, Same, SetHandle
  <2>4. HalfWay'
    BY <2>1, <2>2, <2>3 DEF HalfWay, Opens
  <2> QED
    BY <1>0, <2>3, <2>4, FlowStay
<1>2. CASE EndOpen
  <2>1. todo # <<>> /\ Head(todo).do = "open" /\ half
    BY <1>2 DEF EndOpen, Now
  <2>2. Head(todo).with = {Handle}
    BY <2>1, AtHand
  <2>3. /\ UNCHANGED <<player, place, back, exiting, faults>> /\ half' = FALSE
        /\ todo' = Tail(todo)
    BY <1>2 DEF EndOpen, Same, Advance
  <2>4. Handle # "video" => Handle \in ctx'
    BY <1>2 DEF EndOpen, SetHandle
  <2>5. Handle = "video" => "video" \in ctx
    BY <2>1, <2>2 DEF Flow, HalfWay, Opens
  <2>6. ctx \subseteq ctx'
    BY <1>2 DEF EndOpen, SetHandle
  <2>7. \A h : Opens(Head(todo), h) => h \in ctx'
    BY <2>2, <2>4, <2>5, <2>6 DEF Opens
  <2>8. faults' >= faults /\ faults' \in Nat
    BY <1>0, <2>3
  <2> QED
    BY <1>0, <2>1, <2>3, <2>6, <2>7, <2>8, FlowTail
<1>3. CASE OpenFails
  <2>1. todo # <<>> /\ Head(todo).do = "open"
    BY <1>3 DEF OpenFails, Now
  <2>2. "open" \in Kinds(place)
    BY <2>1, AtHand
  <2>3. place \notin {"cleanup", "loop", "play", "last"}
    BY <2>2 DEF Kinds
  <2>4. faults' >= faults /\ faults' \in Nat
    BY <1>0, <1>3 DEF OpenFails, Fault
  <2> QED
    BY <1>3, <2>3, <2>4, FlowFails DEF OpenFails
<1>4. CASE UseOk
  <2>1. todo # <<>> /\ Head(todo).do \in {"use", "try", "shut"} /\ ~half
    BY <1>4, Provided DEF UseOk, Now
  <2>2. /\ UNCHANGED <<player, place, back, exiting, faults>> /\ half' = FALSE
        /\ todo' = Tail(todo)
    BY <1>4, <2>1 DEF UseOk, Same, Advance
  <2>3. faults' >= faults /\ faults' \in Nat
    BY <1>0, <2>2
  <2>4. CASE Head(todo).do = "shut"
    BY <1>0, <2>1, <2>2, <2>3, <2>4, FlowClosed
  <2>5. CASE Head(todo).do # "shut"
    <3>1. ctx' = ctx /\ (\A h : ~Opens(Head(todo), h))
      BY <1>4, <2>1, <2>5 DEF UseOk, Now, Opens
    <3> QED
      BY <1>0, <2>1, <2>2, <2>3, <3>1, FlowTail
  <2> QED
    BY <2>4, <2>5
<1>5. CASE UseFails
  <2>1. todo # <<>> /\ Head(todo).do = "use"
    BY <1>5 DEF UseFails, Now
  <2>2. "use" \in Kinds(place)
    BY <2>1, AtHand
  <2>3. place # "cleanup"
    BY <2>2 DEF Kinds
  <2>4. faults' >= faults /\ faults' \in Nat /\ (Missing = {} => faults' > 0)
    BY <1>0, <1>5 DEF UseFails, Fault
  <2>5. player = "mp4" /\ place \in {"play", "last"} => Missing = {} \/ faults > 0
    BY <1>5, Provided DEF UseFails, Exempt
  <2>6. place # "loop"
    BY <2>2 DEF Kinds
  <2> QED
    BY <1>5, <2>3, <2>4, <2>5, <2>6, FlowFails DEF UseFails
<1>6. CASE TryFails
  <2>1. todo # <<>> /\ Head(todo).do = "try" /\ ~half
    BY <1>6, Provided DEF TryFails, Now
  <2>2. /\ UNCHANGED <<player, place, back, exiting, ctx>> /\ half' = FALSE
        /\ todo' = Tail(todo)
    BY <1>6, <2>1 DEF TryFails, Same, Advance, Stay
  <2>3. faults' >= faults /\ faults' \in Nat
    BY <1>0, <1>6 DEF TryFails, Fault
  <2>4. \A h : ~Opens(Head(todo), h)
    BY <2>1 DEF Opens
  <2> QED
    BY <1>0, <2>1, <2>2, <2>3, <2>4, FlowTail
<1>7. CASE UseNull
  BY <1>0, <1>7, FlowFatal DEF UseNull
<1>8. CASE CloseSkipped
  <2>1. todo # <<>> /\ Head(todo).do = "close"
    BY <1>8 DEF CloseSkipped, Now
  <2>2. /\ UNCHANGED <<player, place, back, exiting, faults>> /\ half' = FALSE
        /\ todo' = Tail(todo)
    BY <1>8 DEF CloseSkipped, Same, Advance
  <2>3. faults' >= faults /\ faults' \in Nat
    BY <1>0, <2>2
  <2> QED
    BY <1>0, <2>1, <2>2, <2>3, FlowClosed
<1>9. CASE BeginClose
  <2>1. todo # <<>> /\ Head(todo).do = "close"
    BY <1>9 DEF BeginClose, Now
  <2>2. UNCHANGED <<player, place, todo, back, exiting, ctx>> /\ half' = TRUE
    BY <1>9 DEF BeginClose, Same
  <2>3. faults' >= faults /\ faults' \in Nat
    BY <1>0, <1>9 DEF BeginClose, Fault
  <2>4. HalfWay'
    BY <2>1, <2>2 DEF HalfWay, Opens
  <2> QED
    BY <1>0, <2>2, <2>3, <2>4, FlowStay
<1>10. CASE CloseDead
  <2>1. CASE Fatal
    BY <1>0, <1>10, <2>1, FlowFatal DEF CloseDead
  <2>2. CASE half' = TRUE /\ UNCHANGED <<place, todo, back, exiting>> /\ Same /\ Stay
    <3>1. todo # <<>> /\ Head(todo).do = "close" /\ UNCHANGED <<player, ctx, faults>>
      BY <1>10, <2>2 DEF CloseDead, Now, Same, Stay
    <3>2. HalfWay'
      BY <2>2, <3>1 DEF HalfWay, Opens
    <3> QED
      BY <1>0, <2>2, <3>1, <3>2, FlowStay
  <2> QED
    BY <1>10, <2>1, <2>2 DEF CloseDead
<1>11. CASE EndClose
  <2>1. todo # <<>> /\ Head(todo).do = "close"
    BY <1>11 DEF EndClose, Now
  <2>2. /\ UNCHANGED <<player, place, back, exiting, faults>> /\ half' = FALSE
        /\ todo' = Tail(todo)
    BY <1>11 DEF EndClose, Same, Advance
  <2>3. faults' >= faults /\ faults' \in Nat
    BY <1>0, <2>2
  <2> QED
    BY <1>0, <2>1, <2>2, <2>3, FlowClosed
<1> QED
  BY <1>1, <1>2, <1>3, <1>4, <1>5, <1>6, <1>7, <1>8, <1>9, <1>10, <1>11

LEMMA FlowFunctions ==
  ASSUME Simple, Flow,
         Begin \/ InitDone \/ ConfigureDone \/ StartDone \/ LoopFails \/ LoopStartsPlay
         \/ PlayDone \/ Hang \/ LoopEnds \/ LastDone \/ OutDone \/ CleanupDone
  PROVE  Flow'
<1>0. faults \in Nat /\ player \in {"raw", "mp4", "mpeg"}
  BY PlayerIs
<1>1. place \notin {"cleanup", "gone"} => ~exiting /\ back \notin {"last", "out"}
  BY DEF Flow, WayBack
<1>2. CASE Begin
  <2>1. ~half
    BY <1>2, AtHand DEF Begin, Kinds, Flow, HalfWay
  <2>2. /\ UNCHANGED <<player, back, exiting, ctx>> /\ half' = FALSE
        /\ place = "begin" /\ place' = "init" /\ todo' = InitScript
    BY <1>2, <2>1 DEF Begin, Goto, Stay
  <2>3. Script(player, place', todo', Entry(player, place'), {"rua", "dcc"})
    BY <1>0, <2>2, InitGets DEF Entry
  <2> QED
    BY <1>1, <2>2, <2>3, FlowEnter DEF Entry, After
<1>3. CASE InitDone
  <2>1. ~half /\ {"rua", "dcc"} \subseteq ctx
    BY <1>3, FlowDone DEF InitDone, Done, After
  <2>2. /\ UNCHANGED <<player, back, exiting, ctx>> /\ half' = FALSE
        /\ place = "init" /\ place' = "configure" /\ todo' = Configure
    BY <1>3, <2>1 DEF InitDone, Done, GoesOn, Goto, Stay
  <2>3. Script(player, place', todo', Entry(player, place'), Configured(player))
    BY <1>0, <2>2, ConfigureGets DEF Entry
  <2> QED
    BY <1>1, <2>1, <2>2, <2>3, FlowEnter DEF Entry, After
<1>4. CASE ConfigureDone
  <2>1. ~half /\ Configured(player) \subseteq ctx
    BY <1>4, FlowDone DEF ConfigureDone, Done, After
  <2>2. /\ UNCHANGED <<player, back, exiting, ctx>> /\ half' = FALSE /\ place = "configure"
    BY <1>4, <2>1 DEF ConfigureDone, Done, GoesOn, Stay
  <2>3. CASE place' = "cleanup" /\ todo' = Cleanup
    BY <1>1, <2>2, <2>3, FlowCleanup
  <2>4. CASE place' = "start" /\ todo' = Start
    <3>1. Script(player, place', todo', Entry(player, place'), Configured(player) \cup {"pool"})
      BY <1>0, <2>4, StartGets DEF Entry
    <3> QED
      BY <1>1, <2>1, <2>2, <2>4, <3>1, FlowEnter DEF Entry, After
  <2> QED
    BY <1>4, <2>3, <2>4 DEF ConfigureDone, Goto
<1>5. CASE StartDone \/ PlayDone
  <2>1. /\ place \in {"start", "play"} /\ todo = <<>>
        /\ UNCHANGED <<player, back, exiting, ctx, half>>
        /\ place' = "loop" /\ todo' = <<>>
    BY <1>5 DEF StartDone, PlayDone, Done, GoesOn, Goto, Stay
  <2>2. ~half /\ After(player, place) \subseteq ctx
    BY <2>1, FlowDone
  <2>3. half' = FALSE
    BY <2>1, <2>2 DEF Simple
  <2>4. /\ Entry(player, place') \subseteq ctx
        /\ After(player, place') \subseteq Entry(player, place')
    BY <2>1, <2>2 DEF Flow, Entry, After
  <2>5. Script(player, place', todo', Entry(player, place'), Entry(player, place'))
    BY <2>1, ScriptEmpty
  <2>6. ~exiting /\ back \notin {"last", "out"}
    BY <1>1, <2>1
  <2> QED
    BY <2>1, <2>3, <2>4, <2>5, <2>6, FlowEnter
<1>6. CASE LoopFails
  <2>1. place = "loop" /\ (Fails \/ (player = "mp4" /\ GivesUp("last")))
    BY <1>6 DEF LoopFails, Done
  <2>2. faults' >= faults /\ faults' \in Nat /\ faults' > 0
    BY <1>0, <1>6 DEF LoopFails, Fault
  <2>3. CASE Fails
    BY <2>1, <2>2, <2>3, FlowFails
  <2>4. CASE player = "mp4" /\ GivesUp("last")
    BY <2>1, <2>2, <2>4, FlowGivesUp
  <2> QED
    BY <2>1, <2>3, <2>4
<1>7. CASE LoopStartsPlay
  <2>1. ~half /\ Configured(player) \cup {"pool"} \subseteq ctx
    BY <1>7, FlowDone DEF LoopStartsPlay, Done, Flow, Entry
  <2>2. /\ UNCHANGED <<player, back, exiting, ctx>> /\ half' = FALSE
        /\ place = "loop" /\ place' = "play" /\ todo' = StartPlay
    BY <1>7, <2>1 DEF LoopStartsPlay, Done, GoesOn, Goto, Stay
  <2>3. Script(player, place', todo', Entry(player, place'), Entry(player, place'))
    <3>1. {"stc", "video", "audio"} \subseteq Entry(player, place')
      BY <2>2 DEF Entry, Configured
    <3> QED
      BY <2>2, <3>1, StartPlayScript
  <2> QED
    BY <1>1, <2>1, <2>2, <2>3, FlowEnter DEF Entry, After
<1>8. CASE LoopEnds
  <2>1. ~half /\ All \subseteq ctx
    BY <1>8, FlowDone DEF LoopEnds, Done, Flow, Entry, All
  <2>2. /\ UNCHANGED <<player, back, exiting, ctx>> /\ half' = FALSE /\ place = "loop"
    BY <1>8, <2>1 DEF LoopEnds, Done, GoesOn, Stay
  <2>3. ToOut \/ ToLast
    BY <1>8 DEF LoopEnds
  <2> QED
    BY <1>1, <2>1, <2>2, <2>3, FlowToOut, FlowToLast
<1>11. CASE LastDone
  <2>1. ~half
    BY <1>11, FlowDone DEF LastDone, Done
  <2>2. /\ UNCHANGED <<player, back, exiting, ctx, faults>> /\ half' = FALSE /\ place = "last"
    BY <1>11, <2>1 DEF LastDone, Done, GoesOn, Stay
  <2>3. PICK kept \in BOOLEAN : place' = "out" /\ todo' = WayOut(kept, TRUE)
    BY <1>11 DEF LastDone, Goto
  <2>4. (player = "mp4" /\ faults' > 0) \/ All \subseteq ctx
    BY <2>2 DEF Flow, LastHas
  <2> QED
    BY <1>1, <2>2, <2>3, <2>4, FlowOut
<1>12. CASE Hang
  <2>1. ~half
    BY <1>12, FlowDone DEF Hang, Done
  <2>2. /\ UNCHANGED <<player, back, exiting, ctx>> /\ half' = FALSE /\ place = "loop"
        /\ place' = "hung" /\ todo' = <<>>
    BY <1>12, <2>1 DEF Hang, Done, Same, Stay, Goto
  <2>3. Proper(player, place, todo)' /\ Sound(todo, Base)'
    BY <2>2, NoScript
  <2> QED
    BY <1>1, <2>2, <2>3 DEF Flow, HalfWay, Entry, After, WayBack, LastHas
<1>9. CASE OutDone
  <2>1. ~half
    BY <1>9, FlowDone DEF OutDone, Done
  <2>2. /\ UNCHANGED <<player, back>> /\ half' = FALSE /\ place = "out"
        /\ place' = "cleanup" /\ todo' = Cleanup
    BY <1>9, <2>1 DEF OutDone, Done, GoesOn, Goto
  <2> QED
    BY <1>1, <2>2, FlowCleanup
<1>10. CASE CleanupDone
  <2>1. /\ ~half /\ place = "cleanup" /\ player' = player /\ faults' = faults /\ ctx' = ctx
    BY <1>10, FlowDone DEF CleanupDone, Done, Same, Stay
  <2>2. back \in {"last", "out"} => player = "mp4" /\ faults > 0
    BY DEF Flow, WayBack
  <2>3. CASE exiting
    <3>1. place' = "gone" /\ todo' = <<>> /\ half' = FALSE /\ back' = back
      BY <1>10, <2>1, <2>3 DEF CleanupDone, Goto, Simple
    <3>2. back' \in {"last", "out"} => player' = "mp4" /\ faults' > 0
      BY <2>1, <2>2, <3>1
    <3> QED
      BY <3>1, <3>2, FlowGone
  <2>4. CASE ~exiting /\ back \in {"exit", "main"}
    <3>1. place' = "cleanup" /\ todo' = Cleanup /\ half' = FALSE /\ back' = "exit"
      <4>1. CASE back = "exit"
        BY <1>10, <2>1, <2>4, <4>1 DEF CleanupDone, Exit, Goto
      <4>2. CASE back = "main"
        BY <1>10, <2>1, <2>4, <4>2 DEF CleanupDone, Goto, Simple
      <4> QED
        BY <2>4, <4>1, <4>2
    <3> QED
      BY <2>1, <3>1, FlowCleanup
  <2>5. CASE ~exiting /\ back \in {"last", "out"}
    <3>1. ToOut \/ ToLast
      BY <1>10, <2>5 DEF CleanupDone
    <3>2. back' = "exit" /\ exiting' = exiting /\ half' = FALSE
      BY <1>10, <2>1, <2>5 DEF CleanupDone, Simple
    <3>3. player = "mp4" /\ faults' > 0
      BY <2>1, <2>2, <2>5
    <3> QED
      BY <2>1, <2>5, <3>1, <3>2, <3>3, FlowToOut, FlowToLast
  <2>6. back \in {"main", "last", "out", "exit"}
    BY DEF Simple
  <2> QED
    BY <2>3, <2>4, <2>5, <2>6
<1> QED
  BY <1>2, <1>3, <1>4, <1>5, <1>6, <1>7, <1>8, <1>9, <1>10, <1>11, <1>12

LEMMA FlowNext == Simple /\ Flow /\ [Next]_vars => Flow'
<1> SUFFICES ASSUME Simple, Flow, [Next]_vars PROVE Flow'
  OBVIOUS
<1>0. faults \in Nat
  BY PlayerIs
<1>1. ASSUME UNCHANGED <<player, place, todo, half, back, exiting, ctx, faults>>
      PROVE  Flow'
  <2>1. HalfWay'
    BY <1>1 DEF Flow, HalfWay
  <2> QED
    BY <1>0, <1>1, <2>1, FlowStay
<1>2. CASE UNCHANGED vars
  BY <1>1, <1>2 DEF vars, process
<1>3. CASE Stop
  BY <1>1, <1>3 DEF Stop, Stay
<1>4. CASE Crash
  BY <1>0, <1>4, FlowFatal DEF Crash, Fault
<1>5. CASE Program
  BY <1>5, FlowSteps, FlowFunctions DEF Program
<1> QED
  BY <1>2, <1>3, <1>4, <1>5 DEF Next

LEMMA SimpleFatal ==
  ASSUME Simple, Fatal, faults' \in 0..MaxFaults
  PROVE  Simple'
<1>1. place' \in {"cleanup", "gone"} /\ half' = FALSE /\ back' = back
      /\ exiting' \in BOOLEAN /\ killed' \in BOOLEAN
  BY DEF Simple, Fatal, Exit, Goto
<1>2. torn' \in BOOLEAN
  BY DEF Simple, Fatal
<1>3. lost' \subseteq Devices
  BY DEF Simple, Fatal
<1> QED
  BY <1>1, <1>2, <1>3 DEF Simple, Fatal, Same, Stay, Places

LEMMA SimpleGivesUp ==
  ASSUME Simple, NEW where \in {"main", "last", "out", "exit"}, GivesUp(where),
         faults' \in 0..MaxFaults
  PROVE  Simple'
<1>1. place' = "cleanup" /\ half' = FALSE /\ exiting' \in BOOLEAN
      /\ back' \in {"main", "last", "out", "exit"}
  BY DEF Simple, GivesUp, Exit, Goto
<1>2. ctx' \subseteq Handles
  BY DEF Simple, GivesUp
<1> QED
  BY <1>1, <1>2 DEF Simple, GivesUp, Same, SameHistory, history, Places

LEMMA SimpleFails ==
  ASSUME Simple, Fails, faults' \in 0..MaxFaults
  PROVE  Simple'
<1>1. AfterFailure \in {"main", "last", "out", "exit"} /\ GivesUp(AfterFailure)
  BY DEF Fails, AfterFailure
<1> QED
  BY <1>1, SimpleGivesUp

LEMMA SimpleSteps ==
  ASSUME Simple, Flow,
         BeginOpen \/ EndOpen \/ OpenFails \/ UseOk \/ UseFails \/ TryFails \/ UseNull
         \/ CloseSkipped \/ BeginClose \/ CloseDead \/ EndClose
  PROVE  Simple'
<1>0. Now("open") \/ Now("close") \/ Now("shut") => Handle \in Handles
  BY AtHand DEF Now
<1>1. CASE BeginOpen \/ EndOpen
  <2>1. ctx' \subseteq Handles /\ live' \subseteq Handles /\ hw' \subseteq Devices
    BY <1>0, <1>1 DEF BeginOpen, EndOpen, SetHandle, SetHw, Simple
  <2> QED
    BY <1>1, <2>1 DEF BeginOpen, EndOpen, Simple, Same, SameHistory, history, Advance
<1>2. CASE OpenFails
  <2>1. faults' \in 0..MaxFaults
    BY <1>2, PlayerIs DEF OpenFails, Fault, Simple
  <2> QED
    BY <1>2, <2>1, SimpleFails DEF OpenFails
<1>3. CASE UseOk
  <2>1. ctx' \subseteq Handles /\ live' \subseteq Handles
    BY <1>3 DEF UseOk, Simple
  <2> QED
    BY <1>3, <2>1 DEF UseOk, Simple, Same, SameHistory, history, Advance
<1>4. CASE UseFails
  <2>1. faults' \in 0..MaxFaults
    BY <1>4, PlayerIs DEF UseFails, Fault, Simple
  <2> QED
    BY <1>4, <2>1, SimpleFails DEF UseFails
<1>5. CASE TryFails
  <2>1. faults' \in 0..MaxFaults
    BY <1>5, PlayerIs DEF TryFails, Fault, Simple
  <2> QED
    BY <1>5, <2>1 DEF TryFails, Simple, Same, SameHistory, history, Advance, Stay
<1>6. CASE UseNull
  BY <1>6, SimpleFatal DEF UseNull, Simple
<1>7. CASE CloseSkipped
  BY <1>7 DEF CloseSkipped, Simple, Same, SameHistory, history, Advance, Stay
<1>8. CASE BeginClose
  <2>1. live' \subseteq Handles /\ hw' \subseteq Devices /\ lost' \subseteq Devices
    BY <1>8 DEF BeginClose, Simple
  <2>2. faults' \in 0..MaxFaults
    BY <1>8, PlayerIs DEF BeginClose, Fault, Simple
  <2> QED
    BY <1>8, <2>1, <2>2 DEF BeginClose, Simple, Same
<1>9. CASE CloseDead
  <2>1. CASE Fatal
    BY <1>9, <2>1, SimpleFatal DEF CloseDead, Simple
  <2>2. CASE half' = TRUE /\ UNCHANGED <<place, todo, back, exiting>> /\ Same /\ SameHistory
             /\ Stay
    BY <1>9, <2>2 DEF CloseDead, Simple, Same, SameHistory, history, Stay
  <2> QED
    BY <1>9, <2>1, <2>2 DEF CloseDead
<1>10. CASE EndClose
  <2>1. ctx' \subseteq Handles
    BY <1>10 DEF EndClose, Simple
  <2> QED
    BY <1>10, <2>1 DEF EndClose, Simple, Same, SameHistory, history, Advance
<1> QED
  BY <1>1, <1>2, <1>3, <1>4, <1>5, <1>6, <1>7, <1>8, <1>9, <1>10

LEMMA SimpleFunctions ==
  ASSUME Simple,
         Begin \/ InitDone \/ ConfigureDone \/ StartDone \/ LoopFails \/ LoopStartsPlay
         \/ PlayDone \/ Hang \/ LoopEnds \/ LastDone \/ OutDone \/ CleanupDone
  PROVE  Simple'
<1>1. CASE LoopFails
  <2>1. faults' \in 0..MaxFaults
    BY <1>1, PlayerIs DEF LoopFails, Fault, Simple
  <2> QED
    BY <1>1, <2>1, SimpleFails, SimpleGivesUp DEF LoopFails
<1>2. CASE CleanupDone
  <2>1. /\ place' \in {"gone", "cleanup", "last", "out"} /\ exiting' \in BOOLEAN
        /\ half' \in BOOLEAN /\ back' \in {"main", "last", "out", "exit"}
    BY <1>2 DEF CleanupDone, Simple, Exit, ToOut, ToLast, Goto
  <2> QED
    BY <1>2, <2>1 DEF CleanupDone, Simple, Same, SameHistory, history, Stay, Places
<1>3. CASE Begin
  BY <1>3 DEF Begin, Simple, SameHistory, history, Stay, Goto, Places
<1>5. CASE Hang
  <2>1. faults' \in 0..MaxFaults
    BY <1>5, PlayerIs DEF Hang, Fault, Simple
  <2> QED
    BY <1>5, <2>1 DEF Hang, Simple, Same, SameHistory, history, Stay, Goto, Places
<1>4. CASE InitDone \/ ConfigureDone \/ StartDone \/ LoopStartsPlay \/ PlayDone \/ LoopEnds
           \/ LastDone \/ OutDone
  <2>1. GoesOn /\ playing' \in BOOLEAN
    BY <1>4 DEF InitDone, ConfigureDone, StartDone, LoopStartsPlay, PlayDone, LoopEnds,
                LastDone, OutDone, Simple
  <2>2. place' \in Places
    BY <1>4 DEF InitDone, ConfigureDone, StartDone, LoopStartsPlay, PlayDone, LoopEnds,
                LastDone, OutDone, ToOut, ToLast, Goto, Places
  <2> QED
    BY <2>1, <2>2 DEF GoesOn, Simple, SameHistory, history, Stay
<1> QED
  BY <1>1, <1>2, <1>3, <1>4, <1>5

LEMMA SimpleNext == Simple /\ Flow /\ [Next]_vars => Simple'
<1> SUFFICES ASSUME Simple, Flow, [Next]_vars PROVE Simple'
  OBVIOUS
<1>1. CASE UNCHANGED vars
  BY <1>1 DEF vars, process, history, Simple
<1>2. CASE Stop
  BY <1>2 DEF Stop, SameHistory, history, Stay, Simple
<1>3. CASE Crash
  <2>1. faults' \in 0..MaxFaults
    BY <1>3, PlayerIs DEF Crash, Fault, Simple
  <2> QED
    BY <1>3, <2>1, SimpleFatal DEF Crash
<1>4. CASE Program
  BY <1>4, SimpleSteps, SimpleFunctions DEF Program
<1> QED
  BY <1>1, <1>2, <1>3, <1>4 DEF Next

LEMMA FlowInvariant == Spec => [](Simple /\ Flow)
<1>1. Init => Simple /\ Flow
  BY FlowInit
<1>2. (Simple /\ Flow) /\ [Next]_vars => (Simple /\ Flow)'
  BY SimpleNext, FlowNext
<1> QED
  BY <1>1, <1>2, PTL DEF Spec

-----------------------------------------------------------------------------
(* What the pointers, the structures and the driver have to do with each other. *)

InHand(k) == {h \in Handles : half /\ Now(k) /\ h \in Head(todo).with}

\* A pointer is reset before anything is done but the close of what it points to.
Pointed == ~torn => ctx \subseteq live \cup {"rc"} \cup InHand("close")

\* The instance is there as long as something has a device.
RuaThere == ~torn /\ ctx \cap Devices # {} => "rua" \in live

\* A cleanup under way has the closes of all that is open still ahead of it, ...
Ahead ==
  /\ "demux" \in ctx => player = "mpeg"
  /\ place = "cleanup" => \A d \in ctx \cap Devices : Due(todo, d)

\* ... and exit comes after one.
Cleaned == place = "gone" => todo = <<>> /\ ~half /\ (killed \/ ctx \cap Devices = {})

\* The driver holds a device for a pointer or for a call, and when it has closed it the
\* call has only the pointer left to reset.
HeldFor == ~torn => hw \subseteq ctx \cup lost \cup InHand("open")
Released == ~torn => hw \cap InHand("close") \subseteq lost

Safe == Pointed /\ RuaThere /\ Ahead /\ Cleaned /\ HeldFor /\ Released

LEMMA SafeInit == Init => Safe
<1> SUFFICES ASSUME Init PROVE Safe
  OBVIOUS
<1>1. ctx \subseteq {"rc"} /\ live = {} /\ hw = {} /\ place = "begin"
  BY DEF Init
<1> QED
  BY <1>1 DEF Safe, Pointed, RuaThere, Ahead, Cleaned, HeldFor, Released, Devices

LEMMA InHandNot ==
  ASSUME NEW k, ~(half /\ Now(k))
  PROVE  InHand(k) = {}
BY DEF InHand

LEMMA InHandIs ==
  ASSUME Flow, NEW k \in {"open", "close"}, half, Now(k)
  PROVE  InHand(k) = {Handle}
BY AtHand DEF InHand, Now

\* The program goes to another function, most often to cleanup.
LEMMA SafeGoto ==
  ASSUME Simple, Flow, Safe,
         player' = player, live' = live, hw' = hw, lost' = lost, torn' = torn,
         ctx' = ctx \/ ctx' = ctx \ {"rc"},
         half => Now("open") /\ Handle = "video", half' = FALSE,
         place' # "gone", place' = "cleanup" => todo' = Cleanup
  PROVE  Safe'
<1>1. InHand("close") = {} /\ InHand("close")' = {} /\ InHand("open")' = {}
  BY InHandNot DEF InHand, Now
<1>2. InHand("open") \subseteq ctx
  <2>1. CASE half
    <3>1. InHand("open") = {"video"} /\ Head(todo).with = {Handle} /\ Head(todo).do = "open"
      BY <2>1, InHandIs, AtHand DEF Now
    <3> QED
      BY <2>1, <3>1 DEF Flow, HalfWay, Opens
  <2>2. CASE ~half
    BY <2>2, InHandNot
  <2> QED
    BY <2>1, <2>2
<1>3. Pointed' /\ RuaThere'
  BY <1>1 DEF Safe, Pointed, RuaThere
<1>4. Ahead'
  <2>1. "demux" \in ctx' => player = "mpeg"
    BY DEF Safe, Ahead
  <2>2. \A d \in ctx' \cap Devices : Due(Cleanup, d)
    BY <2>1, PlayerIs, CleanupCloses
  <2> QED
    BY <2>1, <2>2 DEF Ahead
<1>5. Cleaned'
  BY DEF Cleaned
<1>6. HeldFor'
  <2>1. "rc" \notin hw
    BY DEF Simple, Devices
  <2> QED
    BY <1>1, <1>2, <2>1 DEF Safe, HeldFor
<1>7. Released'
  BY <1>1 DEF Released
<1> QED
  BY <1>3, <1>4, <1>5, <1>6, <1>7 DEF Safe

LEMMA SafeGivesUp ==
  ASSUME Simple, Flow, Safe, NEW where, GivesUp(where),
         half => Now("open") /\ Handle = "video"
  PROVE  Safe'
<1>1. place' = "cleanup" /\ todo' = Cleanup /\ half' = FALSE
  BY DEF GivesUp, Exit, Goto
<1>2. ctx' = ctx \/ ctx' = ctx \ {"rc"}
  BY DEF GivesUp
<1>3. player' = player /\ live' = live /\ hw' = hw /\ lost' = lost /\ torn' = torn
  BY DEF GivesUp, Same, SameHistory, history
<1> QED
  BY <1>1, <1>2, <1>3, SafeGoto

LEMMA SafeFails ==
  ASSUME Simple, Flow, Safe, Fails, half => Now("open") /\ Handle = "video"
  PROVE  Safe'
BY SafeGivesUp DEF Fails

\* A fatal signal cuts an open or a close off.
LEMMA SafeFatal ==
  ASSUME Simple, Flow, Safe, Fatal
  PROVE  Safe'
<1>1. /\ half' = FALSE /\ player' = player /\ ctx' = ctx /\ live' = live /\ hw' = hw
      /\ torn' = (torn \/ (half /\ Now("close"))) /\ lost \subseteq lost'
  BY DEF Fatal, Exit, Same, Stay
<1>2. InHand("close")' = {} /\ InHand("open")' = {}
  BY <1>1, InHandNot DEF InHand
<1>3. ~torn' => ~torn /\ InHand("close") = {}
  BY <1>1, InHandNot
<1>4. Pointed' /\ RuaThere' /\ Released'
  BY <1>1, <1>2, <1>3 DEF Safe, Pointed, RuaThere, Released
<1>5. Ahead'
  <2>1. "demux" \in ctx' => player = "mpeg"
    BY <1>1 DEF Safe, Ahead
  <2>2. \A d \in ctx' \cap Devices : Due(Cleanup, d)
    BY <2>1, PlayerIs, CleanupCloses
  <2>3. place' = "cleanup" => todo' = Cleanup
    BY DEF Fatal, Exit, Goto
  <2> QED
    BY <1>1, <2>1, <2>2, <2>3 DEF Ahead
<1>6. Cleaned'
  <2>1. place' = "gone" => todo' = <<>> /\ killed'
    BY DEF Fatal, Exit, Goto
  <2> QED
    BY <1>1, <2>1 DEF Cleaned
<1>7. HeldFor'
  <2>1. hw \cap InHand("open") \subseteq ctx \cup lost'
    <3>1. CASE half /\ Now("open")
      <4>1. InHand("open") = {Handle} /\ Head(todo).with = {Handle} /\ Head(todo).do = "open"
        BY <3>1, InHandIs, AtHand DEF Now
      <4>2. Handle = "video" => "video" \in ctx
        BY <3>1, <4>1 DEF Flow, HalfWay, Opens
      <4>3. Handle # "video" => lost' = lost \cup ({Handle} \cap Devices)
        BY <3>1 DEF Fatal
      <4> QED
        BY <4>1, <4>2, <4>3 DEF Simple
    <3>2. CASE ~(half /\ Now("open"))
      BY <3>2, InHandNot
    <3> QED
      BY <3>1, <3>2
  <2> QED
    BY <1>1, <1>3, <2>1 DEF Safe, HeldFor
<1> QED
  BY <1>4, <1>5, <1>6, <1>7 DEF Safe

\* A step is done that has opened and closed nothing.
LEMMA SafeTail ==
  ASSUME Flow, Safe, ~half, half' = FALSE, todo # <<>>, todo' = Tail(todo),
         player' = player, place' = place, live' = live, hw' = hw, ctx' = ctx,
         lost' = lost, torn' = torn, killed' = killed,
         \A d \in ctx : ~Closes(Head(todo), d)
  PROVE  Safe'
<1>1. /\ InHand("close") = {} /\ InHand("close")' = {}
      /\ InHand("open") = {} /\ InHand("open")' = {}
  BY InHandNot DEF InHand
<1>2. Pointed' /\ RuaThere' /\ HeldFor' /\ Released'
  BY <1>1 DEF Safe, Pointed, RuaThere, HeldFor, Released
<1>3. Ahead'
  <2>1. todo \in Seq(Steps)
    BY AtHand
  <2>2. place = "cleanup" => \A d \in ctx \cap Devices : Due(Tail(todo), d)
    BY <2>1, DueTail DEF Safe, Ahead
  <2> QED
    BY <2>2 DEF Safe, Ahead
<1>4. Cleaned'
  BY DEF Safe, Cleaned
<1> QED
  BY <1>2, <1>3, <1>4 DEF Safe

\* Nothing dead is used.
LEMMA SafeUses == Simple /\ Flow /\ Safe => NothingDeadUsed
<1> SUFFICES ASSUME Simple, Flow, Safe, ~torn, todo # <<>>, ~half
             PROVE  Reads(Head(todo).with \cap ctx) \subseteq live \cup {"rc"}
  BY DEF NothingDeadUsed, Dead
<1>1. ctx \subseteq live \cup {"rc"}
  BY InHandNot DEF Safe, Pointed
<1> DEFINE s == Head(todo).with \cap ctx
<1>2. CASE s \subseteq {"rua", "dcc", "rc", "pool"}
  BY <1>1, <1>2 DEF Reads
<1>3. CASE ~(s \subseteq {"rua", "dcc", "rc", "pool"})
  <2>1. ctx \cap Devices # {}
    BY <1>3 DEF Simple, Handles
  <2>2. "rua" \in live
    BY <2>1 DEF Safe, RuaThere
  <2> QED
    BY <1>1, <2>2 DEF Reads
<1> QED
  BY <1>2, <1>3

LEMMA SafeBeginOpen ==
  ASSUME Simple, Flow, Safe, BeginOpen
  PROVE  Safe'
<1>1. todo # <<>> /\ Head(todo).do = "open" /\ ~half /\ half' = TRUE
  BY DEF BeginOpen, Now
<1>2. Head(todo).with = {Handle} /\ "open" \in Kinds(place)
  BY <1>1, AtHand
<1>3. /\ player' = player /\ place' = place /\ todo' = todo
      /\ lost' = lost /\ torn' = torn /\ killed' = killed
  BY DEF BeginOpen, Same, SameHistory, history
<1>4. /\ InHand("close") = {} /\ InHand("close")' = {} /\ InHand("open") = {}
      /\ {Handle} \cap Handles \subseteq InHand("open")'
  BY <1>1, <1>2, <1>3, InHandNot DEF InHand, Now
<1>5. place \notin {"cleanup", "gone"}
  BY <1>2 DEF Kinds
<1>6. CASE Handle = "video"
  <2>1. ctx' = ctx \cup {"video"} /\ live' = live \cup {"video"} /\ hw' = hw
    BY <1>6 DEF BeginOpen, SetHandle
  <2>2. Pointed' /\ HeldFor' /\ Released'
    BY <1>3, <1>4, <2>1 DEF Safe, Pointed, HeldFor, Released
  <2>3. RuaThere'
    <3>1. place # "init"
      <4>1. ProperStep(player, place, Head(todo))
        BY <1>1, AtHand DEF Flow, Proper
      <4> QED
        BY <1>1, <1>2, <1>6, <4>1 DEF ProperStep, Devices
    <3>2. place \in {"configure", "start"}
      BY <1>2, <3>1 DEF Kinds
    <3>3. "rua" \in ctx
      BY <3>2 DEF Flow, Entry, Configured
    <3>4. ~torn => "rua" \in live
      BY <1>4, <3>3 DEF Safe, Pointed
    <3> QED
      BY <1>3, <2>1, <3>4 DEF RuaThere
  <2>4. Ahead' /\ Cleaned'
    BY <1>3, <1>5, <2>1 DEF Safe, Ahead, Cleaned
  <2> QED
    BY <2>2, <2>3, <2>4 DEF Safe
<1>7. CASE Handle # "video"
  <2>1. ctx' = ctx /\ live' = live /\ hw' = hw \cup ({Handle} \cap Devices)
    BY <1>7 DEF BeginOpen, SetHw
  <2>2. Pointed' /\ RuaThere' /\ Released'
    BY <1>3, <1>4, <2>1 DEF Safe, Pointed, RuaThere, Released
  <2>3. HeldFor'
    BY <1>3, <1>4, <2>1 DEF Safe, HeldFor, Devices, Handles
  <2>4. Ahead' /\ Cleaned'
    BY <1>3, <1>5, <2>1 DEF Safe, Ahead, Cleaned
  <2> QED
    BY <2>2, <2>3, <2>4 DEF Safe
<1> QED
  BY <1>6, <1>7

LEMMA SafeEndOpen ==
  ASSUME Simple, Flow, Safe, EndOpen
  PROVE  Safe'
<1>1. todo # <<>> /\ Head(todo).do = "open" /\ half /\ Now("open") /\ half' = FALSE
  BY DEF EndOpen, Now
<1>2. Head(todo).with = {Handle} /\ "open" \in Kinds(place)
  BY <1>1, AtHand
<1>3. /\ player' = player /\ place' = place
      /\ lost' = lost /\ torn' = torn /\ killed' = killed
  BY DEF EndOpen, Same, SameHistory, history, Advance
<1>4. /\ InHand("close") = {} /\ InHand("close")' = {} /\ InHand("open") = {Handle}
      /\ InHand("open")' = {}
  BY <1>1, InHandIs DEF InHand, Now
<1>5. place \notin {"cleanup", "gone"}
  BY <1>2 DEF Kinds
<1>6. CASE Handle = "video"
  <2>1. ctx' = ctx /\ live' = live /\ hw' \subseteq hw \cup {"video"}
    BY <1>6 DEF EndOpen, SetHw
  <2>2. "video" \in ctx
    BY <1>1, <1>2, <1>6 DEF Flow, HalfWay, Opens
  <2>3. Pointed' /\ RuaThere' /\ HeldFor' /\ Released'
    BY <1>3, <1>4, <1>6, <2>1, <2>2 DEF Safe, Pointed, RuaThere, HeldFor, Released
  <2>4. Ahead' /\ Cleaned'
    BY <1>3, <1>5, <2>1 DEF Safe, Ahead, Cleaned
  <2> QED
    BY <2>3, <2>4 DEF Safe
<1>7. CASE Handle # "video"
  <2>1. ctx' = ctx \cup {Handle} /\ live' = live \cup {Handle} /\ hw' = hw
    BY <1>7 DEF EndOpen, SetHandle
  <2>2. Pointed' /\ HeldFor' /\ Released'
    BY <1>3, <1>4, <2>1 DEF Safe, Pointed, HeldFor, Released
  <2>3. ProperStep(player, place, Head(todo))
    BY <1>1, AtHand DEF Flow, Proper
  <2>4. RuaThere'
    <3>1. CASE place = "init"
      <4>1. Handle \notin Devices
        BY <1>1, <1>2, <2>3, <3>1 DEF ProperStep
      <4> QED
        BY <1>3, <2>1, <4>1 DEF Safe, RuaThere
    <3>2. CASE place # "init"
      <4>1. place \in {"configure", "start"}
        BY <1>2, <3>2 DEF Kinds
      <4>2. "rua" \in ctx
        BY <4>1 DEF Flow, Entry, Configured
      <4>3. ~torn => "rua" \in live
        BY <1>4, <4>2 DEF Safe, Pointed
      <4> QED
        BY <1>3, <2>1, <4>3 DEF RuaThere
    <3> QED
      BY <3>1, <3>2
  <2>5. "demux" \in ctx' => player = "mpeg"
    BY <1>1, <1>2, <2>1, <2>3 DEF Safe, Ahead, ProperStep
  <2>6. Ahead' /\ Cleaned'
    BY <1>3, <1>5, <2>5 DEF Ahead, Cleaned
  <2> QED
    BY <2>2, <2>4, <2>6 DEF Safe
<1> QED
  BY <1>6, <1>7

LEMMA SafeShut ==
  ASSUME Simple, Flow, Safe, UseOk, Now("shut")
  PROVE  Safe'
<1>1. todo # <<>> /\ Head(todo).do = "shut"
  BY DEF Now
<1>2. Handle = "pool" /\ "shut" \in Kinds(place)
  <2>1. Head(todo).with = {Handle} /\ Head(todo) = todo[1] /\ 1 \in 1..Len(todo)
    BY <1>1, AtHand
  <2>2. Head(todo).with = {"pool"}
    BY <1>1, <2>1 DEF Flow, Proper
  <2> QED
    BY <1>1, <2>1, <2>2, AtHand
<1>3. place \notin {"cleanup", "gone"} /\ ~half
  BY <1>2, Provided DEF Kinds
<1>4. /\ player' = player /\ place' = place /\ half' = half /\ hw' = hw
      /\ lost' = lost /\ torn' = torn /\ killed' = killed
      /\ ctx' = ctx \ {"pool"} /\ live' = live \ {"pool"}
  BY <1>2 DEF UseOk, Same, SameHistory, history, Advance
<1>5. /\ InHand("close") = {} /\ InHand("close")' = {}
      /\ InHand("open") = {} /\ InHand("open")' = {}
  BY <1>3, <1>4, InHandNot DEF InHand
<1>6. Pointed' /\ RuaThere' /\ Released' /\ Ahead' /\ Cleaned'
  BY <1>3, <1>4, <1>5 DEF Safe, Pointed, RuaThere, Released, Ahead, Cleaned
<1>7. HeldFor'
  BY <1>4, <1>5 DEF Safe, HeldFor, Simple, Devices
<1> QED
  BY <1>6, <1>7 DEF Safe

\* The instance is closed last, and a close that fails frees nothing, or what it frees
\* has no pointer in a moment.
LEMMA SafeBeginClose ==
  ASSUME Simple, Flow, Safe, BeginClose
  PROVE  Safe'
<1>1. todo # <<>> /\ Head(todo).do = "close" /\ ~half /\ half' = TRUE
  BY DEF BeginClose, Now
<1>2. Head(todo).with = {Handle} /\ Handle \in Handles /\ "close" \in Kinds(place)
  BY <1>1, AtHand
<1>3. /\ player' = player /\ place' = place /\ todo' = todo /\ ctx' = ctx
      /\ torn' = torn /\ killed' = killed
  BY DEF BeginClose, Same
<1>4. /\ InHand("close") = {} /\ InHand("open") = {} /\ InHand("open")' = {}
      /\ InHand("close")' = {Handle}
  BY <1>1, <1>2, <1>3, InHandNot DEF InHand, Now
<1>5. /\ live \ {Handle} \subseteq live' /\ hw' \subseteq hw /\ lost \subseteq lost'
      /\ Handle \notin hw' \/ Handle \in lost'
  BY DEF BeginClose
<1>6. place = "cleanup"
  BY <1>2 DEF Kinds
<1>7. Pointed' /\ HeldFor' /\ Released'
  BY <1>3, <1>4, <1>5 DEF Safe, Pointed, HeldFor, Released
<1>8. RuaThere'
  <2>1. CASE Handle = "rua"
    <3>1. \A d : ~Due(todo, d)
      BY <1>1, <1>2, <2>1, AtHand, DueFirst DEF Closes
    <3>2. ctx \cap Devices = {}
      BY <1>6, <3>1 DEF Safe, Ahead
    <3> QED
      BY <1>3, <3>2 DEF RuaThere
  <2>2. CASE Handle # "rua"
    BY <1>3, <1>5, <2>2 DEF Safe, RuaThere
  <2> QED
    BY <2>1, <2>2
<1>9. Ahead' /\ Cleaned'
  BY <1>3, <1>6 DEF Safe, Ahead, Cleaned
<1> QED
  BY <1>7, <1>8, <1>9 DEF Safe

LEMMA SafeEndClose ==
  ASSUME Simple, Flow, Safe, EndClose
  PROVE  Safe'
<1>1. todo # <<>> /\ Head(todo).do = "close" /\ half /\ Now("close") /\ half' = FALSE
  BY DEF EndClose, Now
<1>2. Head(todo).with = {Handle} /\ todo \in Seq(Steps) /\ "close" \in Kinds(place)
  BY <1>1, AtHand
<1>3. /\ player' = player /\ place' = place /\ todo' = Tail(todo) /\ ctx' = ctx \ {Handle}
      /\ live' = live /\ hw' = hw /\ lost' = lost /\ torn' = torn /\ killed' = killed
  BY DEF EndClose, Same, SameHistory, history, Advance
<1>4. /\ InHand("close") = {Handle} /\ InHand("open") = {} /\ InHand("close")' = {}
      /\ InHand("open")' = {}
  BY <1>1, InHandIs DEF InHand, Now
<1>5. Pointed' /\ RuaThere' /\ HeldFor' /\ Released'
  BY <1>3, <1>4 DEF Safe, Pointed, RuaThere, HeldFor, Released
<1>6. Ahead'
  <2>1. place = "cleanup" => \A d \in ctx' \cap Devices : Due(Tail(todo), d)
    BY <1>1, <1>2, <1>3, DueTail DEF Safe, Ahead, Closes
  <2> QED
    BY <1>3, <2>1 DEF Safe, Ahead
<1>7. Cleaned'
  BY <1>2, <1>3 DEF Cleaned, Kinds
<1> QED
  BY <1>5, <1>6, <1>7 DEF Safe

\* Only the branch of a torn session is left here, as nothing dead is used in others.
LEMMA SafeCloseDead ==
  ASSUME Simple, Flow, Safe, CloseDead
  PROVE  Safe'
<1>1. todo # <<>> /\ Head(todo).do = "close" /\ ~half /\ torn
  BY SafeUses DEF CloseDead, NothingDeadUsed, Now
<1>2. CASE Fatal
  BY <1>2, SafeFatal
<1>3. CASE half' = TRUE /\ UNCHANGED <<place, todo, back, exiting>> /\ Same /\ SameHistory
           /\ Stay
  <2>1. "close" \in Kinds(place)
    BY <1>1, AtHand
  <2>2. /\ player' = player /\ place' = place /\ todo' = todo /\ ctx' = ctx /\ torn' = torn
    BY <1>3 DEF Same, SameHistory, history, Stay
  <2>3. place # "gone"
    BY <2>1 DEF Kinds
  <2> QED
    BY <1>1, <2>2, <2>3 DEF Safe, Pointed, RuaThere, Ahead, Cleaned, HeldFor, Released
<1> QED
  BY <1>2, <1>3 DEF CloseDead

LEMMA SafeSteps ==
  ASSUME Simple, Flow, Safe,
         BeginOpen \/ EndOpen \/ OpenFails \/ UseOk \/ UseFails \/ TryFails \/ UseNull
         \/ CloseSkipped \/ BeginClose \/ CloseDead \/ EndClose
  PROVE  Safe'
<1>1. CASE BeginOpen
  BY <1>1, SafeBeginOpen
<1>2. CASE EndOpen
  BY <1>2, SafeEndOpen
<1>3. CASE OpenFails
  BY <1>3, SafeFails DEF OpenFails
<1>4. CASE UseOk
  <2>1. CASE Now("shut")
    BY <1>4, <2>1, SafeShut
  <2>2. CASE ~Now("shut")
    <3>1. todo # <<>> /\ Head(todo).do \in {"use", "try"} /\ ~half
      BY <1>4, <2>2, Provided DEF UseOk, Now
    <3>2. /\ half' = FALSE /\ todo' = Tail(todo)
          /\ player' = player /\ place' = place /\ live' = live /\ hw' = hw /\ ctx' = ctx
          /\ lost' = lost /\ torn' = torn /\ killed' = killed
      BY <1>4, <2>2, <3>1 DEF UseOk, Advance, Same, SameHistory, history
    <3>3. \A d \in ctx : ~Closes(Head(todo), d)
      BY <3>1 DEF Closes
    <3> QED
      BY <3>1, <3>2, <3>3, SafeTail
  <2> QED
    BY <2>1, <2>2
<1>5. CASE UseFails
  <2>1. ~half
    BY <1>5, Provided DEF UseFails
  <2> QED
    BY <1>5, <2>1, SafeFails DEF UseFails
<1>6. CASE TryFails
  <2>1. todo # <<>> /\ Head(todo).do = "try" /\ ~half
    BY <1>6, Provided DEF TryFails, Now
  <2>2. /\ half' = FALSE /\ todo' = Tail(todo)
        /\ player' = player /\ place' = place /\ live' = live /\ hw' = hw /\ ctx' = ctx
        /\ lost' = lost /\ torn' = torn /\ killed' = killed
    BY <1>6, <2>1 DEF TryFails, Advance, Same, SameHistory, history, Stay
  <2>3. \A d \in ctx : ~Closes(Head(todo), d)
    BY <2>1 DEF Closes
  <2> QED
    BY <2>1, <2>2, <2>3, SafeTail
<1>7. CASE UseNull
  BY <1>7, SafeFatal DEF UseNull
<1>8. CASE CloseSkipped
  <2>1. todo # <<>> /\ Head(todo).do = "close" /\ ~half /\ Handle \notin ctx
    BY <1>8 DEF CloseSkipped, Now
  <2>2. /\ half' = FALSE /\ todo' = Tail(todo)
        /\ player' = player /\ place' = place /\ live' = live /\ hw' = hw /\ ctx' = ctx
        /\ lost' = lost /\ torn' = torn /\ killed' = killed
    BY <1>8, <2>1 DEF CloseSkipped, Advance, Same, SameHistory, history, Stay
  <2>3. \A d \in ctx : ~Closes(Head(todo), d)
    BY <2>1, AtHand DEF Closes
  <2> QED
    BY <2>1, <2>2, <2>3, SafeTail
<1>9. CASE BeginClose
  BY <1>9, SafeBeginClose
<1>10. CASE CloseDead
  BY <1>10, SafeCloseDead
<1>11. CASE EndClose
  BY <1>11, SafeEndClose
<1> QED
  BY <1>1, <1>2, <1>3, <1>4, <1>5, <1>6, <1>7, <1>8, <1>9, <1>10, <1>11

LEMMA SafeFunctions ==
  ASSUME Simple, Flow, Safe,
         Begin \/ InitDone \/ ConfigureDone \/ StartDone \/ LoopFails \/ LoopStartsPlay
         \/ PlayDone \/ Hang \/ LoopEnds \/ LastDone \/ OutDone \/ CleanupDone
  PROVE  Safe'
<1>1. todo = <<>> \/ place = "begin"
  BY DEF Begin, InitDone, ConfigureDone, StartDone, LoopFails, LoopStartsPlay, PlayDone,
         Hang, LoopEnds, LastDone, OutDone, CleanupDone, Done
<1>2. ~half
  <2>1. place = "begin" /\ todo # <<>> => Head(todo).do \in {}
    BY AtHand DEF Kinds
  <2> QED
    BY <1>1, <2>1 DEF Flow, HalfWay
<1>3. CASE LoopFails
  BY <1>2, <1>3, SafeFails, SafeGivesUp DEF LoopFails
<1>4. CASE Begin
  <2>1. /\ place' = "init" /\ half' = FALSE /\ player' = player /\ live' = live
        /\ hw' = hw /\ ctx' = ctx /\ lost' = lost /\ torn' = torn
    BY <1>2, <1>4 DEF Begin, Goto, SameHistory, history, Stay
  <2> QED
    BY <1>2, <2>1, SafeGoto
<1>5. CASE InitDone \/ ConfigureDone \/ StartDone \/ LoopStartsPlay \/ PlayDone \/ LoopEnds
           \/ LastDone \/ OutDone \/ Hang
  <2>1. /\ half' = FALSE /\ player' = player /\ live' = live /\ hw' = hw /\ ctx' = ctx
        /\ lost' = lost /\ torn' = torn
    <3>1. CASE GoesOn
      BY <1>2, <3>1 DEF GoesOn, SameHistory, history, Stay
    <3>2. CASE Hang
      BY <1>2, <3>2 DEF Hang, Same, SameHistory, history, Stay
    <3> QED
      BY <1>5, <3>1, <3>2 DEF InitDone, ConfigureDone, StartDone, LoopStartsPlay, PlayDone,
                              LoopEnds, LastDone, OutDone
  <2>2. place' # "gone" /\ (place' = "cleanup" => todo' = Cleanup)
    BY <1>5 DEF InitDone, ConfigureDone, StartDone, LoopStartsPlay, PlayDone, LoopEnds,
                LastDone, OutDone, Hang, ToOut, ToLast, Goto
  <2> QED
    BY <1>2, <2>1, <2>2, SafeGoto
<1>6. CASE CleanupDone
  <2>1. /\ half' = FALSE /\ player' = player /\ live' = live /\ hw' = hw /\ ctx' = ctx
        /\ lost' = lost /\ torn' = torn /\ killed' = killed /\ place = "cleanup" /\ todo = <<>>
    BY <1>2, <1>6 DEF CleanupDone, Done, Same, SameHistory, history, Stay, Exit
  <2>2. CASE exiting
    <3>1. place' = "gone" /\ todo' = <<>>
      BY <1>6, <2>2 DEF CleanupDone, Goto
    <3>2. ctx \cap Devices = {}
      BY <2>1 DEF Safe, Ahead, Due
    <3>3. /\ InHand("close") = {} /\ InHand("close")' = {}
          /\ InHand("open") = {} /\ InHand("open")' = {}
      BY <1>2, <2>1, InHandNot DEF InHand
    <3> QED
      BY <2>1, <3>1, <3>2, <3>3
      DEF Safe, Pointed, RuaThere, Ahead, Cleaned, HeldFor, Released
  <2>3. CASE ~exiting
    <3>1. place' # "gone" /\ (place' = "cleanup" => todo' = Cleanup)
      BY <1>6, <2>3 DEF CleanupDone, Exit, ToOut, ToLast, Goto
    <3> QED
      BY <1>2, <2>1, <3>1, SafeGoto
  <2> QED
    BY <2>2, <2>3
<1> QED
  BY <1>3, <1>4, <1>5, <1>6

LEMMA SafeNext == Simple /\ Flow /\ Safe /\ [Next]_vars => Safe'
<1> SUFFICES ASSUME Simple, Flow, Safe, [Next]_vars PROVE Safe'
  OBVIOUS
<1>1. CASE UNCHANGED vars \/ Stop
  <2>1. /\ place' = place /\ todo' = todo /\ half' = half /\ player' = player
        /\ ctx' = ctx /\ live' = live /\ hw' = hw
        /\ lost' = lost /\ torn' = torn /\ killed' = killed
    BY <1>1 DEF Stop, Stay, SameHistory, history, vars, process
  <2>2. InHand("open")' = InHand("open") /\ InHand("close")' = InHand("close")
    BY <2>1 DEF InHand, Now
  <2> QED
    BY <2>1, <2>2 DEF Safe, Pointed, RuaThere, Ahead, Cleaned, HeldFor, Released
<1>2. CASE Crash
  BY <1>2, SafeFatal DEF Crash
<1>3. CASE Program
  BY <1>3, SafeSteps, SafeFunctions DEF Program
<1> QED
  BY <1>1, <1>2, <1>3 DEF Next

LEMMA Invariant == Spec => [](Simple /\ Flow /\ Safe)
<1>1. Init => Simple /\ Flow /\ Safe
  BY FlowInit, SafeInit
<1>2. (Simple /\ Flow /\ Safe) /\ [Next]_vars => (Simple /\ Flow /\ Safe)'
  BY SimpleNext, FlowNext, SafeNext
<1> QED
  BY <1>1, <1>2, PTL DEF Spec

-----------------------------------------------------------------------------
(* How near the end is. *)

Nearer == Phase' < Phase \/ (Phase' = Phase /\ Left' < Left)

PhaseTable ==
  /\ Phase \in 0..15
  /\ place = "gone" => Phase = 0
  /\ place # "gone" /\ exiting => Phase = 1
  /\ place # "gone" /\ ~exiting => Phase >= 2
  /\ place = "cleanup" /\ ~exiting =>
       /\ back = "exit" => Phase = 2
       /\ back = "main" => Phase = 3
       /\ back = "out" => Phase = 5
       /\ back = "last" => Phase = 7
  /\ ~exiting =>
       /\ place = "out" => Phase = 4
       /\ place = "last" => Phase = 6
       /\ place = "hung" => Phase = 8
       /\ place = "loop" /\ playing => Phase = 9
       /\ place = "play" => Phase = 10
       /\ place = "loop" /\ ~playing => Phase = 11
       /\ place = "start" => Phase = 12
       /\ place = "configure" => Phase = 13
       /\ place = "init" => Phase = 14
       /\ place = "begin" => Phase = 15

LEMMA PhaseOf == Simple => PhaseTable
<1> SUFFICES ASSUME Simple PROVE PhaseTable
  OBVIOUS
<1> USE DEF PhaseTable
<1>1. CASE place = "gone" \/ exiting
  BY <1>1 DEF Phase
<1>2. CASE place = "cleanup" /\ ~exiting
  BY <1>2 DEF Phase, Simple
<1>3. CASE place = "loop" /\ ~exiting
  BY <1>3 DEF Phase, Simple
<1>4. CASE place \notin {"gone", "cleanup", "loop"} /\ ~exiting
  BY <1>4 DEF Phase, Simple, Places
<1> QED
  BY <1>1, <1>2, <1>3, <1>4

LEMMA PhaseNext == Simple' => PhaseTable'
BY PhaseOf, PTL

LEMMA LeftOf ==
  ASSUME Simple, Flow, todo # <<>>
  PROVE  /\ Len(todo) \in Nat /\ Len(todo) >= 1 /\ Len(Tail(todo)) = Len(todo) - 1
         /\ Left = 2 * Len(todo) - (IF half THEN 1 ELSE 0)
BY AtHand, TailOf DEF Left

\* A half of a step, and a whole one.
LEMMA NearerStep ==
  ASSUME Simple, Flow, todo # <<>>,
         place' = place, back' = back, exiting' = exiting, playing' = playing,
         \/ todo' = Tail(todo) /\ half' = FALSE
         \/ todo' = todo /\ ~half /\ half' = TRUE
  PROVE  Nearer
<1>1. Phase' = Phase
  BY DEF Phase
<1>2. Left' < Left
  BY LeftOf DEF Left
<1> QED
  BY <1>1, <1>2 DEF Nearer

LEMMA NearerFatal ==
  ASSUME Simple, Simple', Fatal, place # "gone"
  PROVE  Nearer
<1>1. CASE exiting
  BY <1>1, PhaseOf DEF Fatal, Goto, Phase, PhaseTable, Nearer
<1>2. CASE ~exiting
  <2>1. Phase' = 1
    BY <1>2 DEF Fatal, Exit, Goto, Phase
  <2> QED
    BY <1>2, <2>1, PhaseOf DEF PhaseTable, Nearer
<1> QED
  BY <1>1, <1>2

LEMMA NearerGivesUp ==
  ASSUME Simple, Flow, NEW where \in {"main", "last", "out", "exit"}, GivesUp(where),
         place \notin {"begin", "cleanup", "gone"},
         where = "last" => place = "loop",
         where = "out" => place \in {"loop", "play", "last"}
  PROVE  Nearer
<1>1. ~exiting /\ place' = "cleanup"
  BY DEF Flow, GivesUp, Exit, Goto
<1>2. CASE todo # <<>> /\ Head(todo) = Open("rua")
  <2>1. Phase' = 1
    BY <1>2 DEF GivesUp, Exit, Goto, Phase
  <2> QED
    BY <1>1, <2>1, PhaseOf DEF PhaseTable, Nearer
<1>3. CASE ~(todo # <<>> /\ Head(todo) = Open("rua"))
  <2>1. exiting' = exiting /\ back' = where
    BY <1>3 DEF GivesUp
  <2>2. /\ where = "exit" => Phase' = 2
        /\ where = "main" => Phase' = 3
        /\ where = "out" => Phase' = 5
        /\ where = "last" => Phase' = 7
    BY <1>1, <2>1 DEF Phase
  <2>3. /\ Phase >= 4 /\ (place \in {"loop", "play", "last"} => Phase >= 6)
        /\ place = "loop" => Phase >= 9
    BY <1>1, PhaseOf DEF PhaseTable, Simple, Places
  <2> QED
    BY <2>1, <2>2, <2>3, PhaseOf DEF PhaseTable, Nearer
<1> QED
  BY <1>2, <1>3

LEMMA NearerFails ==
  ASSUME Simple, Flow, Fails, place \notin {"begin", "cleanup", "gone"}
  PROVE  Nearer
<1>1. /\ GivesUp(AfterFailure) /\ AfterFailure \in {"main", "out", "exit"}
      /\ AfterFailure = "out" => place \in {"loop", "play", "last"}
  BY DEF Fails, AfterFailure
<1> QED
  BY <1>1, NearerGivesUp

LEMMA NearerSteps ==
  ASSUME Simple, Flow, Simple',
         BeginOpen \/ EndOpen \/ OpenFails \/ UseOk \/ UseFails \/ TryFails \/ UseNull
         \/ CloseSkipped \/ BeginClose \/ CloseDead \/ EndClose
  PROVE  Nearer
<1>1. todo # <<>> /\ place \notin {"begin", "loop", "gone"}
  <2>1. todo # <<>>
    BY DEF BeginOpen, EndOpen, OpenFails, UseOk, UseFails, TryFails, UseNull, CloseSkipped,
           BeginClose, CloseDead, EndClose, Now
  <2> QED
    BY <2>1, AtHand DEF Kinds
<1>2. CASE BeginOpen \/ BeginClose
  BY <1>1, <1>2, NearerStep DEF BeginOpen, BeginClose, Same
<1>3. CASE EndOpen \/ EndClose
  BY <1>1, <1>3, NearerStep DEF EndOpen, EndClose, Same, Advance
<1>4. CASE UseOk \/ TryFails \/ CloseSkipped
  <2>1. half' = FALSE
    BY <1>4, Provided DEF UseOk, TryFails, CloseSkipped, Simple
  <2> QED
    BY <1>1, <1>4, <2>1, NearerStep DEF UseOk, TryFails, CloseSkipped, Same, Advance
<1>5. CASE OpenFails \/ UseFails
  <2>1. Head(todo).do \in {"open", "use"} /\ Fails
    BY <1>5 DEF OpenFails, UseFails, Now
  <2>2. place # "cleanup"
    BY <1>1, <2>1, AtHand DEF Kinds
  <2> QED
    BY <1>1, <2>1, <2>2, NearerFails
<1>6. CASE UseNull
  BY <1>1, <1>6, NearerFatal DEF UseNull
<1>7. CASE CloseDead
  <2>1. CASE Fatal
    BY <1>1, <2>1, NearerFatal
  <2>2. CASE half' = TRUE /\ UNCHANGED <<place, todo, back, exiting>> /\ Same
    BY <1>1, <1>7, <2>2, NearerStep DEF CloseDead, Same
  <2> QED
    BY <1>7, <2>1, <2>2 DEF CloseDead
<1> QED
  BY <1>2, <1>3, <1>4, <1>5, <1>6, <1>7

LEMMA NearerFunctions ==
  ASSUME Simple, Flow, Simple',
         Begin \/ InitDone \/ ConfigureDone \/ StartDone \/ LoopFails \/ LoopStartsPlay
         \/ PlayDone \/ Hang \/ LoopEnds \/ LastDone \/ OutDone \/ CleanupDone
  PROVE  Nearer
<1>1. place \notin {"cleanup", "gone"} => ~exiting /\ back \notin {"last", "out"}
  BY DEF Flow, WayBack
<1>2. Phase \in 0..15 /\ Phase' \in 0..15
  BY PhaseOf, PhaseNext DEF PhaseTable
<1>3. CASE Begin
  <2>1. place = "begin" /\ place' = "init" /\ exiting' = exiting
    BY <1>3 DEF Begin, Goto
  <2> QED
    BY <1>1, <2>1, PhaseOf, PhaseNext DEF PhaseTable, Nearer
<1>4. CASE InitDone \/ StartDone \/ LoopStartsPlay \/ LoopEnds
  <2>1. /\ exiting' = exiting /\ playing' = playing
        /\ \/ place = "init" /\ place' = "configure"
           \/ place = "start" /\ place' = "loop"
           \/ place = "loop" /\ ~playing /\ place' = "play"
           \/ place = "loop" /\ place' \in {"last", "out"}
    BY <1>4 DEF InitDone, StartDone, LoopStartsPlay, LoopEnds, ToOut, ToLast, Done, Goto, GoesOn
  <2> QED
    BY <1>1, <2>1, PhaseOf, PhaseNext DEF PhaseTable, Nearer, Simple
<1>5. CASE PlayDone
  <2>1. place = "play" /\ place' = "loop" /\ playing' = TRUE /\ exiting' = exiting
    BY <1>5 DEF PlayDone, Done, Goto, GoesOn
  <2> QED
    BY <1>1, <2>1, PhaseOf, PhaseNext DEF PhaseTable, Nearer
<1>6. CASE ConfigureDone \/ OutDone
  <2>1. /\ exiting' = exiting /\ back' = back
        /\ \/ place = "configure" /\ place' \in {"cleanup", "start"}
           \/ place = "out" /\ place' = "cleanup"
    BY <1>6 DEF ConfigureDone, OutDone, Done, Goto, GoesOn
  <2> QED
    BY <1>1, <2>1, PhaseOf, PhaseNext DEF PhaseTable, Nearer, Simple
<1>7. CASE LoopFails
  BY <1>7, NearerFails, NearerGivesUp DEF LoopFails, Done
<1>9. CASE LastDone
  <2>1. place = "last" /\ place' = "out" /\ exiting' = exiting
    BY <1>9 DEF LastDone, Done, Goto, GoesOn
  <2> QED
    BY <1>1, <2>1, PhaseOf, PhaseNext DEF PhaseTable, Nearer
<1>10. CASE Hang
  <2>1. place = "loop" /\ playing /\ place' = "hung" /\ exiting' = exiting
    BY <1>10 DEF Hang, Done, Goto
  <2> QED
    BY <1>1, <2>1, PhaseOf, PhaseNext DEF PhaseTable, Nearer
<1>8. CASE CleanupDone
  <2>0. place = "cleanup" /\ back \in {"main", "last", "out", "exit"}
    BY <1>8 DEF CleanupDone, Done, Simple
  <2>1. CASE exiting
    BY <1>8, <2>0, <2>1, PhaseOf, PhaseNext DEF PhaseTable, CleanupDone, Goto, Nearer
  <2>2. CASE ~exiting /\ back = "exit"
    <3>1. place' = "cleanup" /\ exiting' = TRUE
      BY <1>8, <2>2 DEF CleanupDone, Exit, Goto
    <3> QED
      BY <2>0, <2>2, <3>1, PhaseOf, PhaseNext DEF PhaseTable, Nearer
  <2>3. CASE ~exiting /\ back = "main"
    <3>1. place' = "cleanup" /\ exiting' = exiting /\ back' = "exit"
      BY <1>8, <2>3 DEF CleanupDone, Goto
    <3> QED
      BY <2>0, <2>3, <3>1, PhaseOf, PhaseNext DEF PhaseTable, Nearer
  <2>4. CASE ~exiting /\ back \in {"last", "out"}
    <3>1. /\ place' = "out" \/ (back = "last" /\ place' = "last")
          /\ exiting' = exiting
      BY <1>8, <2>4 DEF CleanupDone, ToOut, ToLast, Goto
    <3> QED
      BY <2>0, <2>4, <3>1, PhaseOf, PhaseNext DEF PhaseTable, Nearer
  <2> QED
    BY <2>0, <2>1, <2>2, <2>3, <2>4
<1> QED
  BY <1>3, <1>4, <1>5, <1>6, <1>7, <1>8, <1>9, <1>10

-----------------------------------------------------------------------------
(* The results *)

\* The variables of a session have their types, a call is under way only at an open or
\* a close, and the program is in exit only in its cleanup or after it.
THEOREM SessionTypeCorrect == Spec => []TypeOK
<1>1. Simple /\ Flow => TypeOK
  BY DEF Simple, Flow, HalfWay, TypeOK, Places
<1> QED
  BY <1>1, FlowInvariant, PTL

\* Whatever call fails and wherever a signal comes, playrawmp4, playmp4 and plaympeg
\* never hand a NULL pointer to the library but in the three known places: pRUA in the
\* cleanup of plaympeg; and in playmp4, after a failed call, what cleanup has reset, in the
\* start of a very small video and on the way out of play_video.
THEOREM NoNullPassed == Spec => []NeverNull
<1>1. Flow => NeverNull
  BY Provided DEF NeverNull, Exempt
<1> QED
  BY <1>1, FlowInvariant, PTL

\* No call of the players uses a structure that was freed, in a cleanup from the middle of
\* the set-up, in the second cleanup of main, in that of exit and after a close that
\* failed; only a fatal signal between a close and the reset of its pointer can undo that.
THEOREM NothingFreedUsed == Spec => []NothingDeadUsed
<1>1. Simple /\ Flow /\ Safe => NothingDeadUsed
  BY SafeUses
<1> QED
  BY <1>1, Invariant, PTL

\* When a player is gone the driver holds none of its devices, but those whose own close
\* failed or whose open a fatal signal cut off: unless a signal has killed it in exit or
\* has come right between a close and the reset of its pointer.
THEOREM AllDevicesClosed == Spec => []EverythingClosed
<1>1. Simple /\ Safe => EverythingClosed
  <2> SUFFICES ASSUME Simple, Safe, place = "gone", ~killed, ~torn PROVE hw \subseteq lost
    BY DEF EverythingClosed
  <2>1. InHand("open") = {} /\ ctx \cap Devices = {}
    BY InHandNot DEF Safe, Cleaned
  <2> QED
    BY <2>1 DEF Safe, HeldFor, Simple
<1> QED
  BY <1>1, Invariant, PTL

\* The variant of the players: no function is come back to for ever and every step that is
\* not a round of the loop brings the program nearer to its end or to where it hangs, a
\* failing call, the cleanups after it and a fatal signal included.  With the fairness of
\* FairSpec this is why StopEnds holds.
THEOREM EveryStepNearer == Spec => AlwaysNearer
<1>1. Simple /\ Flow /\ [Next]_vars => Simple'
  BY SimpleNext
<1>2. Simple /\ Flow /\ Simple' /\ Program => Nearer
  BY NearerSteps, NearerFunctions DEF Program
<1>3. Simple /\ Simple' /\ Crash => Nearer
  BY NearerFatal DEF Crash
<1>4. Simple /\ Flow /\ [Next]_vars => [Program \/ Crash => Nearer]_vars
  BY <1>1, <1>2, <1>3
<1> QED
  BY <1>4, FlowInvariant, PTL DEF Spec, AlwaysNearer, Nearer

=============================================================================
