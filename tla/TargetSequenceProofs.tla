------------------------ MODULE TargetSequenceProofs ------------------------
(***************************************************************************)
(* The safety of TargetSequence for any number of images and any project   *)
(* file.  FLASH.ReProgram mode is left: a command that needs the mode is   *)
(* followed directly by another, or by the one that leaves it.  The second *)
(* part is about what is reported at the end and about the flash script.   *)
(***************************************************************************)
EXTENDS TargetSequence, SequenceTheorems, TLAPS

ALL  == "FLASH.ReProgram ALL /Erase"
LOAD == "Data.LOAD.Elf"
OFF  == "FLASH.ReProgram OFF"

(* Commands after which the mode is on, and commands that are sent then.   *)
Opens(c)  == c[1] \in {ALL, LOAD}
Closes(c) == c[1] \in {LOAD, OFF}

(* Followed but perhaps for its last command; followed.                    *)
Chained(s) == \A k \in 1 .. Len(s) : Opens(s[k]) /\ k < Len(s) => Closes(s[k + 1])
Followed(s) == Chained(s) /\ (s # <<>> => ~Opens(s[Len(s)]))

(* Commands that have nothing to do with the mode.                         *)
Plain(s) == \A k \in 1 .. Len(s) : ~Opens(s[k])

(* The mode is on only while the commands that need it are sent.           *)
ReprogramInv ==
  /\ Followed(todo)
  /\ outcome = "none" /\ reprogram => todo # <<>> /\ Closes(todo[1])
  /\ outcome = "none" /\ failed => todo = <<C(OFF)>>
  /\ ReprogramLeft

IInv == SequenceTypeOK /\ ReprogramInv

-----------------------------------------------------------------------------
(* Sequences of commands.                                                  *)

LEMMA PlainIsFollowed ==
  ASSUME NEW s \in Seq(Commands), Plain(s)
  PROVE  Followed(s)
BY LenProperties DEF Plain, Followed, Chained

LEMMA PlainConcat ==
  ASSUME NEW s \in Seq(Commands), NEW t \in Seq(Commands), Plain(s), Plain(t)
  PROVE  s \o t \in Seq(Commands) /\ Plain(s \o t)
<1> DEFINE st == s \o t
<1>1. /\ st \in Seq(Commands) /\ Len(st) = Len(s) + Len(t)
      /\ \A k \in 1 .. Len(s) + Len(t) : st[k] = IF k <= Len(s) THEN s[k] ELSE t[k - Len(s)]
  BY ConcatProperties
<1>2. Len(s) \in Nat /\ Len(t) \in Nat
  BY LenProperties
<1>3. ASSUME NEW k \in 1 .. Len(st) PROVE ~Opens(st[k])
  <2> HIDE DEF st
  <2>1. CASE k <= Len(s)
    BY <1>1, <1>2, <2>1 DEF Plain
  <2>2. CASE k > Len(s)
    <3>1. k - Len(s) \in 1 .. Len(t) /\ st[k] = t[k - Len(s)]
      BY <1>1, <1>2, <2>2
    <3> QED BY <3>1 DEF Plain
  <2> QED BY <1>1, <1>2, <2>1, <2>2
<1> QED BY <1>1, <1>3 DEF Plain

(* Two sequences that join where the mode is not needed, or is.            *)
LEMMA ChainedConcat ==
  ASSUME NEW s \in Seq(Commands), NEW t \in Seq(Commands), Chained(s), Chained(t),
         s # <<>> /\ Opens(s[Len(s)]) => t # <<>> /\ Closes(t[1])
  PROVE  /\ s \o t \in Seq(Commands) /\ Chained(s \o t)
         /\ t # <<>> => s \o t # <<>> /\ (s \o t)[Len(s \o t)] = t[Len(t)]
         /\ t = <<>> => s \o t = s
<1> DEFINE st == s \o t
<1>1. /\ st \in Seq(Commands) /\ Len(st) = Len(s) + Len(t)
      /\ \A k \in 1 .. Len(s) + Len(t) : st[k] = IF k <= Len(s) THEN s[k] ELSE t[k - Len(s)]
  BY ConcatProperties
<1>2. /\ Len(s) \in Nat /\ Len(t) \in Nat
      /\ s = <<>> <=> Len(s) = 0
      /\ t = <<>> <=> Len(t) = 0
  BY LenProperties, EmptySeq
<1>3. t = <<>> => st = s
  BY ConcatEmptySeq
<1> HIDE DEF st
<1>4. ASSUME NEW k \in 1 .. Len(st), Opens(st[k]), k < Len(st) PROVE Closes(st[k + 1])
  <2>1. CASE k < Len(s)
    <3>1. k \in 1 .. Len(s) /\ st[k] = s[k] /\ st[k + 1] = s[k + 1]
      BY <1>1, <1>2, <1>4, <2>1
    <3> QED BY <1>4, <2>1, <3>1 DEF Chained
  <2>2. CASE k = Len(s)
    <3>1. st[k] = s[k]
      BY <1>1, <1>2, <2>2
    <3>2. k + 1 \in 1 .. Len(s) + Len(t) /\ k + 1 > Len(s) /\ (k + 1) - Len(s) = 1
      BY <1>1, <1>2, <1>4, <2>2
    <3>3. st[k + 1] = t[1]
      BY <1>1, <1>2, <3>2
    <3> QED BY <1>2, <1>4, <2>2, <3>1, <3>3
  <2>3. CASE k > Len(s)
    <3>1. /\ k - Len(s) \in 1 .. Len(t) /\ k - Len(s) < Len(t)
          /\ st[k] = t[k - Len(s)] /\ st[k + 1] = t[(k - Len(s)) + 1]
      BY <1>1, <1>2, <1>4, <2>3
    <3> QED BY <1>4, <3>1 DEF Chained
  <2> QED BY <1>1, <1>2, <2>1, <2>2, <2>3
<1>5. ASSUME t # <<>> PROVE st # <<>> /\ st[Len(st)] = t[Len(t)]
  <2>1. Len(st) > Len(s) /\ Len(st) - Len(s) = Len(t) /\ Len(st) \in 1 .. Len(s) + Len(t)
    BY <1>1, <1>2, <1>5
  <2>2. st # <<>>
    BY <1>2, <2>1, EmptySeq
  <2> QED BY <1>1, <1>2, <2>1, <2>2
<1> QED BY <1>1, <1>3, <1>4, <1>5 DEF Chained, st

LEMMA FollowedConcat ==
  ASSUME NEW s \in Seq(Commands), NEW t \in Seq(Commands), Chained(s), Followed(t),
         s # <<>> /\ Opens(s[Len(s)]) => t # <<>> /\ Closes(t[1])
  PROVE  s \o t \in Seq(Commands) /\ Followed(s \o t)
<1> DEFINE st == s \o t
<1>1. /\ st \in Seq(Commands) /\ Chained(st)
      /\ t # <<>> => st # <<>> /\ st[Len(st)] = t[Len(t)]
      /\ t = <<>> => st = s
  BY ChainedConcat DEF Followed
<1> HIDE DEF st
<1>2. Followed(st)
  BY <1>1 DEF Followed
<1> QED BY <1>1, <1>2 DEF st

LEMMA FollowedTail ==
  ASSUME NEW s \in Seq(Commands), s # <<>>, Followed(s)
  PROVE  /\ Tail(s) \in Seq(Commands) /\ Followed(Tail(s))
         /\ Opens(s[1]) => Tail(s) # <<>> /\ Closes(Tail(s)[1])
<1> DEFINE t == Tail(s)
<1>1. /\ t \in Seq(Commands) /\ Len(t) = Len(s) - 1
      /\ \A k \in 1 .. Len(t) : t[k] = s[k + 1]
  BY HeadTailProperties
<1>2. /\ Len(s) \in Nat /\ Len(s) > 0 /\ Len(t) \in Nat
      /\ t = <<>> => Len(t) = 0
      /\ Len(t) = 0 => t = <<>>
  <2>1. Len(s) \in Nat /\ Len(t) \in Nat /\ Len(s) # 0
    BY <1>1, LenProperties, EmptySeq
  <2> HIDE DEF t
  <2>2. (t = <<>> => Len(t) = 0) /\ (Len(t) = 0 => t = <<>>)
    BY <1>1, EmptySeq
  <2> QED BY <2>1, <2>2
<1> HIDE DEF t
<1>3. ASSUME NEW k \in 1 .. Len(t), Opens(t[k]), k < Len(t) PROVE Closes(t[k + 1])
  BY <1>1, <1>2, <1>3 DEF Followed, Chained
<1>4. t # <<>> => ~Opens(t[Len(t)])
  BY <1>1, <1>2 DEF Followed
<1>5. Opens(s[1]) => t # <<>> /\ Closes(t[1])
  BY <1>1, <1>2 DEF Followed, Chained
<1> QED BY <1>1, <1>3, <1>4, <1>5 DEF Followed, Chained, t

-----------------------------------------------------------------------------
(* The sequences tracebridge sends.                                        *)

LEMMA CommandType ==
  ASSUME NEW text \in Texts
  PROVE  C(text) \in Commands /\ C(text)[1] = text
BY DEF C, Commands

LEMMA LoadIsNoText == LOAD \notin Texts
BY DEF LOAD, Texts

LEMMA One ==
  ASSUME NEW c \in Commands
  PROVE  <<c>> \in Seq(Commands) /\ Len(<<c>>) = 1 /\ <<c>>[1] = c
OBVIOUS

(* One command that does not need the mode, and one sent with its setting. *)
LEMMA Single ==
  ASSUME NEW text \in Texts \ {ALL}
  PROVE  <<C(text)>> \in Seq(Commands) /\ Plain(<<C(text)>>)
<1> DEFINE c == C(text)
<1>1. c \in Commands /\ ~Opens(c)
  BY CommandType, LoadIsNoText DEF Opens
<1> HIDE DEF c
<1>2. <<c>> \in Seq(Commands) /\ Len(<<c>>) = 1 /\ <<c>>[1] = c
  BY <1>1, One
<1>3. Plain(<<c>>)
  BY <1>1, <1>2 DEF Plain
<1> QED BY <1>2, <1>3 DEF c

LEMMA IfPlain ==
  ASSUME NEW option, NEW text \in Texts \ {ALL}, NEW c
  PROVE  If(option, text, c) \in Seq(Commands) /\ Plain(If(option, text, c))
<1>1. <<>> \in Seq(Commands) /\ Plain(<<>>)
  BY EmptySeq DEF Plain
<1> QED BY <1>1, Single DEF If

LEMMA SettingPlain ==
  ASSUME NEW c
  PROVE  SettingCommands(c) \in Seq(Commands) /\ Plain(SettingCommands(c))
<1> DEFINE cpu   == If("cpu", "SYStem.CPU", c)
           acc   == If("mem_access", "SYStem.MemAccess", c)
           cores == If("cores", "CORE.ASSIGN", c)
<1>1. {"SYStem.CPU", "SYStem.MemAccess", "CORE.ASSIGN"} \subseteq Texts \ {ALL}
  BY DEF ALL, LOAD, Texts
<1>2. cpu \in Seq(Commands) /\ Plain(cpu)
  BY <1>1, IfPlain
<1>3. acc \in Seq(Commands) /\ Plain(acc)
  BY <1>1, IfPlain
<1>4. cores \in Seq(Commands) /\ Plain(cores)
  BY <1>1, IfPlain
<1> HIDE DEF cpu, acc, cores
<1>5. cpu \o acc \in Seq(Commands) /\ Plain(cpu \o acc)
  BY <1>2, <1>3, PlainConcat
<1>6. (cpu \o acc) \o cores \in Seq(Commands) /\ Plain((cpu \o acc) \o cores)
  BY <1>4, <1>5, PlainConcat
<1> QED BY <1>6 DEF SettingCommands, cpu, acc, cores

LEMMA AttachPlain ==
  ASSUME NEW c
  PROVE  attach_commands(c) \in Seq(Commands) /\ Plain(attach_commands(c))
<1> DEFINE down == <<C("SYStem.Mode Down")>>
           up   == <<C("SYStem.Mode Attach")>>
<1>1. {"SYStem.Mode Down", "SYStem.Mode Attach"} \subseteq Texts \ {ALL}
  BY DEF ALL, LOAD, Texts
<1>2. down \in Seq(Commands) /\ Plain(down) /\ up \in Seq(Commands) /\ Plain(up)
  BY <1>1, Single
<1> HIDE DEF down, up
<1>3. down \o SettingCommands(c) \in Seq(Commands) /\ Plain(down \o SettingCommands(c))
  BY <1>2, SettingPlain, PlainConcat
<1> QED BY <1>2, <1>3, PlainConcat DEF attach_commands, down, up

LEMMA Pair ==
  ASSUME NEW c \in Commands, NEW d \in Commands, ~Opens(c), ~Opens(d)
  PROVE  <<c, d>> \in Seq(Commands) /\ Plain(<<c, d>>)
<1>1. <<c, d>> \in Seq(Commands) /\ Len(<<c, d>>) = 2 /\ <<c, d>>[1] = c /\ <<c, d>>[2] = d
  OBVIOUS
<1> QED BY <1>1 DEF Plain

LEMMA Triple ==
  ASSUME NEW c \in Commands, NEW d \in Commands, NEW e \in Commands,
         ~Opens(c), ~Opens(d), ~Opens(e)
  PROVE  <<c, d, e>> \in Seq(Commands) /\ Plain(<<c, d, e>>) /\ <<c, d, e>>[1] = c
<1>1. /\ <<c, d, e>> \in Seq(Commands) /\ Len(<<c, d, e>>) = 3
      /\ <<c, d, e>>[1] = c /\ <<c, d, e>>[2] = d /\ <<c, d, e>>[3] = e
  OBVIOUS
<1> QED BY <1>1 DEF Plain

LEMMA ResetPlain ==
  ASSUME NEW c
  PROVE  reset_commands(c) \in Seq(Commands) /\ Plain(reset_commands(c))
<1> DEFINE down == <<C("SYStem.Down"), C("SYStem.RESet")>>
           up   == <<C("SYStem.Mode Up")>>
           jtag == If("jtag_clock", "SYStem.JtagClock", c)
           set  == SettingCommands(c)
<1>1. {"SYStem.Down", "SYStem.RESet", "SYStem.Mode Up", "SYStem.JtagClock"}
        \subseteq Texts \ {ALL}
  BY DEF ALL, LOAD, Texts
<1>2. down \in Seq(Commands) /\ Plain(down)
  BY <1>1, CommandType, LoadIsNoText, Pair DEF Opens
<1>3. up \in Seq(Commands) /\ Plain(up)
  BY <1>1, Single
<1>4. jtag \in Seq(Commands) /\ Plain(jtag)
  BY <1>1, IfPlain
<1>5. set \in Seq(Commands) /\ Plain(set)
  BY SettingPlain
<1> HIDE DEF down, up, jtag, set
<1>6. down \o set \in Seq(Commands) /\ Plain(down \o set)
  BY <1>2, <1>5, PlainConcat
<1>7. (down \o set) \o up \in Seq(Commands) /\ Plain((down \o set) \o up)
  BY <1>3, <1>6, PlainConcat
<1> QED BY <1>4, <1>7, PlainConcat DEF reset_commands, down, up, jtag, set

(* Loading the images, one or more.                                        *)
LEMMA LoadsType ==
  ASSUME NEW text \in LoadTexts
  PROVE  /\ Loads(text) \in Seq(Commands) /\ Len(Loads(text)) = Images
         /\ \A k \in 1 .. Images : Loads(text)[k][1] = text
<1>1. Loads(text) \in [1 .. Images -> Commands]
  BY ImagesAssumption DEF Loads, AllImages, Commands
<1> QED BY <1>1, ImagesAssumption DEF Loads, AllImages

LEMMA DebugPlain == setup_debug \in Seq(Commands) /\ Plain(setup_debug)
<1> DEFINE first == <<C("system_up, else attach")>>
           loads == Loads("Data.LOAD.Elf /NoCODE")
           last_ == <<C("state_run, else Go")>>
<1>1. /\ {"system_up, else attach", "state_run, else Go"} \subseteq Texts \ {ALL}
      /\ "Data.LOAD.Elf /NoCODE" \in LoadTexts \ {ALL, LOAD}
  BY DEF ALL, LOAD, Texts, LoadTexts
<1>2. first \in Seq(Commands) /\ Plain(first)
  BY <1>1, Single
<1>3. last_ \in Seq(Commands) /\ Plain(last_)
  BY <1>1, Single
<1>4. loads \in Seq(Commands) /\ Plain(loads)
  <2>1. /\ loads \in Seq(Commands) /\ Len(loads) = Images
        /\ \A k \in 1 .. Images : loads[k][1] = "Data.LOAD.Elf /NoCODE"
    BY <1>1, LoadsType
  <2> HIDE DEF loads
  <2> QED BY <1>1, <2>1 DEF Plain, Opens
<1> HIDE DEF first, loads, last_
<1>5. first \o loads \in Seq(Commands) /\ Plain(first \o loads)
  BY <1>2, <1>4, PlainConcat
<1> QED BY <1>3, <1>5, PlainConcat DEF setup_debug, first, loads, last_

(* The one sequence that enters the mode.                                  *)
LEMMA ProgramFollowed ==
  ASSUME NEW c
  PROVE  program(c) \in Seq(Commands) /\ Followed(program(c))
<1> DEFINE up    == <<C("system_up, then Down")>>
           do    == cmm
           jtag  == If("jtag_clock", "SYStem.JtagClock", c)
           all   == <<C(ALL)>>
           loads == Loads(LOAD)
           off   == <<C(OFF), C("SYStem.Down"), C("SYStem.Up")>>
<1>1. /\ {"system_up, then Down", "depth_before", "DO", "wait", "SYStem.JtagClock", OFF,
          "SYStem.Down", "SYStem.Up"} \subseteq Texts \ {ALL}
      /\ ALL \in Texts /\ LOAD \in LoadTexts
  BY DEF ALL, LOAD, OFF, Texts, LoadTexts
<1>2. up \in Seq(Commands) /\ Plain(up)
  BY <1>1, Single
<1>3. do \in Seq(Commands) /\ Plain(do)
  <2>1. \A text \in {"depth_before", "DO", "wait"} :
          C(text) \in Commands /\ ~Opens(C(text))
    BY <1>1, CommandType, LoadIsNoText DEF Opens
  <2> QED BY <2>1, Triple DEF cmm
<1>4. jtag \in Seq(Commands) /\ Plain(jtag)
  BY <1>1, IfPlain
<1>5. all \in Seq(Commands) /\ Len(all) = 1 /\ all[1] = C(ALL) /\ C(ALL)[1] = ALL
  BY <1>1, CommandType, One
<1>6. /\ loads \in Seq(Commands) /\ Len(loads) = Images
      /\ \A k \in 1 .. Images : loads[k][1] = LOAD
  BY <1>1, LoadsType
<1>7. off \in Seq(Commands) /\ Plain(off) /\ off # <<>> /\ off[1] = C(OFF) /\ C(OFF)[1] = OFF
  <2>1. \A text \in {OFF, "SYStem.Down", "SYStem.Up"} :
          C(text) \in Commands /\ ~Opens(C(text)) /\ C(text)[1] = text
    BY <1>1, CommandType, LoadIsNoText DEF Opens
  <2>2. off \in Seq(Commands) /\ Plain(off) /\ off[1] = C(OFF)
    BY <2>1, Triple
  <2>3. off # <<>>
    OBVIOUS
  <2> QED BY <2>1, <2>2, <2>3
<1> HIDE DEF up, do, jtag, all, loads, off
<1>8. Chained(all) /\ all # <<>>
  BY <1>5, EmptySeq DEF Chained
<1>9. /\ Chained(loads) /\ loads # <<>> /\ Closes(loads[1])
      /\ Opens(loads[Len(loads)])
  BY <1>6, ImagesAssumption, EmptySeq DEF Chained, Opens, Closes
<1>10. up \o do \in Seq(Commands) /\ Plain(up \o do)
  BY <1>2, <1>3, PlainConcat
<1>11. /\ (up \o do) \o jtag \in Seq(Commands)
       /\ Followed((up \o do) \o jtag)
  BY <1>4, <1>10, PlainConcat, PlainIsFollowed
<1> DEFINE before == (up \o do) \o jtag
           enter  == before \o all
           load   == enter \o loads
           leave  == load \o off
<1> HIDE DEF before
<1>12. enter \in Seq(Commands) /\ Chained(enter)
  BY <1>5, <1>8, <1>11, ChainedConcat DEF Followed, before
<1> HIDE DEF enter
<1>13. /\ load \in Seq(Commands) /\ Chained(load)
       /\ load # <<>> /\ load[Len(load)] = loads[Len(loads)]
  BY <1>6, <1>9, <1>12, ChainedConcat
<1> HIDE DEF load
<1>14. leave \in Seq(Commands) /\ Followed(leave)
  <2>1. Closes(off[1])
    BY <1>7 DEF Closes
  <2> QED BY <1>7, <1>13, <2>1, FollowedConcat, PlainIsFollowed
<1> HIDE DEF leave
<1>15. leave \o jtag \in Seq(Commands) /\ Followed(leave \o jtag)
  BY <1>4, <1>14, FollowedConcat, PlainIsFollowed DEF Followed
<1>16. program(c) = leave \o jtag
  BY DEF program, leave, load, enter, before, up, do, jtag, all, loads, off, ALL, LOAD, OFF
<1> QED BY <1>15, <1>16

LEMMA SequenceFollowed ==
  ASSUME NEW a \in Actions, NEW c
  PROVE  Sequence(a, c) \in Seq(Commands) /\ Followed(Sequence(a, c))
<1> DEFINE idle == <<C("require_practice_idle")>>
           att  == <<C("system_up, else attach")>>
<1>1. {"require_practice_idle", "system_up, else attach", "Break", "SYStem.Mode Up"}
        \subseteq Texts \ {ALL}
  BY DEF ALL, LOAD, Texts
<1>2. idle \in Seq(Commands) /\ Plain(idle)
  BY <1>1, Single
<1>3. att \in Seq(Commands) /\ Plain(att)
  BY <1>1, Single
<1>4. reset_and_stop \in Seq(Commands) /\ Plain(reset_and_stop)
  BY <1>1, CommandType, LoadIsNoText, Pair DEF Opens, reset_and_stop
<1> HIDE DEF idle, att
<1>5. CASE a = "flash"
  <2>1. idle \o program(c) \in Seq(Commands) /\ Followed(idle \o program(c))
    BY <1>2, ProgramFollowed, PlainIsFollowed, FollowedConcat DEF Followed
  <2>2. (idle \o program(c)) \o setup_debug \in Seq(Commands)
          /\ Followed((idle \o program(c)) \o setup_debug)
    BY <2>1, DebugPlain, PlainIsFollowed, FollowedConcat DEF Followed
  <2> QED BY <1>5, <2>2 DEF Sequence, idle
<1>6. CASE a = "load"
  <2>1. idle \o setup_debug \in Seq(Commands) /\ Plain(idle \o setup_debug)
    BY <1>2, DebugPlain, PlainConcat
  <2> QED BY <1>6, <2>1, PlainIsFollowed DEF Sequence, idle
<1>7. CASE a = "reset"
  <2>1. idle \o reset_commands(c) \in Seq(Commands) /\ Plain(idle \o reset_commands(c))
    BY <1>2, ResetPlain, PlainConcat
  <2> QED BY <1>7, <2>1, PlainIsFollowed DEF Sequence, idle
<1>8. CASE a = "attach"
  BY <1>3, <1>8, PlainIsFollowed DEF Sequence, att
<1>9. CASE a = "reset_and_stop"
  BY <1>4, <1>9, PlainIsFollowed DEF Sequence
<1> QED BY <1>5, <1>6, <1>7, <1>8, <1>9 DEF Actions

-----------------------------------------------------------------------------
(* The steps.                                                              *)

LEMMA Initially == SequenceInit => IInv
<1> SUFFICES ASSUME SequenceInit PROVE IInv
  OBVIOUS
<1>1. todo \in Seq(Commands) /\ Followed(todo)
  BY SequenceFollowed DEF SequenceInit
<1>2. stack \in Seq({"own", "other"})
  <2>1. <<>> \in Seq({"own", "other"}) /\ <<"other">> \in Seq({"own", "other"})
    OBVIOUS
  <2>2. stack = <<>> \/ stack = <<"other">>
    BY DEF SequenceInit
  <2> QED BY <2>1, <2>2
<1>3. action \in Actions /\ config \subseteq Options /\ settings \subseteq Options
  BY DEF SequenceInit
<1>4. depth \in Nat /\ others \in 0 .. MaxOthers
  BY OthersAssumption DEF SequenceInit
<1>5. mode \in {"down", "up"} /\ running \in BOOLEAN /\ (running => mode = "up")
  BY DEF SequenceInit
<1>6. SequenceTypeOK
  <2>1. /\ outcome = "none" /\ failed = FALSE /\ reprogram = FALSE
        /\ programmed = {} /\ flash = {} /\ symbols = {}
    BY DEF SequenceInit
  <2> QED BY <1>1, <1>2, <1>3, <1>4, <1>5, <2>1 DEF SequenceTypeOK
<1>7. ReprogramInv
  BY <1>1 DEF SequenceInit, ReprogramInv, ReprogramLeft
<1> QED BY <1>6, <1>7 DEF IInv

(* What the invariant says of the command to send.                         *)
LEMMA AtCommand ==
  ASSUME IInv, Unsent
  PROVE  /\ todo[1] \in Commands /\ command = todo[1][1]
         /\ command \in LoadTexts => image \in AllImages
         /\ reprogram => command \in {LOAD, OFF}
         /\ failed => command = OFF
<1>1. todo \in Seq(Commands) /\ todo # <<>>
  BY DEF IInv, SequenceTypeOK, Unsent
<1>2. todo[1] \in Commands
  BY <1>1, EmptySeq, ElementOfSeq
<1>3. failed => command = OFF
  <2>1. failed => todo[1] = C(OFF)
    <3>1. failed => todo = <<C(OFF)>>
      BY DEF IInv, ReprogramInv, Unsent
    <3> QED BY <3>1
  <2> QED BY <2>1, CommandType DEF OFF, Texts, command
<1>4. command \in LoadTexts => image \in AllImages
  BY <1>2 DEF command, image, Commands, Texts, LoadTexts
<1> QED BY <1>2, <1>3, <1>4 DEF IInv, ReprogramInv, Unsent, Closes, command

(* Going on with some commands in front.                                   *)
LEMMA Advance ==
  ASSUME IInv, Unsent, NEW cs \in Seq(Commands), Plain(cs), Then(cs),
         Opens(todo[1]) => cs = <<>>
  PROVE  /\ todo' \in Seq(Commands) /\ Followed(todo')
         /\ Opens(todo[1]) => todo' # <<>> /\ Closes(todo'[1])
<1> DEFINE rest == Tail(todo)
<1>1. /\ rest \in Seq(Commands) /\ Followed(rest)
      /\ Opens(todo[1]) => rest # <<>> /\ Closes(rest[1])
  BY FollowedTail DEF IInv, SequenceTypeOK, ReprogramInv, Unsent
<1>2. todo' = cs \o rest
  BY DEF Then
<1> HIDE DEF rest
<1>3. cs \o rest \in Seq(Commands) /\ Followed(cs \o rest)
  BY <1>1, PlainIsFollowed, FollowedConcat DEF Followed
<1>4. cs = <<>> => cs \o rest = rest
  BY <1>1, ConcatEmptySeq
<1> QED BY <1>1, <1>2, <1>3, <1>4

(* The variables of PowerView.                                             *)
PowerViewOK ==
  /\ mode \in {"down", "up"} /\ running \in BOOLEAN
  /\ running => mode = "up"
  /\ settings \subseteq Options
  /\ stack \in Seq({"own", "other"}) /\ others \in 0 .. MaxOthers
  /\ reprogram \in BOOLEAN
  /\ programmed \subseteq AllImages /\ flash \subseteq AllImages
  /\ symbols \subseteq AllImages

LEMMA SystemStep ==
  ASSUME SequenceTypeOK, System
  PROVE  PowerViewOK' /\ reprogram' = reprogram /\ command \notin {ALL, LOAD, OFF}
<1>1. PICK m \in {"down", "up"}, r \in BOOLEAN, s \in SUBSET Options :
        Mode(m, r, s) /\ (r => m = "up")
  BY OptionsAssumption DEF System, Sets, SequenceTypeOK
<1>2. PowerViewOK'
  BY <1>1 DEF Mode, stackVars, flashVars, SequenceTypeOK, PowerViewOK
<1>3. reprogram' = reprogram
  BY <1>1 DEF Mode, flashVars
<1>4. command \notin {ALL, LOAD, OFF}
  BY DEF System, ALL, LOAD, OFF
<1> QED BY <1>2, <1>3, <1>4

(* What a command does to FLASH.ReProgram mode.                            *)
LEMMA EffectStep ==
  ASSUME IInv, Unsent, Effect
  PROVE  /\ PowerViewOK'
         /\ reprogram' <=> command = ALL \/ (reprogram /\ command # OFF)
<1>1. /\ SequenceTypeOK
      /\ command \in LoadTexts => image \in AllImages
  BY AtCommand DEF IInv
<1>2. CASE System
  BY <1>1, <1>2, SystemStep
<1>3. CASE DoScript
  <2>1. stack' \in Seq({"own", "other"})
    BY <1>1, <1>3, AppendProperties DEF DoScript, SequenceTypeOK
  <2> QED BY <1>1, <1>3, <2>1
        DEF DoScript, targetVars, flashVars, SequenceTypeOK, PowerViewOK, ALL, OFF
<1>4. CASE ReprogramAll
  BY <1>1, <1>4 DEF ReprogramAll, targetVars, stackVars, SequenceTypeOK, PowerViewOK, ALL
<1>5. CASE ReprogramOff
  BY <1>1, <1>5 DEF ReprogramOff, targetVars, stackVars, SequenceTypeOK, PowerViewOK, ALL, OFF
<1>6. CASE LoadImage \/ LoadNoCode
  <2>1. image \in AllImages
    BY <1>1, <1>6 DEF LoadImage, LoadNoCode, LoadTexts
  <2>2. symbols' \subseteq AllImages
    BY <1>1, <1>6, <2>1, ImagesAssumption
    DEF LoadImage, LoadNoCode, LoadSymbols, SequenceTypeOK, AllImages
  <2>3. programmed' \subseteq AllImages
    BY <1>1, <1>6, <2>1 DEF LoadImage, LoadNoCode, flashVars, SequenceTypeOK
  <2>4. UNCHANGED <<mode, running, settings, stack, others, reprogram, flash>>
    BY <1>6 DEF LoadImage, LoadNoCode, targetVars, stackVars, flashVars
  <2>5. command \notin {ALL, OFF}
    BY <1>6 DEF LoadImage, LoadNoCode, ALL, OFF
  <2> QED BY <1>1, <2>2, <2>3, <2>4, <2>5 DEF SequenceTypeOK, PowerViewOK
<1> QED BY <1>2, <1>3, <1>4, <1>5, <1>6 DEF Effect

LEMMA AskStep ==
  ASSUME IInv, Ask
  PROVE  IInv'
<1>1. /\ Unsent /\ SequenceTypeOK /\ Followed(todo)
      /\ UNCHANGED <<action, config, depth, failed, outcome, culprit, powerviewVars>>
  BY DEF Ask, IInv, ReprogramInv
<1>2. command \notin {ALL, LOAD, OFF}
  BY DEF Ask, ALL, LOAD, OFF
<1>3. ~reprogram /\ ~failed /\ ~Opens(todo[1])
  BY <1>1, <1>2, AtCommand DEF Opens
<1>4. PICK cs \in Seq(Commands) : Plain(cs) /\ Then(cs)
  <2>1. <<>> \in Seq(Commands) /\ Plain(<<>>)
    BY EmptySeq DEF Plain
  <2>2. {"SYStem.Down", "Go"} \subseteq Texts \ {ALL}
    BY DEF ALL, Texts
  <2>3. /\ <<C("SYStem.Down")>> \in Seq(Commands) /\ Plain(<<C("SYStem.Down")>>)
        /\ <<C("Go")>> \in Seq(Commands) /\ Plain(<<C("Go")>>)
    BY <2>2, Single
  <2> QED BY <2>1, <2>3, AttachPlain DEF Ask
<1>5. todo' \in Seq(Commands) /\ Followed(todo')
  BY <1>1, <1>3, <1>4, Advance
<1>6. SequenceTypeOK'
  BY <1>1, <1>5 DEF SequenceTypeOK, powerviewVars, targetVars, stackVars, flashVars
<1>7. ReprogramInv'
  BY <1>1, <1>3, <1>5 DEF ReprogramInv, ReprogramLeft, Unsent, powerviewVars, flashVars
<1> QED BY <1>6, <1>7 DEF IInv

LEMMA AskDepthStep ==
  ASSUME IInv, AskDepth
  PROVE  IInv'
<1>1. /\ Unsent /\ SequenceTypeOK /\ Followed(todo) /\ Then(<<>>)
      /\ UNCHANGED <<action, config, failed, outcome, culprit, powerviewVars>>
  BY DEF AskDepth, IInv, ReprogramInv
<1>2. command \notin {ALL, LOAD, OFF}
  BY DEF AskDepth, ALL, LOAD, OFF
<1>3. ~reprogram /\ ~failed /\ ~Opens(todo[1])
  BY <1>1, <1>2, AtCommand DEF Opens
<1>4. <<>> \in Seq(Commands) /\ Plain(<<>>)
  BY EmptySeq DEF Plain
<1>5. todo' \in Seq(Commands) /\ Followed(todo')
  BY <1>1, <1>3, <1>4, Advance
<1>6. depth' \in Nat
  BY <1>1, LenProperties DEF AskDepth, SequenceTypeOK
<1>7. SequenceTypeOK'
  BY <1>1, <1>5, <1>6 DEF SequenceTypeOK, powerviewVars, targetVars, stackVars, flashVars
<1>8. ReprogramInv'
  BY <1>1, <1>3, <1>5 DEF ReprogramInv, ReprogramLeft, Unsent, powerviewVars, flashVars
<1> QED BY <1>7, <1>8 DEF IInv

(* An answer: the mode stays on only before a command that closes it.      *)
LEMMA SendStep ==
  ASSUME IInv, Send
  PROVE  IInv'
<1>1. /\ Unsent /\ SequenceTypeOK /\ Followed(todo) /\ outcome = "none" /\ Effect
      /\ UNCHANGED <<action, config, depth, failed, culprit>>
  BY DEF Send, IInv, ReprogramInv, Unsent
<1>2. /\ PowerViewOK'
      /\ reprogram' <=> command = ALL \/ (reprogram /\ command # OFF)
  BY <1>1, EffectStep
<1>3. CASE failed
  <2>1. ~reprogram'
    BY <1>1, <1>2, <1>3, AtCommand DEF ALL, OFF
  <2>2. outcome' = "failed" /\ todo' = todo
    BY <1>3 DEF Send
  <2>3. SequenceTypeOK'
    BY <1>1, <1>2, <2>2 DEF SequenceTypeOK, PowerViewOK
  <2>4. ReprogramInv'
    BY <1>1, <2>1, <2>2 DEF ReprogramInv, ReprogramLeft
  <2> QED BY <2>3, <2>4 DEF IInv
<1>4. CASE ~failed
  <2>1. outcome' = outcome /\ Then(<<>>)
    BY <1>4 DEF Send
  <2>2. <<>> \in Seq(Commands) /\ Plain(<<>>)
    BY EmptySeq DEF Plain
  <2>3. /\ todo' \in Seq(Commands) /\ Followed(todo')
        /\ Opens(todo[1]) => todo' # <<>> /\ Closes(todo'[1])
    BY <1>1, <2>1, <2>2, Advance
  <2>4. reprogram' => command \in {ALL, LOAD}
    BY <1>1, <1>2, AtCommand
  <2>5. command \in {ALL, LOAD} => Opens(todo[1])
    BY DEF command, Opens
  <2>6. SequenceTypeOK'
    BY <1>1, <1>2, <2>1, <2>3 DEF SequenceTypeOK, PowerViewOK
  <2>7. ReprogramInv'
    BY <1>1, <1>4, <2>1, <2>3, <2>4, <2>5 DEF ReprogramInv, ReprogramLeft
  <2> QED BY <2>6, <2>7 DEF IInv
<1> QED BY <1>3, <1>4

(* A failure, with or without its effect: a failed load goes on with the   *)
(* command that leaves the mode.                                           *)
LEMMA FailStep ==
  ASSUME IInv, Fail
  PROVE  IInv'
<1>1. /\ Unsent /\ SequenceTypeOK /\ Followed(todo) /\ outcome = "none"
      /\ Effect \/ UNCHANGED powerviewVars
      /\ culprit' = command
      /\ UNCHANGED <<action, config, depth>>
  BY DEF Fail, IInv, ReprogramInv, Unsent
<1>2. PowerViewOK' /\ (reprogram' => command = ALL \/ reprogram)
  <2>1. CASE Effect
    BY <1>1, <2>1, EffectStep
  <2>2. CASE UNCHANGED powerviewVars
    BY <1>1, <2>2 DEF SequenceTypeOK, PowerViewOK, powerviewVars, targetVars, stackVars, flashVars
  <2> QED BY <1>1, <2>1, <2>2
<1>3. reprogram' => command \in {ALL, LOAD, OFF}
  BY <1>1, <1>2, AtCommand
<1>4. CASE command = LOAD
  <2>1. todo' = <<C(OFF)>> /\ failed' = TRUE /\ outcome' = outcome
    BY <1>4 DEF Fail, FailLoad, LOAD, OFF
  <2>2. OFF \in Texts \ {ALL}
    BY DEF OFF, ALL, Texts
  <2>3. todo' \in Seq(Commands) /\ Followed(todo')
    BY <2>1, <2>2, Single, PlainIsFollowed
  <2>4. todo' # <<>> /\ Closes(todo'[1])
    <3>1. C(OFF) \in Commands /\ C(OFF)[1] = OFF
      BY <2>2, CommandType
    <3>2. Len(<<C(OFF)>>) = 1 /\ <<C(OFF)>>[1] = C(OFF)
      BY <3>1, One
    <3> QED BY <2>1, <3>1, <3>2, EmptySeq DEF Closes
  <2>5. SequenceTypeOK'
    BY <1>1, <1>2, <2>1, <2>3 DEF SequenceTypeOK, PowerViewOK
  <2>6. ReprogramInv'
    BY <1>1, <2>1, <2>3, <2>4 DEF ReprogramInv, ReprogramLeft
  <2> QED BY <2>5, <2>6 DEF IInv
<1>5. CASE command # LOAD
  <2>1. outcome' = "failed" /\ todo' = todo /\ failed' = failed
    BY <1>5 DEF Fail, Stop, LOAD
  <2>2. SequenceTypeOK'
    BY <1>1, <1>2, <2>1 DEF SequenceTypeOK, PowerViewOK
  <2>3. ReprogramInv'
    BY <1>1, <1>3, <1>5, <2>1 DEF ReprogramInv, ReprogramLeft, ALL, OFF
  <2> QED BY <2>2, <2>3 DEF IInv
<1> QED BY <1>4, <1>5

(* The end of the sequence: no command is left that would need the mode.   *)
LEMMA SucceedStep ==
  ASSUME IInv, Succeed
  PROVE  IInv'
<1>1. /\ outcome = "none" /\ todo = <<>> /\ outcome' = "success"
      /\ UNCHANGED <<action, config, todo, depth, failed, culprit, powerviewVars>>
  BY DEF Succeed
<1>2. SequenceTypeOK'
  BY <1>1 DEF IInv, SequenceTypeOK, powerviewVars, targetVars, stackVars, flashVars
<1>3. ReprogramInv'
  BY <1>1 DEF IInv, ReprogramInv, ReprogramLeft, powerviewVars, flashVars
<1> QED BY <1>2, <1>3 DEF IInv

(* Scripts do not touch the mode.                                          *)
LEMMA ScriptStep ==
  ASSUME IInv, ScriptRuns \/ ScriptEnds \/ OthersStart
  PROVE  IInv'
<1>1. SequenceTypeOK /\ UNCHANGED <<sequenceVars, flashVars, symbols>>
  BY DEF IInv, ScriptRuns, ScriptEnds, OthersStart, Mode
<1>2. PowerViewOK'
  <2>1. CASE ScriptRuns
    BY <1>1, <2>1 DEF ScriptRuns, Mode, SequenceTypeOK, PowerViewOK, stackVars, flashVars
  <2>2. CASE ScriptEnds
    <3>1. stack \in Seq({"own", "other"}) /\ stack # <<>>
      BY <1>1, <2>2 DEF ScriptEnds, SequenceTypeOK
    <3>2. stack' \in Seq({"own", "other"})
      <4>1. Len(stack) \in Nat /\ \A i \in 1 .. Len(stack) - 1 : stack[i] \in {"own", "other"}
        BY <3>1, LenProperties, ElementOfSeq
      <4> QED BY <2>2, <3>1, <4>1, SubSeqProperties DEF ScriptEnds
    <3> QED BY <1>1, <2>2, <3>2 DEF ScriptEnds, SequenceTypeOK, PowerViewOK, targetVars, flashVars
  <2>3. CASE OthersStart
    <3>1. stack' \in Seq({"own", "other"})
      BY <1>1, <2>3, AppendProperties DEF OthersStart, SequenceTypeOK
    <3>2. others' \in 0 .. MaxOthers
      BY <1>1, <2>3, OthersAssumption DEF OthersStart, SequenceTypeOK
    <3> QED BY <1>1, <2>3, <3>1, <3>2
            DEF OthersStart, SequenceTypeOK, PowerViewOK, targetVars, flashVars
  <2> QED BY <2>1, <2>2, <2>3
<1>3. SequenceTypeOK'
  BY <1>1, <1>2 DEF SequenceTypeOK, PowerViewOK, sequenceVars
<1>4. ReprogramInv'
  BY <1>1 DEF IInv, ReprogramInv, ReprogramLeft, sequenceVars, flashVars
<1> QED BY <1>3, <1>4 DEF IInv

LEMMA Inductive == IInv /\ [SequenceNext]_commandVars => IInv'
<1> SUFFICES ASSUME IInv, [SequenceNext]_commandVars PROVE IInv'
  OBVIOUS
<1>1. CASE Sequencer
  BY <1>1, AskStep, AskDepthStep, SendStep, FailStep, SucceedStep DEF Sequencer
<1>2. CASE ScriptRuns \/ ScriptEnds \/ OthersStart
  BY <1>2, ScriptStep
<1>3. CASE UNCHANGED commandVars
  <2>1. UNCHANGED <<sequenceVars, targetVars, stackVars, flashVars, symbols>>
    BY <1>3 DEF commandVars, powerviewVars
  <2>2. SequenceTypeOK'
    BY <2>1 DEF IInv, SequenceTypeOK, sequenceVars, targetVars, stackVars, flashVars
  <2>3. ReprogramInv'
    BY <2>1 DEF IInv, ReprogramInv, ReprogramLeft, sequenceVars, flashVars
  <2> QED BY <2>2, <2>3 DEF IInv
<1> QED BY <1>1, <1>2, <1>3 DEF SequenceNext

-----------------------------------------------------------------------------

LEMMA Invariant == SequenceSpec => []IInv
BY Initially, Inductive, PTL DEF SequenceSpec

(* The variables keep their types, and a core runs only when the system is *)
(* up.                                                                     *)
THEOREM TypeCorrect == SequenceSpec => []SequenceTypeOK
<1>1. IInv => SequenceTypeOK
  BY DEF IInv
<1> QED BY <1>1, Invariant, PTL

(* FLASH.ReProgram mode is left whatever fails, for any number of images   *)
(* and scripts: it stays on only when the command that leaves it was       *)
(* refused, or the one that enters it was carried out too late.            *)
THEOREM ModeIsLeft == SequenceSpec => []ReprogramLeft
<1>1. IInv => ReprogramLeft
  BY DEF IInv, ReprogramInv
<1> QED BY <1>1, Invariant, PTL

-----------------------------------------------------------------------------
(***************************************************************************)
(* What tracebridge prints at the end of a sequence is true, and the flash *)
(* script starts from its own reset.  What a command needs, and what the   *)
(* end promises, is either true now and undone by no command before, or    *)
(* brought about by a command before and not undone after it.              *)
(***************************************************************************)

(* The commands with one of these texts.                                   *)
Said(texts) == {c \in Commands : c[1] \in texts}
End == <<"end", 0>>

(* Command n of s, or the end of s.                                        *)
Nth(s, n) == IF n = Len(s) + 1 THEN End ELSE s[n]

(* A command of M comes before n, and none of B between.                   *)
Brought(s, n, M, B) ==
  \E i \in 1 .. n - 1 : s[i] \in M /\ \A j \in i + 1 .. n - 1 : s[j] \notin B

(* No command of B comes before n.                                         *)
Spared(s, n, B) == \A j \in 1 .. n - 1 : s[j] \notin B

(* What commands of M bring about and commands of B undo is so before      *)
(* every command of X, if it is so now; whether or not it is so now.       *)
Safe(s, X, M, B) ==
  \A n \in 1 .. Len(s) + 1 : Nth(s, n) \in X => Brought(s, n, M, B) \/ Spared(s, n, B)
Assured(s, X, M, B) ==
  \A n \in 1 .. Len(s) + 1 : Nth(s, n) \in X => Brought(s, n, M, B)

Holds(now, s, X, M, B) == Safe(s, X, M, B) /\ (now \/ Assured(s, X, M, B))

AtEnd == {End}
Downs == {"SYStem.Down", "SYStem.Mode Down", "SYStem.RESet", "system_up, then Down"}
HardUps == {"SYStem.Up", "SYStem.Mode Up"}
Ups == HardUps \cup {"SYStem.Mode Attach", "system_up, else attach"}
Goes == {"Go", "state_run, else Go"}
Halts == {"SYStem.Down", "SYStem.Mode Down", "SYStem.RESet", "SYStem.Up", "SYStem.Mode Up",
          "Break"}
NoCode == "Data.LOAD.Elf /NoCODE"

LoadOf(i) == {<<LOAD, i>>, <<NoCode, i>>}
Replaces(i) == IF i = 1 THEN {} ELSE LoadOf(1)

Setter == [cpu |-> "SYStem.CPU", mem_access |-> "SYStem.MemAccess",
           cores |-> "CORE.ASSIGN", jtag_clock |-> "SYStem.JtagClock"]
Forgets(o) == IF o = "jtag_clock" THEN Downs ELSE {"SYStem.RESet"}

(* Commands that make no setting but those of the project file.            *)
Allowed(c) == {d \in Commands : \A o \in Options : d[1] = Setter[o] => o \in c}

(* The system is up at the end, and when the core is started.              *)
UpWords == AtEnd \cup Said(Goes)
UpAtEnd == Holds(mode = "up", todo, UpWords, Said(Ups), Said(Downs))

RunEnders == Ups \cup Downs \cup {"Break"}
RunsAtEnd ==
  action \in {"flash", "load"} => Holds(running, todo, AtEnd, Said(Goes), Said(RunEnders))

SymbolsAtEnd ==
  action \in {"flash", "load"} =>
    \A i \in AllImages : Holds(i \in symbols, todo, AtEnd, LoadOf(i), Replaces(i))

HaltEnders == Goes \cup {"SYStem.Mode Attach", "system_up, else attach"}
HaltedAtEnd ==
  action \in {"reset", "reset_and_stop"} =>
    Holds(~running, todo, AtEnd, Said(Halts), Said(HaltEnders))

(* FLASH.ReProgram OFF writes all images: the mode is on and they are      *)
(* loaded then.                                                            *)
FlashAtEnd ==
  action = "flash" =>
    /\ Holds(flash = AllImages, todo, AtEnd, Said({OFF}), {})
    /\ Holds(reprogram, todo, Said({OFF}), Said({ALL}), Said({OFF}))
    /\ \A i \in AllImages :
         Holds(i \in programmed, todo, Said({OFF}), {<<LOAD, i>>}, Said({ALL}))

SettingsAtEnd ==
  /\ settings \subseteq config
  /\ todo \in Seq(Allowed(config))
  /\ \A o \in config :
       action = "reset" \/ (action = "flash" /\ o = "jtag_clock") =>
         Holds(o \in settings, todo, AtEnd, Said({Setter[o]}), Said(Forgets(o)))

(* The system is up when `flash` asks, so it does not attach, which would  *)
(* forget the JTAG clock.                                                  *)
AskWord == {"system_up, else attach"}
NoAttach ==
  action \in {"flash", "reset"} =>
    Holds(mode = "up", todo, Said(AskWord), Said(HardUps), Said(Downs))

Ready ==
  /\ UpAtEnd
  /\ RunsAtEnd
  /\ SymbolsAtEnd
  /\ HaltedAtEnd
  /\ FlashAtEnd
  /\ SettingsAtEnd
  /\ NoAttach

(* No script runs when one is to be started or the flash to be erased, and *)
(* the target is down when the script is started.                          *)
ScriptNeeds == {"depth_before", "DO", ALL}
Frees == {"require_practice_idle", "wait"}
Lowers == {"system_up, then Down", "SYStem.Down"}
ScriptReady ==
  /\ Holds(stack = <<>>, todo, Said(ScriptNeeds), Said(Frees), Said({"DO"}))
  /\ Holds(depth = 0, todo, Said({"wait"}), Said({"depth_before"}), {})
  /\ Holds(mode = "down", todo, Said({"DO"}), Said(Lowers), Said(Ups \cup Frees))

(* What the end of the sequence promises.                                  *)
Kept ==
  /\ mode = "up"
  /\ action \in {"flash", "load"} => running /\ symbols = AllImages
  /\ action \in {"reset", "reset_and_stop"} => ~running
  /\ action = "flash" =>
       flash = AllImages /\ config \cap {"jtag_clock"} \subseteq settings
  /\ action = "reset" => settings = config

ReadyInv ==
  /\ outcome = "none" /\ ~failed => Ready
  /\ outcome = "none" /\ ~failed /\ others = 0 => ScriptReady
  /\ outcome = "success" => Kept

-----------------------------------------------------------------------------
(* Sequences of commands.                                                  *)

(* The first command of a sequence is carried out.                         *)
LEMMA BroughtTail ==
  ASSUME NEW s \in Seq(Commands), s # <<>>, NEW M, NEW B,
         NEW t \in Seq(Commands), Len(t) = Len(s) - 1,
         \A k \in 1 .. Len(t) : t[k] = s[k + 1],
         NEW n \in 1 .. Len(t) + 1
  PROVE  /\ n + 1 \in 1 .. Len(s) + 1
         /\ Nth(t, n) = Nth(s, n + 1)
         /\ Spared(s, n + 1, B) => s[1] \notin B /\ Spared(t, n, B)
         /\ Brought(s, n + 1, M, B) =>
              Brought(t, n, M, B) \/ (s[1] \in M /\ Spared(t, n, B))
<1>1. /\ t \in Seq(Commands) /\ Len(t) = Len(s) - 1
      /\ \A k \in 1 .. Len(t) : t[k] = s[k + 1]
  OBVIOUS
<1>2. Len(s) \in Nat /\ Len(t) \in Nat /\ n \in 1 .. Len(t) + 1
  BY <1>1, LenProperties
<1>3. n + 1 \in 1 .. Len(s) + 1
  BY <1>1, <1>2
<1>4. Nth(t, n) = Nth(s, n + 1)
  <2>1. CASE n = Len(t) + 1
    BY <1>1, <1>2, <2>1 DEF Nth
  <2>2. CASE n # Len(t) + 1
    <3>1. Len(t) = Len(s) - 1
      BY <1>1
    <3>2. n \in 1 .. Len(t)
      BY <1>2, <2>2
    <3>3. n # Len(s) /\ n \in Int
      BY <1>2, <3>1, <3>2
    <3>4. n + 1 # Len(s) + 1
      BY <1>2, <3>3
    <3> QED BY <1>1, <2>2, <3>2, <3>4 DEF Nth
  <2> QED BY <2>1, <2>2
<1>5. ASSUME Spared(s, n + 1, B) PROVE s[1] \notin B /\ Spared(t, n, B)
  <2>1. /\ 1 \in 1 .. (n + 1) - 1
        /\ \A j \in 1 .. n - 1 : j + 1 \in 1 .. (n + 1) - 1 /\ j \in 1 .. Len(t)
    BY <1>2
  <2> QED BY <1>1, <1>5, <2>1 DEF Spared
<1>6. ASSUME Brought(s, n + 1, M, B)
      PROVE  Brought(t, n, M, B) \/ (s[1] \in M /\ Spared(t, n, B))
  <2>1. PICK i \in 1 .. (n + 1) - 1 : s[i] \in M /\ \A j \in i + 1 .. (n + 1) - 1 : s[j] \notin B
    BY <1>6 DEF Brought
  <2>2. \A j \in 1 .. n - 1 : j \in 1 .. Len(t)
    BY <1>2
  <2>3. CASE i = 1
    <3>1. \A j \in 1 .. n - 1 : j + 1 \in i + 1 .. (n + 1) - 1
      BY <1>2, <2>3
    <3> QED BY <1>1, <2>1, <2>2, <2>3, <3>1 DEF Spared
  <2>4. CASE i # 1
    <3> DEFINE k == i - 1
    <3>1. k \in 1 .. n - 1 /\ k + 1 = i
      BY <1>2, <2>4
    <3>2. \A j \in k + 1 .. n - 1 : j + 1 \in i + 1 .. (n + 1) - 1 /\ j \in 1 .. n - 1
      BY <1>2, <3>1
    <3> HIDE DEF k
    <3>3. t[k] \in M
      BY <1>1, <2>1, <2>2, <3>1
    <3>4. \A j \in k + 1 .. n - 1 : t[j] \notin B
      BY <1>1, <2>1, <2>2, <3>2
    <3> QED BY <3>1, <3>3, <3>4 DEF Brought
  <2> QED BY <2>3, <2>4
<1> QED BY <1>1, <1>3, <1>4, <1>5, <1>6

LEMMA TailHolds ==
  ASSUME NEW s \in Seq(Commands), s # <<>>, NEW X, NEW M, NEW B
  PROVE  /\ Safe(s, X, M, B) => Safe(Tail(s), X, M, B)
         /\ Assured(s, X, M, B) /\ s[1] \notin M => Assured(Tail(s), X, M, B)
         /\ Safe(s, X, M, B) /\ s[1] \in B /\ s[1] \notin M => Assured(Tail(s), X, M, B)
<1> DEFINE t == Tail(s)
<1>1. \A n \in 1 .. Len(t) + 1 :
        /\ n + 1 \in 1 .. Len(s) + 1
        /\ Nth(t, n) = Nth(s, n + 1)
        /\ Spared(s, n + 1, B) => s[1] \notin B /\ Spared(t, n, B)
        /\ Brought(s, n + 1, M, B) =>
             Brought(t, n, M, B) \/ (s[1] \in M /\ Spared(t, n, B))
  <2>1. /\ t \in Seq(Commands) /\ Len(t) = Len(s) - 1
        /\ \A k \in 1 .. Len(t) : t[k] = s[k + 1]
    BY HeadTailProperties
  <2> HIDE DEF t
  <2> QED BY <2>1, BroughtTail
<1> HIDE DEF t
<1>2. Safe(s, X, M, B) => Safe(t, X, M, B)
  BY <1>1 DEF Safe
<1>3. Assured(s, X, M, B) /\ s[1] \notin M => Assured(t, X, M, B)
  BY <1>1 DEF Assured
<1>4. Safe(s, X, M, B) /\ s[1] \in B /\ s[1] \notin M => Assured(t, X, M, B)
  BY <1>1 DEF Safe, Assured
<1> QED BY <1>2, <1>3, <1>4 DEF t

(* What is needed before the first command, or at the end of none, is so   *)
(* now.                                                                    *)
LEMMA HeadHolds ==
  ASSUME NEW s \in Seq(Commands), s # <<>>, NEW X, NEW M, NEW B,
         Assured(s, X, M, B)
  PROVE  s[1] \notin X
<1>1. Len(s) \in Nat /\ Len(s) # 0
  BY LenProperties, EmptySeq
<1>2. 1 \in 1 .. Len(s) + 1 /\ Nth(s, 1) = s[1]
  BY <1>1 DEF Nth
<1>3. ~Brought(s, 1, M, B)
  BY DEF Brought
<1> QED BY <1>2, <1>3 DEF Assured

LEMMA EndHolds ==
  ASSUME NEW X, NEW M, NEW B, Assured(<<>>, X, M, B)
  PROVE  End \notin X
<1>1. Len(<<>>) = 0
  BY EmptySeq
<1>2. 1 \in 1 .. Len(<<>>) + 1 /\ Nth(<<>>, 1) = End
  BY <1>1 DEF Nth
<1>3. ~Brought(<<>>, 1, M, B)
  BY DEF Brought
<1> QED BY <1>2, <1>3 DEF Assured

(* Commands in front of others.                                            *)
LEMMA BroughtFront ==
  ASSUME NEW s \in Seq(Commands), NEW t \in Seq(Commands), NEW M, NEW B,
         NEW st, st = s \o t, NEW n \in 1 .. Len(s)
  PROVE  /\ n \in 1 .. Len(s) + 1 /\ Nth(st, n) = Nth(s, n)
         /\ Nth(s, n) = s[n] /\ s[n] \in Commands
         /\ Brought(s, n, M, B) => Brought(st, n, M, B)
         /\ Spared(s, n, B) => Spared(st, n, B)
<1>1. /\ st \in Seq(Commands) /\ Len(st) = Len(s) + Len(t)
      /\ \A k \in 1 .. Len(s) + Len(t) : st[k] = IF k <= Len(s) THEN s[k] ELSE t[k - Len(s)]
  BY ConcatProperties
<1>2. Len(s) \in Nat /\ Len(t) \in Nat
  BY LenProperties
<1>4. \A k \in 1 .. Len(s) : st[k] = s[k]
  BY <1>1, <1>2
<1>11. n \in 1 .. Len(s) /\ n # Len(s) + 1 /\ n # Len(st) + 1
  BY <1>1, <1>2
<1>12. \A j \in 1 .. n - 1 : st[j] = s[j]
  BY <1>2, <1>4, <1>11
<1>13. \A i \in 1 .. n - 1 : \A j \in i + 1 .. n - 1 : j \in 1 .. n - 1
  BY <1>11
<1>14. Nth(st, n) = Nth(s, n) /\ Nth(s, n) = s[n]
  BY <1>4, <1>11 DEF Nth
<1>15. s[n] \in Commands
  BY <1>11, ElementOfSeq
<1>16. Brought(s, n, M, B) => Brought(st, n, M, B)
  BY <1>12, <1>13 DEF Brought
<1>17. Spared(s, n, B) => Spared(st, n, B)
  BY <1>12 DEF Spared
<1>18. n \in 1 .. Len(s) + 1
  BY <1>2, <1>11
<1> QED BY <1>14, <1>15, <1>16, <1>17, <1>18

LEMMA BroughtBehind ==
  ASSUME NEW s \in Seq(Commands), NEW t \in Seq(Commands), NEW M, NEW B,
         NEW st, st = s \o t, NEW m \in 1 .. Len(t) + 1, NEW n \in Nat, n = Len(s) + m
  PROVE  /\ \A X : Nth(st, n) \in X => Nth(t, m) \in X
         /\ Brought(t, m, M, B) => Brought(st, n, M, B)
         /\ Brought(s, Len(s) + 1, M, B) /\ Spared(t, m, B) => Brought(st, n, M, B)
         /\ Spared(s, Len(s) + 1, B) /\ Spared(t, m, B) => Spared(st, n, B)
<1>1. /\ st \in Seq(Commands) /\ Len(st) = Len(s) + Len(t)
      /\ \A k \in 1 .. Len(s) + Len(t) : st[k] = IF k <= Len(s) THEN s[k] ELSE t[k - Len(s)]
  BY ConcatProperties
<1>2. Len(s) \in Nat /\ Len(t) \in Nat
  BY LenProperties
<1>4. \A k \in 1 .. Len(s) : st[k] = s[k]
  BY <1>1, <1>2
<1>11. m \in 1 .. Len(t) + 1 /\ n \in 1 .. Len(s) + Len(t) + 1 /\ n > Len(s)
  BY <1>2
<1>12. \A j \in 1 .. m - 1 : st[Len(s) + j] = t[j]
  <2>1. \A j \in 1 .. m - 1 : /\ Len(s) + j \in 1 .. Len(s) + Len(t)
                              /\ ~(Len(s) + j <= Len(s)) /\ (Len(s) + j) - Len(s) = j
    BY <1>2, <1>11
  <2> QED BY <1>1, <2>1
<1>13. Nth(st, n) = Nth(t, m)
  <2>1. CASE m = Len(t) + 1
    BY <1>1, <1>2, <1>11, <2>1 DEF Nth
  <2>2. CASE m # Len(t) + 1
    <3>1. Len(st) = Len(s) + Len(t)
      BY <1>1
    <3>2. n # Len(st) + 1 /\ n \in 1 .. Len(s) + Len(t) /\ ~(n <= Len(s))
      BY <1>2, <1>11, <2>2, <3>1
    <3> QED BY <1>1, <1>11, <2>2, <3>2 DEF Nth
  <2> QED BY <2>1, <2>2
<1>14. \A j \in 1 .. n - 1 :
        \/ j \in 1 .. Len(s)
        \/ \E k \in 1 .. m - 1 : j = Len(s) + k
  <2>1. ASSUME NEW j \in 1 .. n - 1, j > Len(s)
        PROVE  \E k \in 1 .. m - 1 : j = Len(s) + k
    <3>1. j - Len(s) \in 1 .. m - 1 /\ j = Len(s) + (j - Len(s))
      BY <1>2, <1>11, <2>1
    <3> QED BY <3>1
  <2>2. \A j \in 1 .. n - 1 : j \in 1 .. Len(s) \/ j > Len(s)
    BY <1>2, <1>11
  <2> QED BY <2>1, <2>2
<1>15. ASSUME Brought(t, m, M, B) PROVE Brought(st, n, M, B)
  <2>1. PICK i \in 1 .. m - 1 : t[i] \in M /\ \A j \in i + 1 .. m - 1 : t[j] \notin B
    BY <1>15 DEF Brought
  <2>2. Len(s) + i \in 1 .. n - 1
    BY <1>2, <1>11, <2>1
  <2>3. ASSUME NEW j \in (Len(s) + i) + 1 .. n - 1 PROVE st[j] \notin B
    <3>1. PICK k \in 1 .. m - 1 : j = Len(s) + k /\ k \in i + 1 .. m - 1
      <4>1. j \in 1 .. n - 1 /\ ~(j \in 1 .. Len(s))
        BY <1>2, <1>11, <2>1
      <4>2. PICK k \in 1 .. m - 1 : j = Len(s) + k
        BY <1>14, <4>1
      <4>3. k \in i + 1 .. m - 1
        BY <1>2, <1>11, <4>2
      <4> QED BY <4>2, <4>3
    <3> QED BY <1>12, <2>1, <3>1
  <2>4. st[Len(s) + i] \in M
    BY <1>12, <2>1
  <2> QED BY <2>2, <2>3, <2>4 DEF Brought
<1>16. ASSUME Brought(s, Len(s) + 1, M, B), Spared(t, m, B) PROVE Brought(st, n, M, B)
  <2>1. PICK i \in 1 .. (Len(s) + 1) - 1 :
          s[i] \in M /\ \A j \in i + 1 .. (Len(s) + 1) - 1 : s[j] \notin B
    BY <1>16 DEF Brought
  <2>2. i \in 1 .. Len(s) /\ i \in 1 .. n - 1
    BY <1>2, <1>11
  <2>3. ASSUME NEW j \in i + 1 .. n - 1 PROVE st[j] \notin B
    <3>1. j \in 1 .. n - 1
      BY <1>2, <1>11, <2>2
    <3>2. CASE j \in 1 .. Len(s)
      <4>1. j \in i + 1 .. (Len(s) + 1) - 1
        BY <1>2, <2>2, <3>2
      <4> QED BY <1>4, <2>1, <3>2, <4>1
    <3>3. CASE \E k \in 1 .. m - 1 : j = Len(s) + k
      BY <1>12, <1>16, <3>3 DEF Spared
    <3> QED BY <1>14, <3>1, <3>2, <3>3
  <2>4. st[i] \in M
    BY <1>4, <2>1, <2>2
  <2> QED BY <2>2, <2>3, <2>4 DEF Brought
<1>17. ASSUME Spared(s, Len(s) + 1, B), Spared(t, m, B) PROVE Spared(st, n, B)
  <2>1. \A j \in 1 .. Len(s) : s[j] \notin B
    <3>1. \A j \in 1 .. Len(s) : j \in 1 .. (Len(s) + 1) - 1
      BY <1>2
    <3> QED BY <1>17, <3>1 DEF Spared
  <2>2. ASSUME NEW j \in 1 .. n - 1 PROVE st[j] \notin B
    <3>2. CASE j \in 1 .. Len(s)
      BY <1>4, <2>1, <3>2
    <3>3. CASE \E k \in 1 .. m - 1 : j = Len(s) + k
      BY <1>12, <1>17, <3>3 DEF Spared
    <3> QED BY <1>14, <3>2, <3>3
  <2> QED BY <2>2 DEF Spared
<1> QED BY <1>11, <1>13, <1>15, <1>16, <1>17

LEMMA EndIsNoCommand == \A c \in Commands : c # End
<1> TAKE c \in Commands
<1>1. c[1] \in Texts \cup LoadTexts
  BY DEF Commands
<1>2. End[1] \notin Texts \cup LoadTexts
  BY DEF End, Texts, LoadTexts
<1> QED BY <1>1, <1>2

LEMMA AssuredIsSafe ==
  ASSUME NEW s, NEW X, NEW M, NEW B, Assured(s, X, M, B)
  PROVE  Safe(s, X, M, B)
BY DEF Assured, Safe

LEMMA FrontHolds ==
  ASSUME NEW s \in Seq(Commands), NEW t \in Seq(Commands), NEW X, NEW M, NEW B
  PROVE  /\ Assured(s, X \ AtEnd, M, B) /\ Assured(t, X, M, B)
              => Assured(s \o t, X, M, B)
         /\ Assured(s, X \ AtEnd, M, B) /\ Assured(s, AtEnd, M, B) /\ Safe(t, X, M, B)
              => Assured(s \o t, X, M, B)
         /\ Safe(s, X \ AtEnd, M, B) /\ Safe(s, AtEnd, M, B) /\ Safe(t, X, M, B)
              => Safe(s \o t, X, M, B)
         /\ Safe(s, X \ AtEnd, M, B) /\ Assured(t, X, M, B)
              => Safe(s \o t, X, M, B)
<1>1. PICK st : st = s \o t
  OBVIOUS
<1>2. \A n \in 1 .. Len(st) + 1 : n <= Len(s) \/ n > Len(s)
  BY <1>1, LenProperties, ConcatProperties
<1>3. ASSUME NEW n \in 1 .. Len(st) + 1, n <= Len(s), Nth(st, n) \in X
      PROVE  /\ Assured(s, X \ AtEnd, M, B) => Brought(st, n, M, B)
             /\ Safe(s, X \ AtEnd, M, B) => Brought(st, n, M, B) \/ Spared(st, n, B)
  <2>1. /\ n \in 1 .. Len(s) + 1 /\ Nth(st, n) = Nth(s, n)
        /\ Nth(s, n) = s[n] /\ s[n] \in Commands
        /\ Brought(s, n, M, B) => Brought(st, n, M, B)
        /\ Spared(s, n, B) => Spared(st, n, B)
    <3>1. n \in 1 .. Len(s)
      BY <1>3, LenProperties
    <3> QED BY <1>1, <3>1, BroughtFront
  <2>2. Nth(s, n) \in X \ AtEnd
    BY <1>3, <2>1, EndIsNoCommand DEF AtEnd
  <2> QED BY <2>1, <2>2 DEF Safe, Assured
<1>4. /\ Assured(s, AtEnd, M, B) => Brought(s, Len(s) + 1, M, B)
      /\ Safe(s, AtEnd, M, B) => Brought(s, Len(s) + 1, M, B) \/ Spared(s, Len(s) + 1, B)
  <2>1. Len(s) + 1 \in 1 .. Len(s) + 1 /\ Nth(s, Len(s) + 1) \in AtEnd
    BY LenProperties DEF Nth, AtEnd
  <2> QED BY <2>1 DEF Safe, Assured
<1>5. ASSUME NEW n \in 1 .. Len(st) + 1, n > Len(s), Nth(st, n) \in X
      PROVE  /\ Assured(t, X, M, B) => Brought(st, n, M, B)
             /\ Assured(s, AtEnd, M, B) /\ Safe(t, X, M, B) => Brought(st, n, M, B)
             /\ Safe(s, AtEnd, M, B) /\ Safe(t, X, M, B) =>
                  Brought(st, n, M, B) \/ Spared(st, n, B)
  <2>1. PICK m \in 1 .. Len(t) + 1 : n = Len(s) + m
    <3>1. /\ Len(s) \in Nat /\ Len(t) \in Nat /\ Len(st) = Len(s) + Len(t)
      BY <1>1, LenProperties, ConcatProperties
    <3>2. n - Len(s) \in 1 .. Len(t) + 1 /\ n = Len(s) + (n - Len(s))
      BY <1>5, <3>1
    <3> QED BY <3>2
  <2>2. /\ Nth(t, m) \in X
        /\ Brought(t, m, M, B) => Brought(st, n, M, B)
        /\ Brought(s, Len(s) + 1, M, B) /\ Spared(t, m, B) => Brought(st, n, M, B)
        /\ Spared(s, Len(s) + 1, B) /\ Spared(t, m, B) => Spared(st, n, B)
    <3>1. n \in Nat
      BY LenProperties
    <3>2. Nth(t, m) \in X
      BY <1>1, <1>5, <2>1, <3>1, BroughtBehind, Zenon
    <3>3. Brought(t, m, M, B) => Brought(st, n, M, B)
      BY <1>1, <2>1, <3>1, BroughtBehind, Zenon
    <3>4. Brought(s, Len(s) + 1, M, B) /\ Spared(t, m, B) => Brought(st, n, M, B)
      BY <1>1, <2>1, <3>1, BroughtBehind, Zenon
    <3>5. Spared(s, Len(s) + 1, B) /\ Spared(t, m, B) => Spared(st, n, B)
      BY <1>1, <2>1, <3>1, BroughtBehind, Zenon
    <3> QED BY <3>2, <3>3, <3>4, <3>5
  <2>3. /\ Assured(t, X, M, B) => Brought(t, m, M, B)
        /\ Safe(t, X, M, B) => Brought(t, m, M, B) \/ Spared(t, m, B)
    BY <1>5, <2>2 DEF Safe, Assured
  <2> QED BY <1>4, <2>2, <2>3
<1>6. Assured(s, X \ AtEnd, M, B) /\ Assured(t, X, M, B) => Assured(st, X, M, B)
  BY <1>2, <1>3, <1>5 DEF Assured
<1>7. Assured(s, X \ AtEnd, M, B) /\ Assured(s, AtEnd, M, B) /\ Safe(t, X, M, B)
        => Assured(st, X, M, B)
  <2> SUFFICES ASSUME Assured(s, X \ AtEnd, M, B), Assured(s, AtEnd, M, B), Safe(t, X, M, B),
                      NEW n \in 1 .. Len(st) + 1, Nth(st, n) \in X
               PROVE  Brought(st, n, M, B)
    BY DEF Assured
  <2> QED BY <1>2, <1>3, <1>5
<1>8. Safe(s, X \ AtEnd, M, B) /\ Safe(s, AtEnd, M, B) /\ Safe(t, X, M, B)
        => Safe(st, X, M, B)
  <2> SUFFICES ASSUME Safe(s, X \ AtEnd, M, B), Safe(s, AtEnd, M, B), Safe(t, X, M, B),
                      NEW n \in 1 .. Len(st) + 1, Nth(st, n) \in X
               PROVE  Brought(st, n, M, B) \/ Spared(st, n, B)
    BY DEF Safe
  <2> QED BY <1>2, <1>3, <1>5
<1>9. Safe(s, X \ AtEnd, M, B) /\ Assured(t, X, M, B) => Safe(st, X, M, B)
  <2> SUFFICES ASSUME Safe(s, X \ AtEnd, M, B), Assured(t, X, M, B),
                      NEW n \in 1 .. Len(st) + 1, Nth(st, n) \in X
               PROVE  Brought(st, n, M, B) \/ Spared(st, n, B)
    BY DEF Safe
  <2> QED BY <1>2, <1>3, <1>5
<1> QED BY <1>1, <1>6, <1>7, <1>8, <1>9

(* Commands that need nothing, and commands that undo nothing.             *)
LEMMA Needless ==
  ASSUME NEW S \in SUBSET Commands, NEW s \in Seq(S), NEW X, NEW M, NEW B,
         S \cap X = {}, End \notin X
  PROVE  Assured(s, X, M, B)
<1>1. \A n \in 1 .. Len(s) + 1 : Nth(s, n) \notin X
  <2> TAKE n \in 1 .. Len(s) + 1
  <2>1. CASE n = Len(s) + 1
    BY <2>1 DEF Nth
  <2>2. CASE n # Len(s) + 1
    <3>1. n \in 1 .. Len(s)
      BY <2>2, LenProperties
    <3>2. s[n] \in S
      BY <3>1, ElementOfSeq
    <3> QED BY <2>2, <3>2 DEF Nth
  <2> QED BY <2>1, <2>2
<1> QED BY <1>1 DEF Assured

LEMMA Harmless ==
  ASSUME NEW S \in SUBSET Commands, NEW s \in Seq(S), NEW X, NEW M, NEW B,
         S \cap B = {}
  PROVE  Safe(s, X, M, B)
<1>1. \A n \in 1 .. Len(s) + 1 : Spared(s, n, B)
  <2> TAKE n \in 1 .. Len(s) + 1
  <2>1. \A j \in 1 .. n - 1 : j \in 1 .. Len(s)
    BY LenProperties
  <2>2. \A j \in 1 .. Len(s) : s[j] \in S
    BY ElementOfSeq
  <2> QED BY <2>1, <2>2 DEF Spared
<1> QED BY <1>1 DEF Safe

LEMMA SubSequences ==
  ASSUME NEW S, NEW T, S \subseteq T, NEW s \in Seq(S)
  PROVE  s \in Seq(T)
OBVIOUS

(* Commands that need nothing in front.                                    *)
LEMMA Later ==
  ASSUME NEW S \in SUBSET Commands, NEW s \in Seq(S), NEW t \in Seq(Commands),
         NEW X, NEW M, NEW B, S \cap X = {}, Assured(t, X, M, B)
  PROVE  Assured(s \o t, X, M, B)
<1>1. s \in Seq(Commands)
  BY SubSequences
<1>2. Assured(s, X \ AtEnd, M, B)
  <2>1. S \cap (X \ AtEnd) = {} /\ End \notin X \ AtEnd
    BY DEF AtEnd
  <2> QED BY <2>1, Needless
<1> QED BY <1>1, <1>2, FrontHolds

(* Commands that undo nothing in front.                                    *)
LEMMA LaterSafe ==
  ASSUME NEW S \in SUBSET Commands, NEW s \in Seq(S), NEW t \in Seq(Commands),
         NEW X, NEW M, NEW B, S \cap B = {}, Safe(t, X, M, B)
  PROVE  Safe(s \o t, X, M, B)
<1>1. s \in Seq(Commands)
  BY SubSequences
<1>2. Safe(s, X \ AtEnd, M, B) /\ Safe(s, AtEnd, M, B)
  BY Harmless
<1> QED BY <1>1, <1>2, FrontHolds

(* Commands that undo nothing behind.                                      *)
LEMMA Stays ==
  ASSUME NEW S \in SUBSET Commands, NEW s \in Seq(Commands), NEW t \in Seq(S),
         NEW X, NEW M, NEW B, S \cap B = {}, Assured(s, X, M, B), End \in X
  PROVE  Assured(s \o t, X, M, B)
<1>1. t \in Seq(Commands)
  BY SubSequences
<1>2. Assured(s, X \ AtEnd, M, B) /\ Assured(s, AtEnd, M, B)
  BY DEF Assured, AtEnd
<1>3. Safe(t, X, M, B)
  BY Harmless
<1> QED BY <1>1, <1>2, <1>3, FrontHolds

(* Commands that need nothing behind.                                      *)
LEMMA Over ==
  ASSUME NEW S \in SUBSET Commands, NEW s \in Seq(Commands), NEW t \in Seq(S),
         NEW X, NEW M, NEW B, S \cap X = {}, End \notin X, Assured(s, X, M, B)
  PROVE  Assured(s \o t, X, M, B)
<1>1. t \in Seq(Commands)
  BY SubSequences
<1>2. Assured(s, X \ AtEnd, M, B)
  BY DEF Assured
<1>3. Assured(t, X, M, B)
  BY Needless
<1> QED BY <1>1, <1>2, <1>3, FrontHolds

LEMMA OverSafe ==
  ASSUME NEW S \in SUBSET Commands, NEW s \in Seq(Commands), NEW t \in Seq(S),
         NEW X, NEW M, NEW B, S \cap X = {}, End \notin X, Safe(s, X, M, B)
  PROVE  Safe(s \o t, X, M, B)
<1>1. t \in Seq(Commands)
  BY SubSequences
<1>2. Safe(s, X \ AtEnd, M, B)
  BY DEF Safe
<1>3. Assured(t, X, M, B)
  BY Needless
<1> QED BY <1>1, <1>2, <1>3, FrontHolds

(* Commands that need what those in front have brought about.              *)
LEMMA Meets ==
  ASSUME NEW s \in Seq(Commands), NEW t \in Seq(Commands), NEW X, NEW M, NEW B,
         Assured(s, X \ AtEnd, M, B), Assured(s, AtEnd, M, B), Safe(t, X, M, B)
  PROVE  Assured(s \o t, X, M, B)
BY FrontHolds

LEMMA LastBrings ==
  ASSUME NEW c \in Commands, NEW X, NEW M, NEW B, c \in M, c \notin X
  PROVE  Assured(<<c>>, X, M, B)
<1>1. Len(<<c>>) = 1 /\ <<c>>[1] = c
  OBVIOUS
<1>2. Nth(<<c>>, 1) = c
  BY <1>1 DEF Nth
<1>3. Brought(<<c>>, 2, M, B)
  BY <1>1 DEF Brought
<1>4. \A n \in 1 .. Len(<<c>>) + 1 : n = 1 \/ n = 2
  BY <1>1
<1> QED BY <1>2, <1>3, <1>4 DEF Assured

LEMMA OneIsSafe ==
  ASSUME NEW c \in Commands, NEW X, NEW M, NEW B, End \notin X
  PROVE  Safe(<<c>>, X, M, B)
<1>1. Len(<<c>>) = 1 /\ <<c>>[1] = c
  OBVIOUS
<1>2. Nth(<<c>>, 2) = End
  BY <1>1 DEF Nth
<1>3. Spared(<<c>>, 1, B)
  BY DEF Spared
<1>4. \A n \in 1 .. Len(<<c>>) + 1 : n = 1 \/ n = 2
  BY <1>1
<1> QED BY <1>2, <1>3, <1>4 DEF Safe

-----------------------------------------------------------------------------
(* The commands by their texts.                                            *)

LEMMA SaidWord ==
  ASSUME NEW texts
  PROVE  /\ Said(texts) \in SUBSET Commands
         /\ \A c \in Commands : c \in Said(texts) <=> c[1] \in texts
         /\ \A text \in texts \cap Texts : C(text) \in Said(texts) /\ C(text)[1] = text
         /\ End \notin Said(texts)
<1>1. End \notin Said(texts)
  BY EndIsNoCommand DEF Said
<1> QED BY <1>1, CommandType DEF Said

LEMMA SaidApart ==
  ASSUME NEW S, NEW T, S \cap T = {}
  PROVE  /\ Said(S) \cap Said(T) = {} /\ Said(S) \cap AtEnd = {}
         /\ Said(S) \cap (AtEnd \cup Said(T)) = {}
         /\ Said(S) \in SUBSET Commands /\ End \notin Said(T)
<1>1. Said(S) \cap Said(T) = {}
  BY DEF Said
<1>2. Said(S) \cap AtEnd = {}
  BY EndIsNoCommand DEF Said, AtEnd
<1>3. End \notin Said(T)
  BY SaidWord
<1> QED BY <1>1, <1>2, <1>3 DEF Said

LEMMA SaidNotEnd ==
  ASSUME NEW S
  PROVE  Said(S) \cap AtEnd = {} /\ Said(S) \in SUBSET Commands
BY EndIsNoCommand DEF Said, AtEnd

LEMMA SaidOne ==
  ASSUME NEW texts, NEW text \in texts \cap Texts
  PROVE  <<C(text)>> \in Seq(Said(texts)) /\ C(text) \in Commands
<1>1. C(text) \in Said(texts) /\ C(text) \in Commands
  BY SaidWord
<1> DEFINE c == C(text)
<1> HIDE DEF c
<1>2. c \in Said(texts) => <<c>> \in Seq(Said(texts))
  OBVIOUS
<1> QED BY <1>1, <1>2 DEF c

LEMMA SaidConcat ==
  ASSUME NEW S, NEW T, NEW s \in Seq(Said(S)), NEW t \in Seq(Said(T))
  PROVE  s \o t \in Seq(Said(S \cup T))
<1>1. Said(S) \subseteq Said(S \cup T) /\ Said(T) \subseteq Said(S \cup T)
  BY DEF Said
<1>2. s \in Seq(Said(S \cup T)) /\ t \in Seq(Said(S \cup T))
  BY <1>1, SubSequences
<1> QED BY <1>2, ConcatProperties

LEMMA SaidIf ==
  ASSUME NEW texts, NEW text \in texts \cap Texts, NEW option, NEW c
  PROVE  /\ If(option, text, c) \in Seq(Said(texts))
         /\ option \in c => If(option, text, c) = <<C(text)>>
<1>1. <<>> \in Seq(Said(texts))
  BY EmptySeq
<1> QED BY <1>1, SaidOne DEF If

LEMMA SaidLoads ==
  ASSUME NEW text \in LoadTexts
  PROVE  Loads(text) \in Seq(Said({text}))
<1>1. Loads(text) \in [1 .. Images -> Said({text})]
  BY ImagesAssumption DEF Loads, AllImages, Said, Commands
<1> QED BY <1>1, ImagesAssumption DEF Loads, AllImages

(* The image is loaded, and the ones after it do not undo that.            *)
LEMMA LoadsBring ==
  ASSUME NEW text \in LoadTexts, NEW i \in AllImages, NEW M, NEW B, <<text, i>> \in M,
         \A j \in AllImages : j > i => <<text, j>> \notin B
  PROVE  Assured(Loads(text), AtEnd, M, B)
<1> DEFINE s == Loads(text)
<1>1. Len(s) = Images /\ \A k \in 1 .. Images : s[k] = <<text, k>>
  <2>1. Len(s) = Images
    BY LoadsType
  <2> QED BY <2>1 DEF Loads, AllImages
<1>2. s \in Seq(Commands)
  BY LoadsType
<1> HIDE DEF s
<1>3. ASSUME NEW n \in 1 .. Len(s) + 1, Nth(s, n) \in AtEnd
      PROVE  Brought(s, n, M, B)
  <2>1. n = Len(s) + 1
    <3>1. CASE n # Len(s) + 1
      <4>1. n \in 1 .. Len(s)
        BY <3>1, <1>2, LenProperties
      <4>2. s[n] \in Commands
        BY <1>2, <4>1, ElementOfSeq
      <4> QED BY <1>3, <3>1, <4>2, EndIsNoCommand DEF Nth, AtEnd
    <3> QED BY <3>1
  <2>2. n - 1 = Images /\ i \in 1 .. n - 1
    BY <1>1, <2>1, ImagesAssumption DEF AllImages
  <2>3. \A j \in i + 1 .. n - 1 : j \in AllImages /\ j > i
    BY <2>2, ImagesAssumption DEF AllImages
  <2>4. \A j \in i + 1 .. n - 1 : s[j] \notin B
    BY <1>1, <2>3 DEF AllImages
  <2>5. s[i] \in M
    BY <1>1 DEF AllImages
  <2> QED BY <2>2, <2>4, <2>5 DEF Brought
<1> QED BY <1>3 DEF Assured, s

LEMMA PairConcat ==
  ASSUME NEW S, NEW c \in S, NEW d \in S
  PROVE  <<c, d>> = <<c>> \o <<d>>
<1> DEFINE p == <<c>>
           q == <<d>>
           t == <<c, d>>
<1>1. p \in Seq(S) /\ Len(p) = 1 /\ p[1] = c
  OBVIOUS
<1>2. q \in Seq(S) /\ Len(q) = 1 /\ q[1] = d
  OBVIOUS
<1>3. t \in Seq(S) /\ Len(t) = 2 /\ t[1] = c /\ t[2] = d
  OBVIOUS
<1> HIDE DEF p, q, t
<1>4. /\ p \o q \in Seq(S) /\ Len(p \o q) = Len(p) + Len(q)
      /\ \A k \in 1 .. Len(p) + Len(q) :
           (p \o q)[k] = IF k <= Len(p) THEN p[k] ELSE q[k - Len(p)]
  BY <1>1, <1>2, ConcatProperties
<1>5. Len(p \o q) = 2 /\ (p \o q)[1] = p[1] /\ (p \o q)[2] = q[1]
  BY <1>1, <1>2, <1>4
<1>6. \A k \in 1 .. 2 : k = 1 \/ k = 2
  OBVIOUS
<1>7. \A k \in 1 .. 2 : t[k] = (p \o q)[k]
  BY <1>1, <1>2, <1>3, <1>5, <1>6
<1>8. t = p \o q
  BY <1>3, <1>4, <1>5, <1>7, SeqEqual
<1> QED BY <1>8 DEF p, q, t

LEMMA TripleConcat ==
  ASSUME NEW S, NEW c \in S, NEW d \in S, NEW e \in S
  PROVE  <<c, d, e>> = <<c, d>> \o <<e>>
<1> DEFINE p == <<c, d>>
           q == <<e>>
           t == <<c, d, e>>
<1>1. p \in Seq(S) /\ Len(p) = 2 /\ p[1] = c /\ p[2] = d
  OBVIOUS
<1>2. q \in Seq(S) /\ Len(q) = 1 /\ q[1] = e
  OBVIOUS
<1>3. t \in Seq(S) /\ Len(t) = 3 /\ t[1] = c /\ t[2] = d /\ t[3] = e
  OBVIOUS
<1> HIDE DEF p, q, t
<1>4. /\ p \o q \in Seq(S) /\ Len(p \o q) = Len(p) + Len(q)
      /\ \A k \in 1 .. Len(p) + Len(q) :
           (p \o q)[k] = IF k <= Len(p) THEN p[k] ELSE q[k - Len(p)]
  BY <1>1, <1>2, ConcatProperties
<1>5. /\ Len(p \o q) = 3
      /\ (p \o q)[1] = p[1] /\ (p \o q)[2] = p[2] /\ (p \o q)[3] = q[1]
  BY <1>1, <1>2, <1>4
<1>6. \A k \in 1 .. 3 : k = 1 \/ k = 2 \/ k = 3
  OBVIOUS
<1>7. \A k \in 1 .. 3 : t[k] = (p \o q)[k]
  BY <1>1, <1>2, <1>3, <1>5, <1>6
<1>8. t = p \o q
  BY <1>3, <1>4, <1>5, <1>7, SeqEqual
<1> QED BY <1>8 DEF p, q, t
LEMMA SaidSeq ==
  ASSUME NEW texts, NEW s \in Seq(Said(texts))
  PROVE  s \in Seq(Commands)
BY SaidWord, SubSequences

-----------------------------------------------------------------------------
(* The parts of the sequences.                                             *)

Idle   == <<C("require_practice_idle")>>
AskUp  == <<C("system_up, else attach")>>
AskRun == <<C("state_run, else Go")>>
AllOn  == <<C(ALL)>>
ModeUp == <<C("SYStem.Mode Up")>>
Clock(c) == If("jtag_clock", "SYStem.JtagClock", c)

FlashStart(c) == (<<C("system_up, then Down")>> \o cmm) \o Clock(c)
FlashEnd == <<C(OFF), C("SYStem.Down"), C("SYStem.Up")>>
ResetStart(c) == <<C("SYStem.Down"), C("SYStem.RESet")>> \o SettingCommands(c)

StartWords == {"system_up, then Down", "depth_before", "DO", "wait", "SYStem.JtagClock"}
EndWords   == {OFF, "SYStem.Down", "SYStem.Up"}
ProgramWords == StartWords \cup {ALL, LOAD} \cup EndWords
DebugWords == {"system_up, else attach", NoCode, "state_run, else Go"}
SettingWords == {"SYStem.CPU", "SYStem.MemAccess", "CORE.ASSIGN"}
ResetWords == {"SYStem.Down", "SYStem.RESet"} \cup SettingWords

LEMMA Parts ==
  ASSUME NEW c
  PROVE  /\ Idle \in Seq(Said({"require_practice_idle"}))
         /\ AskUp \in Seq(Said({"system_up, else attach"}))
         /\ AskRun \in Seq(Said({"state_run, else Go"}))
         /\ AllOn \in Seq(Said({ALL}))
         /\ ModeUp \in Seq(Said({"SYStem.Mode Up"}))
         /\ Clock(c) \in Seq(Said({"SYStem.JtagClock"}))
         /\ Loads(LOAD) \in Seq(Said({LOAD}))
         /\ Loads(NoCode) \in Seq(Said({NoCode}))
         /\ SettingCommands(c) \in Seq(Said(SettingWords))
<1>1. Idle \in Seq(Said({"require_practice_idle"}))
  BY SaidOne DEF Idle, Texts
<1>2. AskUp \in Seq(Said({"system_up, else attach"}))
  BY SaidOne DEF AskUp, Texts
<1>3. AskRun \in Seq(Said({"state_run, else Go"}))
  BY SaidOne DEF AskRun, Texts
<1>4. AllOn \in Seq(Said({ALL}))
  BY SaidOne DEF AllOn, Texts, ALL
<1>5. ModeUp \in Seq(Said({"SYStem.Mode Up"}))
  BY SaidOne DEF ModeUp, Texts
<1>6. Clock(c) \in Seq(Said({"SYStem.JtagClock"}))
  BY SaidIf DEF Clock, Texts
<1>7. Loads(LOAD) \in Seq(Said({LOAD})) /\ Loads(NoCode) \in Seq(Said({NoCode}))
  BY SaidLoads DEF LOAD, NoCode, LoadTexts
<1>8. SettingCommands(c) \in Seq(Said(SettingWords))
  <2> DEFINE cpu   == If("cpu", "SYStem.CPU", c)
             acc   == If("mem_access", "SYStem.MemAccess", c)
             cores == If("cores", "CORE.ASSIGN", c)
  <2>1. SettingWords \cap Texts = SettingWords
    BY DEF SettingWords, Texts
  <2>2. cpu \in Seq(Said(SettingWords))
    BY <2>1, SaidIf DEF SettingWords
  <2>3. acc \in Seq(Said(SettingWords))
    BY <2>1, SaidIf DEF SettingWords
  <2>4. cores \in Seq(Said(SettingWords))
    BY <2>1, SaidIf DEF SettingWords
  <2> HIDE DEF cpu, acc, cores
  <2>5. (cpu \o acc) \o cores \in Seq(Said(SettingWords))
    BY <2>2, <2>3, <2>4, ConcatProperties
  <2> QED BY <2>5 DEF SettingCommands, cpu, acc, cores
<1> QED BY <1>1, <1>2, <1>3, <1>4, <1>5, <1>6, <1>7, <1>8

LEMMA LongParts ==
  ASSUME NEW c
  PROVE  /\ <<C("system_up, then Down")>> \in Seq(Said({"system_up, then Down"}))
         /\ cmm = (<<C("depth_before")>> \o <<C("DO")>>) \o <<C("wait")>>
         /\ <<C("depth_before")>> \in Seq(Said({"depth_before"}))
         /\ <<C("DO")>> \in Seq(Said({"DO"})) /\ <<C("wait")>> \in Seq(Said({"wait"}))
         /\ cmm \in Seq(Said({"depth_before", "DO", "wait"}))
         /\ FlashStart(c) \in Seq(Said(StartWords))
         /\ FlashEnd = (<<C(OFF)>> \o <<C("SYStem.Down")>>) \o <<C("SYStem.Up")>>
         /\ <<C(OFF)>> \in Seq(Said({OFF}))
         /\ <<C("SYStem.Down")>> \in Seq(Said({"SYStem.Down"}))
         /\ <<C("SYStem.Up")>> \in Seq(Said({"SYStem.Up"}))
         /\ FlashEnd \in Seq(Said(EndWords))
         /\ ResetStart(c) \in Seq(Said(ResetWords))
<1> DEFINE up   == <<C("system_up, then Down")>>
           db   == <<C("depth_before")>>
           do   == <<C("DO")>>
           wait == <<C("wait")>>
           off  == <<C(OFF)>>
           dn   == <<C("SYStem.Down")>>
           us   == <<C("SYStem.Up")>>
           rs   == <<C("SYStem.RESet")>>
<1>1. /\ up \in Seq(Said({"system_up, then Down"})) /\ db \in Seq(Said({"depth_before"}))
      /\ do \in Seq(Said({"DO"})) /\ wait \in Seq(Said({"wait"}))
  BY SaidOne DEF Texts
<1>2. /\ off \in Seq(Said({OFF})) /\ dn \in Seq(Said({"SYStem.Down"}))
      /\ us \in Seq(Said({"SYStem.Up"})) /\ rs \in Seq(Said({"SYStem.RESet"}))
  BY SaidOne DEF Texts, OFF
<1>3. cmm = (db \o do) \o wait
  <2>1. /\ C("depth_before") \in Commands /\ C("DO") \in Commands /\ C("wait") \in Commands
    BY CommandType DEF Texts
  <2> QED BY <2>1, PairConcat, TripleConcat DEF cmm
<1>4. FlashEnd = (off \o dn) \o us
  <2>1. /\ C(OFF) \in Commands /\ C("SYStem.Down") \in Commands /\ C("SYStem.Up") \in Commands
    BY CommandType DEF Texts, OFF
  <2> QED BY <2>1, PairConcat, TripleConcat DEF FlashEnd
<1>5. <<C("SYStem.Down"), C("SYStem.RESet")>> = dn \o rs
  <2>1. C("SYStem.Down") \in Commands /\ C("SYStem.RESet") \in Commands
    BY CommandType DEF Texts
  <2> QED BY <2>1, PairConcat
<1> HIDE DEF up, db, do, wait, off, dn, us, rs
<1>6. cmm \in Seq(Said({"depth_before", "DO", "wait"}))
  <2>1. db \o do \in Seq(Said({"depth_before"} \cup {"DO"}))
    BY <1>1, SaidConcat
  <2>2. (db \o do) \o wait \in Seq(Said(({"depth_before"} \cup {"DO"}) \cup {"wait"}))
    BY <1>1, <2>1, SaidConcat
  <2>3. ({"depth_before"} \cup {"DO"}) \cup {"wait"} = {"depth_before", "DO", "wait"}
    OBVIOUS
  <2> QED BY <1>3, <2>2, <2>3
<1>7. FlashEnd \in Seq(Said(EndWords))
  <2>1. off \o dn \in Seq(Said({OFF} \cup {"SYStem.Down"}))
    BY <1>2, SaidConcat
  <2>2. (off \o dn) \o us \in Seq(Said(({OFF} \cup {"SYStem.Down"}) \cup {"SYStem.Up"}))
    BY <1>2, <2>1, SaidConcat
  <2>3. ({OFF} \cup {"SYStem.Down"}) \cup {"SYStem.Up"} = EndWords
    BY DEF EndWords
  <2> QED BY <1>4, <2>2, <2>3
<1>8. FlashStart(c) \in Seq(Said(StartWords))
  <2>1. up \o cmm \in Seq(Said({"system_up, then Down"} \cup {"depth_before", "DO", "wait"}))
    BY <1>1, <1>6, SaidConcat
  <2>2. (up \o cmm) \o Clock(c) \in
          Seq(Said(({"system_up, then Down"} \cup {"depth_before", "DO", "wait"})
                     \cup {"SYStem.JtagClock"}))
    BY <2>1, Parts, SaidConcat
  <2>3. ({"system_up, then Down"} \cup {"depth_before", "DO", "wait"}) \cup {"SYStem.JtagClock"}
          = StartWords
    BY DEF StartWords
  <2> QED BY <2>2, <2>3 DEF FlashStart, up
<1>9. ResetStart(c) \in Seq(Said(ResetWords))
  <2>1. dn \o rs \in Seq(Said({"SYStem.Down"} \cup {"SYStem.RESet"}))
    BY <1>2, SaidConcat
  <2>2. (dn \o rs) \o SettingCommands(c) \in
          Seq(Said(({"SYStem.Down"} \cup {"SYStem.RESet"}) \cup SettingWords))
    BY <2>1, Parts, SaidConcat
  <2>3. ({"SYStem.Down"} \cup {"SYStem.RESet"}) \cup SettingWords = ResetWords
    BY DEF ResetWords
  <2> QED BY <1>5, <2>2, <2>3 DEF ResetStart
<1> QED BY <1>1, <1>2, <1>3, <1>4, <1>6, <1>7, <1>8, <1>9 DEF up, db, do, wait, off, dn, us

LEMMA Programs ==
  ASSUME NEW c
  PROVE  /\ program(c) =
              (((FlashStart(c) \o AllOn) \o Loads(LOAD)) \o FlashEnd) \o Clock(c)
         /\ FlashStart(c) \o AllOn \in Seq(Commands)
         /\ (FlashStart(c) \o AllOn) \o Loads(LOAD) \in Seq(Commands)
         /\ ((FlashStart(c) \o AllOn) \o Loads(LOAD)) \o FlashEnd \in Seq(Commands)
         /\ (FlashStart(c) \o AllOn) \o Loads(LOAD) \in Seq(Said(StartWords \cup {ALL, LOAD}))
         /\ ((FlashStart(c) \o AllOn) \o Loads(LOAD)) \o FlashEnd \in Seq(Said(ProgramWords))
         /\ program(c) \in Seq(Said(ProgramWords))
<1> DEFINE start == FlashStart(c)
           loads == Loads(LOAD)
           clock == Clock(c)
<1>1. program(c) = (((start \o AllOn) \o loads) \o FlashEnd) \o clock
  BY DEF program, FlashStart, AllOn, FlashEnd, Clock, ALL, LOAD, OFF
<1>2. /\ start \in Seq(Said(StartWords)) /\ AllOn \in Seq(Said({ALL}))
      /\ loads \in Seq(Said({LOAD})) /\ FlashEnd \in Seq(Said(EndWords))
      /\ clock \in Seq(Said({"SYStem.JtagClock"}))
  BY Parts, LongParts
<1> HIDE DEF start, loads, clock
<1>3. start \o AllOn \in Seq(Said(StartWords \cup {ALL}))
  BY <1>2, SaidConcat
<1>4. (start \o AllOn) \o loads \in Seq(Said((StartWords \cup {ALL}) \cup {LOAD}))
  BY <1>2, <1>3, SaidConcat
<1>5. ((start \o AllOn) \o loads) \o FlashEnd \in
        Seq(Said(((StartWords \cup {ALL}) \cup {LOAD}) \cup EndWords))
  BY <1>2, <1>4, SaidConcat
<1>6. (((start \o AllOn) \o loads) \o FlashEnd) \o clock \in
        Seq(Said((((StartWords \cup {ALL}) \cup {LOAD}) \cup EndWords) \cup {"SYStem.JtagClock"}))
  BY <1>2, <1>5, SaidConcat
<1>7. /\ (StartWords \cup {ALL}) \cup {LOAD} = StartWords \cup {ALL, LOAD}
      /\ ((StartWords \cup {ALL}) \cup {LOAD}) \cup EndWords = ProgramWords
      /\ (((StartWords \cup {ALL}) \cup {LOAD}) \cup EndWords) \cup {"SYStem.JtagClock"}
           = ProgramWords
  BY DEF ProgramWords, StartWords
<1>8. /\ start \o AllOn \in Seq(Commands)
      /\ (start \o AllOn) \o loads \in Seq(Commands)
      /\ ((start \o AllOn) \o loads) \o FlashEnd \in Seq(Commands)
  BY <1>3, <1>4, <1>5, SaidSeq
<1> QED BY <1>1, <1>4, <1>5, <1>6, <1>7, <1>8 DEF start, loads, clock

LEMMA Debugs ==
  /\ setup_debug = (AskUp \o Loads(NoCode)) \o AskRun
  /\ AskUp \o Loads(NoCode) \in Seq(Said({"system_up, else attach", NoCode}))
  /\ setup_debug \in Seq(Said(DebugWords))
<1> DEFINE loads == Loads(NoCode)
<1>1. setup_debug = (AskUp \o loads) \o AskRun
  BY DEF setup_debug, AskUp, AskRun, NoCode
<1>2. /\ AskUp \in Seq(Said({"system_up, else attach"})) /\ loads \in Seq(Said({NoCode}))
      /\ AskRun \in Seq(Said({"state_run, else Go"}))
  BY Parts
<1> HIDE DEF loads
<1>3. AskUp \o loads \in Seq(Said({"system_up, else attach"} \cup {NoCode}))
  BY <1>2, SaidConcat
<1>4. (AskUp \o loads) \o AskRun \in
        Seq(Said(({"system_up, else attach"} \cup {NoCode}) \cup {"state_run, else Go"}))
  BY <1>2, <1>3, SaidConcat
<1>5. /\ {"system_up, else attach"} \cup {NoCode} = {"system_up, else attach", NoCode}
      /\ ({"system_up, else attach"} \cup {NoCode}) \cup {"state_run, else Go"} = DebugWords
  BY DEF DebugWords
<1> QED BY <1>1, <1>3, <1>4, <1>5 DEF loads

LEMMA Sequences ==
  ASSUME NEW c
  PROVE  /\ Sequence("flash", c) = (Idle \o program(c)) \o setup_debug
         /\ Sequence("load", c) = Idle \o setup_debug
         /\ Sequence("reset", c) = Idle \o ((ResetStart(c) \o ModeUp) \o Clock(c))
         /\ Sequence("attach", c) = AskUp
         /\ Sequence("reset_and_stop", c) = <<C("Break")>> \o ModeUp
         /\ Idle \o program(c) \in
              Seq(Said({"require_practice_idle"} \cup ProgramWords))
         /\ ResetStart(c) \o ModeUp \in Seq(Said(ResetWords \cup {"SYStem.Mode Up"}))
         /\ (ResetStart(c) \o ModeUp) \o Clock(c) \in
              Seq(Said((ResetWords \cup {"SYStem.Mode Up"}) \cup {"SYStem.JtagClock"}))
         /\ <<C("Break")>> \in Seq(Said({"Break"}))
<1>1. /\ Sequence("flash", c) = (Idle \o program(c)) \o setup_debug
      /\ Sequence("load", c) = Idle \o setup_debug
  BY DEF Sequence, Idle
<1>2. Sequence("reset", c) = Idle \o ((ResetStart(c) \o ModeUp) \o Clock(c))
  BY DEF Sequence, Idle, reset_commands, ResetStart, ModeUp, Clock
<1>3. Sequence("attach", c) = AskUp
  BY DEF Sequence, AskUp
<1>4. Sequence("reset_and_stop", c) = <<C("Break")>> \o ModeUp
  <2>1. C("Break") \in Commands /\ C("SYStem.Mode Up") \in Commands
    BY CommandType DEF Texts
  <2> QED BY <2>1, PairConcat DEF Sequence, reset_and_stop, ModeUp
<1>5. Idle \o program(c) \in Seq(Said({"require_practice_idle"} \cup ProgramWords))
  BY Parts, Programs, SaidConcat
<1>6. ResetStart(c) \o ModeUp \in Seq(Said(ResetWords \cup {"SYStem.Mode Up"}))
  BY Parts, LongParts, SaidConcat
<1>7. (ResetStart(c) \o ModeUp) \o Clock(c) \in
        Seq(Said((ResetWords \cup {"SYStem.Mode Up"}) \cup {"SYStem.JtagClock"}))
  BY <1>6, Parts, SaidConcat
<1>8. <<C("Break")>> \in Seq(Said({"Break"}))
  BY SaidOne DEF Texts
<1> QED BY <1>1, <1>2, <1>3, <1>4, <1>5, <1>6, <1>7, <1>8
-----------------------------------------------------------------------------
(* What each sequence brings about.                                        *)

LEMMA WordBrings ==
  ASSUME NEW text \in Texts, NEW X, NEW M, NEW B, text \in M, text \notin X
  PROVE  Assured(<<C(text)>>, AtEnd \cup Said(X), Said(M), B)
<1>1. C(text) \in Commands /\ C(text)[1] = text
  BY CommandType
<1> DEFINE c == C(text)
<1> HIDE DEF c
<1>2. c \in Commands /\ c[1] = text
  BY <1>1 DEF c
<1>3. c \in Said(M) /\ c \notin AtEnd \cup Said(X)
  BY <1>2, EndIsNoCommand DEF Said, AtEnd
<1>4. Assured(<<c>>, AtEnd \cup Said(X), Said(M), B)
  BY <1>2, <1>3, LastBrings
<1> QED BY <1>4 DEF c

LEMMA BroughtAtEnd ==
  ASSUME NEW text \in Texts, NEW M, NEW B, text \in M
  PROVE  Assured(<<C(text)>>, AtEnd, Said(M), B)
<1>1. Assured(<<C(text)>>, AtEnd \cup Said({}), Said(M), B)
  BY WordBrings
<1> QED BY <1>1 DEF Said

(* The system is up.                                                       *)
LEMMA DebugUp == Assured(setup_debug, UpWords, Said(Ups), Said(Downs))
<1> DEFINE loads == Loads(NoCode)
<1>1. /\ AskUp \in Seq(Commands) /\ AskUp \o loads \in Seq(Commands)
      /\ AskRun \in Seq(Commands)
      /\ loads \in Seq(Said({NoCode})) /\ AskRun \in Seq(Said({"state_run, else Go"}))
      /\ setup_debug = (AskUp \o loads) \o AskRun
  BY Parts, Debugs, SaidSeq
<1>2. Assured(AskUp, AtEnd, Said(Ups), Said(Downs))
  <2>1. "system_up, else attach" \in Ups \cap Texts
    BY DEF Ups, Texts
  <2> QED BY <2>1, BroughtAtEnd DEF AskUp
<1> HIDE DEF loads
<1>3. Assured(AskUp \o loads, AtEnd, Said(Ups), Said(Downs))
  <2>1. {NoCode} \cap Downs = {}
    BY DEF NoCode, Downs
  <2>2. Said({NoCode}) \cap Said(Downs) = {} /\ Said({NoCode}) \in SUBSET Commands
    BY <2>1, SaidApart
  <2> QED BY <1>1, <1>2, <2>2, Stays DEF AtEnd
<1>4. Assured(AskUp \o loads, UpWords \ AtEnd, Said(Ups), Said(Downs))
  <2>1. {"system_up, else attach", NoCode} \cap Goes = {}
    BY DEF NoCode, Goes
  <2>2. /\ Said({"system_up, else attach", NoCode}) \cap (UpWords \ AtEnd) = {}
        /\ End \notin UpWords \ AtEnd
        /\ Said({"system_up, else attach", NoCode}) \in SUBSET Commands
    BY <2>1, SaidApart DEF UpWords, AtEnd
  <2>3. AskUp \o loads \in Seq(Said({"system_up, else attach", NoCode}))
    BY Debugs DEF loads
  <2> QED BY <2>2, <2>3, Needless
<1>5. Safe(AskRun, UpWords, Said(Ups), Said(Downs))
  <2>1. {"state_run, else Go"} \cap Downs = {}
    BY DEF Downs
  <2>2. /\ Said({"state_run, else Go"}) \cap Said(Downs) = {}
        /\ Said({"state_run, else Go"}) \in SUBSET Commands
    BY <2>1, SaidApart
  <2> QED BY <1>1, <2>2, Harmless
<1> QED BY <1>1, <1>3, <1>4, <1>5, Meets

LEMMA StartsUp ==
  ASSUME NEW a \in Actions, NEW c
  PROVE  Assured(Sequence(a, c), UpWords, Said(Ups), Said(Downs))
<1>1. setup_debug \in Seq(Commands)
  BY Debugs, SaidSeq
<1>2. CASE a = "flash"
  <2>1. ({"require_practice_idle"} \cup ProgramWords) \cap Goes = {}
    BY DEF ProgramWords, StartWords, EndWords, OFF, ALL, LOAD, Goes
  <2>2. /\ Said({"require_practice_idle"} \cup ProgramWords) \cap UpWords = {}
        /\ Said({"require_practice_idle"} \cup ProgramWords) \in SUBSET Commands
    BY <2>1, SaidApart DEF UpWords
  <2> QED BY <1>1, <1>2, <2>2, Sequences, DebugUp, Later
<1>3. CASE a = "load"
  <2>1. {"require_practice_idle"} \cap Goes = {}
    BY DEF Goes
  <2>2. /\ Said({"require_practice_idle"}) \cap UpWords = {}
        /\ Said({"require_practice_idle"}) \in SUBSET Commands
    BY <2>1, SaidApart DEF UpWords
  <2> QED BY <1>1, <1>3, <2>2, Sequences, Parts, DebugUp, Later
<1>4. Assured(ModeUp, UpWords, Said(Ups), Said(Downs))
  <2>1. "SYStem.Mode Up" \in Ups \cap Texts /\ "SYStem.Mode Up" \notin Goes
    BY DEF Ups, HardUps, Texts, Goes
  <2> QED BY <2>1, WordBrings DEF ModeUp, UpWords
<1>5. CASE a = "reset"
  <2>1. /\ ({"require_practice_idle"} \cup ResetWords) \cap Goes = {}
        /\ {"SYStem.JtagClock"} \cap Downs = {}
    BY DEF ResetWords, SettingWords, Goes, Downs
  <2>2. /\ Said({"require_practice_idle"}) \cap UpWords = {}
        /\ Said({"require_practice_idle"}) \in SUBSET Commands
        /\ Said(ResetWords) \cap UpWords = {} /\ Said(ResetWords) \in SUBSET Commands
    <3>1. {"require_practice_idle"} \cap Goes = {} /\ ResetWords \cap Goes = {}
      BY <2>1
    <3> QED BY <3>1, SaidApart DEF UpWords
  <2>3. /\ Said({"SYStem.JtagClock"}) \cap Said(Downs) = {}
        /\ Said({"SYStem.JtagClock"}) \in SUBSET Commands
    BY <2>1, SaidApart
  <2>4. /\ ModeUp \in Seq(Commands) /\ ResetStart(c) \o ModeUp \in Seq(Commands)
        /\ (ResetStart(c) \o ModeUp) \o Clock(c) \in Seq(Commands)
    BY Parts, Sequences, SaidSeq
  <2>5. Assured(ResetStart(c) \o ModeUp, UpWords, Said(Ups), Said(Downs))
    BY <1>4, <2>2, <2>4, LongParts, Later
  <2>6. Assured((ResetStart(c) \o ModeUp) \o Clock(c), UpWords, Said(Ups), Said(Downs))
    <3>1. End \in UpWords /\ Clock(c) \in Seq(Said({"SYStem.JtagClock"}))
      BY Parts DEF UpWords, AtEnd
    <3> QED BY <2>3, <2>4, <2>5, <3>1, Stays
  <2> QED BY <1>5, <2>2, <2>4, <2>6, Sequences, Parts, Later
<1>6. CASE a = "attach"
  <2>1. /\ "system_up, else attach" \in Ups \cap Texts
        /\ "system_up, else attach" \notin Goes
    BY DEF Ups, Texts, Goes
  <2>2. Assured(AskUp, UpWords, Said(Ups), Said(Downs))
    BY <2>1, WordBrings DEF AskUp, UpWords
  <2> QED BY <1>6, <2>2, Sequences
<1>7. CASE a = "reset_and_stop"
  <2>1. {"Break"} \cap Goes = {}
    BY DEF Goes
  <2>2. Said({"Break"}) \cap UpWords = {} /\ Said({"Break"}) \in SUBSET Commands
    BY <2>1, SaidApart DEF UpWords
  <2>3. ModeUp \in Seq(Commands)
    BY Parts, SaidSeq
  <2> QED BY <1>4, <1>7, <2>2, <2>3, Sequences, Later
<1> QED BY <1>2, <1>3, <1>5, <1>6, <1>7 DEF Actions
(* What setup_debug brings about is so at the end of `flash` and `load`.   *)
LEMMA DebugLast ==
  ASSUME NEW a \in {"flash", "load"}, NEW c, NEW M, NEW B, Assured(setup_debug, AtEnd, M, B)
  PROVE  Assured(Sequence(a, c), AtEnd, M, B)
<1>1. setup_debug \in Seq(Commands)
  BY Debugs, SaidSeq
<1>2. CASE a = "flash"
  <2>1. /\ Said({"require_practice_idle"} \cup ProgramWords) \cap AtEnd = {}
        /\ Said({"require_practice_idle"} \cup ProgramWords) \in SUBSET Commands
    BY SaidNotEnd
  <2> QED BY <1>1, <1>2, <2>1, Sequences, Later
<1>3. CASE a = "load"
  <2>1. /\ Said({"require_practice_idle"}) \cap AtEnd = {}
        /\ Said({"require_practice_idle"}) \in SUBSET Commands
    BY SaidNotEnd
  <2> QED BY <1>1, <1>3, <2>1, Sequences, Parts, Later
<1> QED BY <1>2, <1>3

LEMMA StartsRunning ==
  ASSUME NEW a \in {"flash", "load"}, NEW c, NEW B
  PROVE  Assured(Sequence(a, c), AtEnd, Said(Goes), B)
<1>1. Assured(AskRun, AtEnd, Said(Goes), B)
  <2>1. "state_run, else Go" \in Goes \cap Texts
    BY DEF Goes, Texts
  <2> QED BY <2>1, BroughtAtEnd DEF AskRun
<1>2. /\ AskRun \in Seq(Commands)
      /\ Said({"system_up, else attach", NoCode}) \cap AtEnd = {}
      /\ Said({"system_up, else attach", NoCode}) \in SUBSET Commands
  BY Parts, SaidSeq, SaidNotEnd
<1>3. Assured(setup_debug, AtEnd, Said(Goes), B)
  BY <1>1, <1>2, Debugs, Later
<1> QED BY <1>3, DebugLast

LEMMA StartsSymbols ==
  ASSUME NEW a \in {"flash", "load"}, NEW c, NEW i \in AllImages
  PROVE  Assured(Sequence(a, c), AtEnd, LoadOf(i), Replaces(i))
<1> DEFINE loads == Loads(NoCode)
           debug == AskUp \o loads
<1>1. Assured(loads, AtEnd, LoadOf(i), Replaces(i))
  <2>1. <<NoCode, i>> \in LoadOf(i) /\ NoCode \in LoadTexts
    BY DEF LoadOf, NoCode, LoadTexts
  <2>2. \A j \in AllImages : j > i => <<NoCode, j>> \notin Replaces(i)
    BY ImagesAssumption DEF Replaces, LoadOf, AllImages
  <2> QED BY <2>1, <2>2, LoadsBring
<1>2. /\ loads \in Seq(Commands) /\ AskUp \o loads \in Seq(Commands)
      /\ Said({"system_up, else attach"}) \cap AtEnd = {}
      /\ Said({"system_up, else attach"}) \in SUBSET Commands
      /\ Said({"state_run, else Go"}) \in SUBSET Commands
  BY Parts, Debugs, SaidSeq, SaidNotEnd
<1>3. Said({"state_run, else Go"}) \cap Replaces(i) = {}
  <2>1. \A d \in Replaces(i) : d[1] \in {LOAD, NoCode}
    BY DEF Replaces, LoadOf
  <2>2. "state_run, else Go" \notin {LOAD, NoCode}
    BY DEF LOAD, NoCode
  <2> QED BY <2>1, <2>2 DEF Said
<1>4. /\ AskUp \in Seq(Said({"system_up, else attach"}))
      /\ AskRun \in Seq(Said({"state_run, else Go"}))
  BY Parts
<1> HIDE DEF loads
<1>5. Assured(AskUp \o loads, AtEnd, LoadOf(i), Replaces(i))
  BY <1>1, <1>2, <1>4, Later
<1>6. Assured((AskUp \o loads) \o AskRun, AtEnd, LoadOf(i), Replaces(i))
  BY <1>2, <1>3, <1>4, <1>5, Stays DEF AtEnd
<1>7. Assured(setup_debug, AtEnd, LoadOf(i), Replaces(i))
  BY <1>6, Debugs DEF loads
<1> QED BY <1>7, DebugLast

(* What SYStem.Mode Up brings about in `reset` is so at its end, if the    *)
(* JTAG clock does not undo it.                                            *)
LEMMA ModeUpLast ==
  ASSUME NEW c, NEW M, NEW B, Assured(ResetStart(c) \o ModeUp, AtEnd, M, B),
         Said({"SYStem.JtagClock"}) \cap B = {}
  PROVE  Assured(Sequence("reset", c), AtEnd, M, B)
<1>1. /\ ResetStart(c) \o ModeUp \in Seq(Commands)
      /\ (ResetStart(c) \o ModeUp) \o Clock(c) \in Seq(Commands)
      /\ Clock(c) \in Seq(Said({"SYStem.JtagClock"}))
      /\ Idle \in Seq(Said({"require_practice_idle"}))
  BY Parts, Sequences, SaidSeq
<1>2. /\ Said({"SYStem.JtagClock"}) \in SUBSET Commands
      /\ Said({"require_practice_idle"}) \cap AtEnd = {}
      /\ Said({"require_practice_idle"}) \in SUBSET Commands
  BY SaidNotEnd
<1>3. Assured((ResetStart(c) \o ModeUp) \o Clock(c), AtEnd, M, B)
  <2>1. End \in AtEnd
    BY DEF AtEnd
  <2> QED BY <1>1, <1>2, <2>1, Stays
<1> QED BY <1>1, <1>2, <1>3, Sequences, Later

LEMMA StartsHalted ==
  ASSUME NEW a \in {"reset", "reset_and_stop"}, NEW c
  PROVE  Assured(Sequence(a, c), AtEnd, Said(Halts), Said(HaltEnders))
<1>1. Assured(ModeUp, AtEnd, Said(Halts), Said(HaltEnders))
  <2>1. "SYStem.Mode Up" \in Halts \cap Texts
    BY DEF Halts, Texts
  <2> QED BY <2>1, BroughtAtEnd DEF ModeUp
<1>2. ModeUp \in Seq(Commands) /\ <<C("Break")>> \in Seq(Said({"Break"}))
  BY Parts, Sequences, SaidSeq
<1>3. CASE a = "reset"
  <2>1. Said(ResetWords) \cap AtEnd = {} /\ Said(ResetWords) \in SUBSET Commands
    BY SaidNotEnd
  <2>2. Assured(ResetStart(c) \o ModeUp, AtEnd, Said(Halts), Said(HaltEnders))
    BY <1>1, <1>2, <2>1, LongParts, Later
  <2>3. {"SYStem.JtagClock"} \cap HaltEnders = {}
    BY DEF HaltEnders, Goes
  <2>4. Said({"SYStem.JtagClock"}) \cap Said(HaltEnders) = {}
    BY <2>3, SaidApart
  <2> QED BY <1>3, <2>2, <2>4, ModeUpLast
<1>4. CASE a = "reset_and_stop"
  <2>1. Said({"Break"}) \cap AtEnd = {} /\ Said({"Break"}) \in SUBSET Commands
    BY SaidNotEnd
  <2> QED BY <1>1, <1>2, <1>4, <2>1, Sequences, Later
<1> QED BY <1>3, <1>4

(* The settings of the project file are made in `reset` after SYStem.RESet. *)
LEMMA StartsSettings ==
  ASSUME NEW c \in SUBSET Options, NEW o \in c
  PROVE  Assured(Sequence("reset", c), AtEnd, Said({Setter[o]}), Said(Forgets(o)))
<1> DEFINE M == Said({Setter[o]})
           B == Said(Forgets(o))
           cpu   == If("cpu", "SYStem.CPU", c)
           acc   == If("mem_access", "SYStem.MemAccess", c)
           cores == If("cores", "CORE.ASSIGN", c)
           down  == <<C("SYStem.Down"), C("SYStem.RESet")>>
<1>1. /\ cpu \in Seq(Said({"SYStem.CPU"})) /\ acc \in Seq(Said({"SYStem.MemAccess"}))
      /\ cores \in Seq(Said({"CORE.ASSIGN"}))
      /\ "cpu" \in c => cpu = <<C("SYStem.CPU")>>
      /\ "mem_access" \in c => acc = <<C("SYStem.MemAccess")>>
      /\ "cores" \in c => cores = <<C("CORE.ASSIGN")>>
      /\ "jtag_clock" \in c => Clock(c) = <<C("SYStem.JtagClock")>>
  BY ZenonT(30), SaidIf DEF Texts, Clock
<1>2. SettingCommands(c) = (cpu \o acc) \o cores
  BY DEF SettingCommands
<1>3. /\ down \o SettingCommands(c) = ResetStart(c)
      /\ down \in Seq(Commands)
  <2>1. down \in Seq(Commands)
    <3>1. C("SYStem.Down") \in Commands /\ C("SYStem.RESet") \in Commands
      BY CommandType DEF Texts
    <3> QED BY <3>1
  <2> QED BY <2>1 DEF ResetStart
<1> HIDE DEF cpu, acc, cores, down
<1>4. /\ cpu \in Seq(Commands) /\ acc \in Seq(Commands) /\ cores \in Seq(Commands)
      /\ cpu \o acc \in Seq(Commands) /\ (cpu \o acc) \o cores \in Seq(Commands)
  <2>1. cpu \in Seq(Commands) /\ acc \in Seq(Commands) /\ cores \in Seq(Commands)
    BY <1>1, SaidSeq
  <2> QED BY <2>1, ConcatProperties
<1>5. Commands \cap AtEnd = {} /\ Commands \in SUBSET Commands /\ End \in AtEnd
  BY EndIsNoCommand DEF AtEnd
<1>6. CASE o \in {"cpu", "mem_access", "cores"}
  <2>1. B = Said({"SYStem.RESet"})
    BY <1>6 DEF Forgets
  <2> HIDE DEF B
  <2>2. \A text \in {"SYStem.CPU", "SYStem.MemAccess", "CORE.ASSIGN", "SYStem.Mode Up",
                     "SYStem.JtagClock"} :
          Said({text}) \cap B = {} /\ Said({text}) \in SUBSET Commands
    <3>1. \A text \in {"SYStem.CPU", "SYStem.MemAccess", "CORE.ASSIGN", "SYStem.Mode Up",
                       "SYStem.JtagClock"} : {text} \cap {"SYStem.RESet"} = {}
      OBVIOUS
    <3> QED BY <2>1, <3>1, SaidApart
  <2>3. Assured((cpu \o acc) \o cores, AtEnd, M, B)
    <3>1. CASE o = "cpu"
      <4>1. Assured(cpu, AtEnd, M, B)
        <5>1. Setter[o] = "SYStem.CPU" /\ "SYStem.CPU" \in Texts
          BY <3>1 DEF Setter, Texts
        <5> QED BY <1>1, <3>1, <5>1, BroughtAtEnd
      <4>2. Assured(cpu \o acc, AtEnd, M, B)
        BY <1>1, <1>4, <1>5, <2>2, <4>1, Stays
      <4> QED BY <1>1, <1>4, <1>5, <2>2, <4>2, Stays
    <3>2. CASE o = "mem_access"
      <4>1. Assured(acc, AtEnd, M, B)
        <5>1. Setter[o] = "SYStem.MemAccess" /\ "SYStem.MemAccess" \in Texts
          BY <3>2 DEF Setter, Texts
        <5> QED BY <1>1, <3>2, <5>1, BroughtAtEnd
      <4>2. Assured(cpu \o acc, AtEnd, M, B)
        BY <1>4, <1>5, <4>1, Later
      <4> QED BY <1>1, <1>4, <1>5, <2>2, <4>2, Stays
    <3>3. CASE o = "cores"
      <4>1. Assured(cores, AtEnd, M, B)
        <5>1. Setter[o] = "CORE.ASSIGN" /\ "CORE.ASSIGN" \in Texts
          BY <3>3 DEF Setter, Texts
        <5> QED BY <1>1, <3>3, <5>1, BroughtAtEnd
      <4> QED BY <1>4, <1>5, <4>1, Later
    <3> QED BY <1>6, <3>1, <3>2, <3>3
  <2>4. Assured(ResetStart(c), AtEnd, M, B) /\ ResetStart(c) \in Seq(Commands)
    <3>1. Assured(down \o ((cpu \o acc) \o cores), AtEnd, M, B)
      BY <1>3, <1>4, <1>5, <2>3, Later
    <3>2. ResetStart(c) \in Seq(Commands)
      BY LongParts, SaidSeq
    <3> QED BY <1>2, <1>3, <3>1, <3>2
  <2>5. Assured(ResetStart(c) \o ModeUp, AtEnd, M, B)
    <3>1. ModeUp \in Seq(Said({"SYStem.Mode Up"}))
      BY Parts
    <3> QED BY <1>5, <2>2, <2>4, <3>1, Stays
  <2> QED BY <2>2, <2>5, ModeUpLast DEF B
<1>7. CASE o = "jtag_clock"
  <2>1. Assured(Clock(c), AtEnd, M, B)
    <3>1. Setter[o] = "SYStem.JtagClock" /\ "SYStem.JtagClock" \in Texts
      BY <1>7 DEF Setter, Texts
    <3> QED BY <1>1, <1>7, <3>1, BroughtAtEnd
  <2>2. /\ ResetStart(c) \o ModeUp \in Seq(Commands) /\ Clock(c) \in Seq(Commands)
        /\ (ResetStart(c) \o ModeUp) \o Clock(c) \in Seq(Commands) /\ Idle \in Seq(Commands)
    BY Parts, Sequences, SaidSeq
  <2>3. Assured((ResetStart(c) \o ModeUp) \o Clock(c), AtEnd, M, B)
    BY <1>5, <2>1, <2>2, Later
  <2>4. Assured(Idle \o ((ResetStart(c) \o ModeUp) \o Clock(c)), AtEnd, M, B)
    BY <1>5, <2>2, <2>3, Later
  <2> QED BY <2>4, Sequences
<1> QED BY <1>6, <1>7, OptionsAssumption
-----------------------------------------------------------------------------
(* `flash`: the sequence that enters FLASH.ReProgram mode.                  *)

LEMMA FlashParts ==
  ASSUME NEW c
  PROVE  /\ Idle \o program(c) \in Seq(Commands) /\ setup_debug \in Seq(Commands)
         /\ Idle \in Seq(Commands) /\ program(c) \in Seq(Commands)
         /\ Sequence("flash", c) = (Idle \o program(c)) \o setup_debug
         /\ Idle \in Seq(Said({"require_practice_idle"}))
         /\ setup_debug \in Seq(Said(DebugWords))
BY Sequences, Parts, Debugs, Programs, SaidSeq

(* What the program brings about is so at the end, if loading the symbols  *)
(* does not undo it.                                                       *)
LEMMA ProgramLast ==
  ASSUME NEW c, NEW M, NEW B, Assured(program(c), AtEnd, M, B), Said(DebugWords) \cap B = {}
  PROVE  Assured(Sequence("flash", c), AtEnd, M, B)
<1>1. Assured(Idle \o program(c), AtEnd, M, B)
  BY FlashParts, SaidNotEnd, Later
<1>2. End \in AtEnd /\ Said(DebugWords) \in SUBSET Commands
  BY SaidNotEnd DEF AtEnd
<1> QED BY <1>1, <1>2, FlashParts, Stays

(* What the program needs it brings about itself.                          *)
LEMMA ProgramOnly ==
  ASSUME NEW c, NEW X, NEW M, NEW B, Assured(program(c), Said(X), M, B),
         X \cap ({"require_practice_idle"} \cup DebugWords) = {}
  PROVE  Assured(Sequence("flash", c), Said(X), M, B)
<1>1. /\ Said({"require_practice_idle"}) \cap Said(X) = {}
      /\ Said({"require_practice_idle"}) \in SUBSET Commands
      /\ Said(DebugWords) \cap Said(X) = {} /\ Said(DebugWords) \in SUBSET Commands
      /\ End \notin Said(X)
  BY SaidApart
<1>2. Assured(Idle \o program(c), Said(X), M, B)
  BY <1>1, FlashParts, Later
<1> QED BY <1>1, <1>2, FlashParts, Over

(* A command of the program needs what those before it bring about, and    *)
(* the commands after it need nothing.                                     *)
LEMMA AtFlashEnd ==
  ASSUME NEW c, NEW M, NEW B,
         Assured((FlashStart(c) \o AllOn) \o Loads(LOAD), AtEnd, M, B),
         Safe(FlashEnd, Said({OFF}), M, B)
  PROVE  Assured(Sequence("flash", c), Said({OFF}), M, B)
<1> DEFINE load == (FlashStart(c) \o AllOn) \o Loads(LOAD)
<1>1. /\ load \in Seq(Said(StartWords \cup {ALL, LOAD})) /\ load \in Seq(Commands)
      /\ FlashEnd \in Seq(Commands) /\ load \o FlashEnd \in Seq(Commands)
      /\ program(c) = (load \o FlashEnd) \o Clock(c)
      /\ Clock(c) \in Seq(Said({"SYStem.JtagClock"}))
  BY Programs, LongParts, Parts, SaidSeq
<1> HIDE DEF load
<1>2. /\ (StartWords \cup {ALL, LOAD}) \cap {OFF} = {} /\ {"SYStem.JtagClock"} \cap {OFF} = {}
      /\ {OFF} \cap ({"require_practice_idle"} \cup DebugWords) = {}
  BY DEF StartWords, ALL, LOAD, OFF, DebugWords, NoCode
<1>3. /\ Said(StartWords \cup {ALL, LOAD}) \cap Said({OFF}) = {}
      /\ Said(StartWords \cup {ALL, LOAD}) \in SUBSET Commands
      /\ End \notin Said({OFF})
  BY <1>2, SaidApart
<1>4. Assured(load, Said({OFF}) \ AtEnd, M, B)
  <2>1. /\ Said(StartWords \cup {ALL, LOAD}) \cap (Said({OFF}) \ AtEnd) = {}
        /\ End \notin Said({OFF}) \ AtEnd
    BY <1>3
  <2> QED BY <1>1, <1>3, <2>1, Needless
<1>5. Assured(load, AtEnd, M, B)
  BY DEF load
<1>6. Assured(load \o FlashEnd, Said({OFF}), M, B)
  BY <1>1, <1>4, <1>5, Meets
<1>7. /\ Said({"SYStem.JtagClock"}) \cap Said({OFF}) = {}
      /\ Said({"SYStem.JtagClock"}) \in SUBSET Commands
  BY <1>2, SaidApart
<1>8. Assured(program(c), Said({OFF}), M, B)
  BY <1>1, <1>3, <1>6, <1>7, Over
<1> QED BY <1>2, <1>8, ProgramOnly

LEMMA StartsFlash ==
  ASSUME NEW c
  PROVE  /\ Assured(Sequence("flash", c), AtEnd, Said({OFF}), {})
         /\ Assured(Sequence("flash", c), Said({OFF}), Said({ALL}), Said({OFF}))
         /\ \A i \in AllImages :
              Assured(Sequence("flash", c), Said({OFF}), {<<LOAD, i>>}, Said({ALL}))
<1> DEFINE off   == <<C(OFF)>>
           down  == <<C("SYStem.Down")>>
           up    == <<C("SYStem.Up")>>
           enter == FlashStart(c) \o AllOn
           loads == Loads(LOAD)
<1>1. /\ off \in Seq(Commands) /\ down \in Seq(Said({"SYStem.Down"}))
      /\ up \in Seq(Said({"SYStem.Up"})) /\ FlashEnd = (off \o down) \o up
      /\ C(OFF) \in Commands
  BY LongParts, SaidSeq, CommandType DEF OFF, Texts
<1>2. /\ enter \in Seq(Commands) /\ enter \o loads \in Seq(Commands)
      /\ enter \o loads \in Seq(Said(StartWords \cup {ALL, LOAD}))
      /\ (enter \o loads) \o FlashEnd \in Seq(Commands)
      /\ program(c) = ((enter \o loads) \o FlashEnd) \o Clock(c)
      /\ loads \in Seq(Said({LOAD})) /\ loads \in Seq(Commands)
      /\ FlashStart(c) \in Seq(Said(StartWords)) /\ AllOn \in Seq(Commands)
      /\ FlashEnd \in Seq(Said(EndWords)) /\ FlashEnd \in Seq(Commands)
      /\ Clock(c) \in Seq(Said({"SYStem.JtagClock"}))
  BY Programs, LongParts, Parts, SaidSeq
<1>3. /\ off \o down \in Seq(Commands)
  BY <1>1, SaidSeq, ConcatProperties
<1>4. Safe(off, Said({OFF}), Said({ALL}), Said({OFF})) /\ Assured(off, AtEnd, Said({OFF}), {})
  <2>1. End \notin Said({OFF})
    BY SaidWord
  <2>2. OFF \in Texts /\ OFF \in {OFF}
    BY DEF OFF, Texts
  <2> QED BY <1>1, <2>1, <2>2, OneIsSafe, BroughtAtEnd
<1>5. End \in AtEnd /\ End \notin Said({OFF})
  BY SaidWord DEF AtEnd
<1> HIDE DEF off, down, up, enter, loads
<1>6. Assured(Sequence("flash", c), AtEnd, Said({OFF}), {})
  <2>1. Assured((off \o down) \o up, AtEnd, Said({OFF}), {})
    <3>1. Assured(off \o down, AtEnd, Said({OFF}), {})
      BY <1>1, <1>4, <1>5, SaidNotEnd, Stays
    <3> QED BY <1>1, <1>3, <1>5, <3>1, SaidNotEnd, Stays
  <2>2. Assured((enter \o loads) \o FlashEnd, AtEnd, Said({OFF}), {})
    BY <1>1, <1>2, <2>1, SaidNotEnd, Later
  <2>3. Assured(program(c), AtEnd, Said({OFF}), {})
    <3>1. /\ Said({"SYStem.JtagClock"}) \cap {} = {}
          /\ Said({"SYStem.JtagClock"}) \in SUBSET Commands
      BY SaidNotEnd
    <3> QED BY <1>2, <1>5, <2>2, <3>1, Stays
  <2> QED BY <2>3, ProgramLast
<1>7. Assured(Sequence("flash", c), Said({OFF}), Said({ALL}), Said({OFF}))
  <2>1. Assured(enter, AtEnd, Said({ALL}), Said({OFF}))
    <3>1. Assured(AllOn, AtEnd, Said({ALL}), Said({OFF}))
      <4>1. ALL \in Texts /\ ALL \in {ALL}
        BY DEF ALL, Texts
      <4> QED BY <4>1, BroughtAtEnd DEF AllOn
    <3> QED BY <1>2, <3>1, SaidNotEnd, Later DEF enter
  <2>2. Assured(enter \o loads, AtEnd, Said({ALL}), Said({OFF}))
    <3>1. {LOAD} \cap {OFF} = {}
      BY DEF LOAD, OFF
    <3>2. Said({LOAD}) \cap Said({OFF}) = {} /\ Said({LOAD}) \in SUBSET Commands
      BY <3>1, SaidApart
    <3> QED BY <1>2, <1>5, <2>1, <3>2, Stays
  <2>3. Safe(FlashEnd, Said({OFF}), Said({ALL}), Said({OFF}))
    <3>1. {"SYStem.Down"} \cap {OFF} = {} /\ {"SYStem.Up"} \cap {OFF} = {}
      BY DEF OFF
    <3>2. /\ Said({"SYStem.Down"}) \cap Said({OFF}) = {}
          /\ Said({"SYStem.Down"}) \in SUBSET Commands
          /\ Said({"SYStem.Up"}) \cap Said({OFF}) = {} /\ Said({"SYStem.Up"}) \in SUBSET Commands
      BY <3>1, SaidApart
    <3>3. Safe(off \o down, Said({OFF}), Said({ALL}), Said({OFF}))
      BY <1>1, <1>4, <1>5, <3>2, OverSafe
    <3> QED BY <1>1, <1>3, <1>5, <3>2, <3>3, OverSafe
  <2> QED BY <2>2, <2>3, AtFlashEnd DEF enter, loads
<1>8. ASSUME NEW i \in AllImages
      PROVE  Assured(Sequence("flash", c), Said({OFF}), {<<LOAD, i>>}, Said({ALL}))
  <2> DEFINE M == {<<LOAD, i>>}
  <2>1. <<LOAD, i>> \in M
    OBVIOUS
  <2> HIDE DEF M
  <2>2. Assured(loads, AtEnd, M, Said({ALL}))
    <3>1. LOAD \in LoadTexts
      BY DEF LOAD, LoadTexts
    <3>2. \A j \in AllImages : j > i => <<LOAD, j>> \notin Said({ALL})
      BY DEF Said, LOAD, ALL
    <3>3. Assured(Loads(LOAD), AtEnd, M, Said({ALL}))
      BY <2>1, <3>1, <3>2, LoadsBring
    <3> QED BY <3>3 DEF loads
  <2>3. Assured(enter \o loads, AtEnd, M, Said({ALL}))
    <3>1. enter \in Seq(Said(StartWords \cup {ALL}))
      BY LongParts, Parts, SaidConcat DEF enter
    <3> QED BY <1>2, <2>2, <3>1, SaidNotEnd, Later
  <2>4. Safe(FlashEnd, Said({OFF}), M, Said({ALL}))
    <3>1. EndWords \cap {ALL} = {}
      BY DEF EndWords, OFF, ALL
    <3>2. Said(EndWords) \cap Said({ALL}) = {} /\ Said(EndWords) \in SUBSET Commands
      BY <3>1, SaidApart
    <3> QED BY <1>2, <3>2, Harmless
  <2>5. Assured(Sequence("flash", c), Said({OFF}), M, Said({ALL}))
    BY <2>3, <2>4, AtFlashEnd DEF enter, loads
  <2> QED BY <2>5 DEF M
<1> QED BY <1>6, <1>7, <1>8
(* The JTAG clock is set again after the reset that ends the programming.  *)
LEMMA StartsClock ==
  ASSUME NEW c, "jtag_clock" \in c
  PROVE  Assured(Sequence("flash", c), AtEnd, Said({Setter["jtag_clock"]}),
                 Said(Forgets("jtag_clock")))
<1> DEFINE M == Said({"SYStem.JtagClock"})
           before == ((FlashStart(c) \o AllOn) \o Loads(LOAD)) \o FlashEnd
<1>1. Assured(Clock(c), AtEnd, M, Said(Downs))
  <2>1. "SYStem.JtagClock" \in Texts
    BY DEF Texts
  <2>2. Clock(c) = <<C("SYStem.JtagClock")>>
    BY <2>1, SaidIf DEF Clock
  <2> QED BY <2>1, <2>2, BroughtAtEnd
<1>2. /\ before \in Seq(Said(ProgramWords)) /\ program(c) = before \o Clock(c)
      /\ Clock(c) \in Seq(Commands)
  BY Programs, Parts, SaidSeq
<1> HIDE DEF M, before
<1>3. Assured(program(c), AtEnd, M, Said(Downs))
  BY <1>1, <1>2, SaidNotEnd, Later
<1>4. Said(DebugWords) \cap Said(Downs) = {}
  <2>1. DebugWords \cap Downs = {}
    BY DEF DebugWords, NoCode, Downs
  <2> QED BY <2>1, SaidApart
<1>5. Assured(Sequence("flash", c), AtEnd, M, Said(Downs))
  BY <1>3, <1>4, ProgramLast
<1>6. Setter["jtag_clock"] = "SYStem.JtagClock" /\ Forgets("jtag_clock") = Downs
  BY DEF Setter, Forgets
<1> QED BY <1>5, <1>6 DEF M

(* The system is up before setup_debug of `flash` asks.                    *)
LEMMA StartsAttached ==
  ASSUME NEW a \in {"flash", "reset"}, NEW c
  PROVE  Assured(Sequence(a, c), Said(AskWord), Said(HardUps), Said(Downs))
<1>1. CASE a = "reset"
  <2> DEFINE W == {"require_practice_idle"} \cup
                    ((ResetWords \cup {"SYStem.Mode Up"}) \cup {"SYStem.JtagClock"})
  <2>1. Sequence(a, c) \in Seq(Said(W))
    <3> DEFINE rest == (ResetStart(c) \o ModeUp) \o Clock(c)
    <3>1. rest \in Seq(Said((ResetWords \cup {"SYStem.Mode Up"}) \cup {"SYStem.JtagClock"}))
      BY Sequences
    <3> HIDE DEF rest
    <3>2. Idle \o rest \in Seq(Said(W))
      BY <3>1, Parts, SaidConcat
    <3> QED BY <1>1, <3>2, Sequences DEF rest
  <2>2. W \cap AskWord = {}
    BY DEF ResetWords, SettingWords, AskWord
  <2> HIDE DEF W
  <2>3. /\ Said(W) \cap Said(AskWord) = {} /\ Said(W) \in SUBSET Commands
        /\ End \notin Said(AskWord)
    BY <2>2, SaidApart
  <2> QED BY <2>1, <2>3, Needless
<1>2. CASE a = "flash"
  <2> DEFINE load == (FlashStart(c) \o AllOn) \o Loads(LOAD)
             halt == <<C(OFF)>> \o <<C("SYStem.Down")>>
             up   == <<C("SYStem.Up")>>
             M    == Said(HardUps)
             B    == Said(Downs)
  <2>1. /\ load \in Seq(Said(StartWords \cup {ALL, LOAD})) /\ FlashEnd = halt \o up
        /\ halt \in Seq(Said({OFF} \cup {"SYStem.Down"})) /\ up \in Seq(Commands)
        /\ FlashEnd \in Seq(Commands) /\ load \o FlashEnd \in Seq(Commands)
        /\ program(c) = (load \o FlashEnd) \o Clock(c)
        /\ Clock(c) \in Seq(Said({"SYStem.JtagClock"}))
    BY Programs, LongParts, Parts, SaidSeq, SaidConcat
  <2>2. Assured(up, AtEnd, M, B)
    <3>1. "SYStem.Up" \in Texts /\ "SYStem.Up" \in HardUps
      BY DEF Texts, HardUps
    <3> QED BY <3>1, BroughtAtEnd
  <2> HIDE DEF load, halt, up, M
  <2>3. /\ {"SYStem.JtagClock"} \cap Downs = {} /\ DebugWords \cap Downs = {}
        /\ ({"require_practice_idle"} \cup ProgramWords) \cap AskWord = {}
    BY DEF Downs, DebugWords, NoCode, ProgramWords, StartWords, EndWords, ALL, LOAD, OFF, AskWord
  <2>4. /\ Said({"SYStem.JtagClock"}) \cap B = {}
        /\ Said({"SYStem.JtagClock"}) \in SUBSET Commands
        /\ Said(DebugWords) \cap B = {} /\ Said(DebugWords) \in SUBSET Commands
    BY <2>3, SaidApart
  <2>5. /\ Said({"require_practice_idle"} \cup ProgramWords) \cap Said(AskWord) = {}
        /\ Said({"require_practice_idle"} \cup ProgramWords) \in SUBSET Commands
        /\ End \notin Said(AskWord)
    BY <2>3, SaidApart
  <2> HIDE DEF B
  <2>6. Assured(FlashEnd, AtEnd, M, B)
    BY <2>1, <2>2, SaidNotEnd, Later
  <2>7. Assured(load \o FlashEnd, AtEnd, M, B)
    BY <2>1, <2>6, SaidNotEnd, Later
  <2>8. Assured(program(c), AtEnd, M, B)
    <3>1. End \in AtEnd
      BY DEF AtEnd
    <3> QED BY <2>1, <2>4, <2>7, <3>1, Stays
  <2>9. Assured(Idle \o program(c), AtEnd, M, B)
    BY <2>8, FlashParts, SaidNotEnd, Later
  <2>10. Assured(Idle \o program(c), Said(AskWord) \ AtEnd, M, B)
    <3>1. /\ Said({"require_practice_idle"} \cup ProgramWords) \cap (Said(AskWord) \ AtEnd) = {}
          /\ End \notin Said(AskWord) \ AtEnd
      BY <2>5
    <3> QED BY <2>5, <3>1, Sequences, Needless
  <2>11. Safe(setup_debug, Said(AskWord), M, B)
    BY <2>4, FlashParts, Harmless
  <2>12. Assured((Idle \o program(c)) \o setup_debug, Said(AskWord), M, B)
    BY <2>9, <2>10, <2>11, FlashParts, Meets
  <2> QED BY <1>2, <2>12, FlashParts DEF M, B
<1> QED BY <1>1, <1>2

(* Only settings of the project file are made.                             *)
LEMMA SaidAllowed ==
  ASSUME NEW c, NEW W, NEW s \in Seq(Said(W)),
         W \cap {"SYStem.CPU", "SYStem.MemAccess", "CORE.ASSIGN", "SYStem.JtagClock"} = {}
  PROVE  s \in Seq(Allowed(c))
<1>1. \A o \in Options :
        Setter[o] \in {"SYStem.CPU", "SYStem.MemAccess", "CORE.ASSIGN", "SYStem.JtagClock"}
  BY OptionsAssumption DEF Setter
<1>2. Said(W) \subseteq Allowed(c)
  BY <1>1 DEF Said, Allowed
<1> QED BY <1>2, SubSequences

LEMMA IfAllowed ==
  ASSUME NEW c, NEW option \in Options
  PROVE  If(option, Setter[option], c) \in Seq(Allowed(c))
<1>1. Setter[option] \in Texts
  <2>1. /\ Setter["cpu"] \in Texts /\ Setter["mem_access"] \in Texts
        /\ Setter["cores"] \in Texts /\ Setter["jtag_clock"] \in Texts
    BY DEF Setter, Texts
  <2> QED BY <2>1, OptionsAssumption
<1>2. \A o \in Options : Setter[o] = Setter[option] => o = option
  BY OptionsAssumption DEF Setter
<1> DEFINE d == C(Setter[option])
<1>3. d \in Commands /\ d[1] = Setter[option]
  BY <1>1, CommandType
<1> HIDE DEF d
<1>4. CASE option \in c
  <2>1. d \in Allowed(c)
    BY <1>2, <1>3, <1>4 DEF Allowed
  <2>2. <<d>> \in Seq(Allowed(c))
    BY <2>1
  <2> QED BY <1>4, <2>2 DEF If, d
<1>5. CASE option \notin c
  BY <1>5, EmptySeq DEF If
<1> QED BY <1>4, <1>5

LEMMA SettingsAllowed ==
  ASSUME NEW c
  PROVE  SettingCommands(c) \in Seq(Allowed(c)) /\ Clock(c) \in Seq(Allowed(c))
<1> DEFINE cpu   == If("cpu", "SYStem.CPU", c)
           acc   == If("mem_access", "SYStem.MemAccess", c)
           cores == If("cores", "CORE.ASSIGN", c)
<1>1. /\ Setter["cpu"] = "SYStem.CPU" /\ Setter["mem_access"] = "SYStem.MemAccess"
      /\ Setter["cores"] = "CORE.ASSIGN" /\ Setter["jtag_clock"] = "SYStem.JtagClock"
  BY DEF Setter
<1>2. /\ cpu \in Seq(Allowed(c)) /\ acc \in Seq(Allowed(c)) /\ cores \in Seq(Allowed(c))
      /\ Clock(c) \in Seq(Allowed(c))
  BY <1>1, IfAllowed, OptionsAssumption DEF Clock
<1> HIDE DEF cpu, acc, cores
<1>3. (cpu \o acc) \o cores \in Seq(Allowed(c))
  BY <1>2, ConcatProperties
<1> QED BY <1>2, <1>3 DEF SettingCommands, cpu, acc, cores

LEMMA AttachAllowed ==
  ASSUME NEW c
  PROVE  attach_commands(c) \in Seq(Allowed(c))
<1> DEFINE down == <<C("SYStem.Mode Down")>>
           up   == <<C("SYStem.Mode Attach")>>
<1>1. down \in Seq(Said({"SYStem.Mode Down"})) /\ up \in Seq(Said({"SYStem.Mode Attach"}))
  BY SaidOne DEF Texts
<1> HIDE DEF down, up
<1>2. down \in Seq(Allowed(c)) /\ up \in Seq(Allowed(c))
  BY <1>1, SaidAllowed
<1>3. (down \o SettingCommands(c)) \o up \in Seq(Allowed(c))
  BY <1>2, SettingsAllowed, ConcatProperties
<1> QED BY <1>3 DEF attach_commands, down, up

LEMMA StartsAllowed ==
  ASSUME NEW a \in Actions, NEW c
  PROVE  Sequence(a, c) \in Seq(Allowed(c))
<1> DEFINE setters == {"SYStem.CPU", "SYStem.MemAccess", "CORE.ASSIGN", "SYStem.JtagClock"}
           S == Allowed(c)
<1>1. Idle \in Seq(S)
  BY Parts, SaidAllowed
<1>2. setup_debug \in Seq(S)
  <2>1. DebugWords \cap setters = {}
    BY DEF DebugWords, NoCode
  <2> QED BY <2>1, Debugs, SaidAllowed
<1>3. ModeUp \in Seq(S) /\ AskUp \in Seq(S) /\ <<C("Break")>> \in Seq(S)
  BY Parts, Sequences, SaidAllowed
<1>4. program(c) \in Seq(S)
  <2> DEFINE up   == <<C("system_up, then Down")>>
  <2>1. up \in Seq(S) /\ cmm \in Seq(S)
    BY LongParts, SaidAllowed
  <2>2. AllOn \in Seq(S) /\ Loads(LOAD) \in Seq(S) /\ FlashEnd \in Seq(S)
    <3>1. {ALL} \cap setters = {} /\ {LOAD} \cap setters = {} /\ EndWords \cap setters = {}
      BY DEF ALL, LOAD, EndWords, OFF
    <3> QED BY <3>1, Parts, LongParts, SaidAllowed
  <2>3. FlashStart(c) = (up \o cmm) \o Clock(c)
    BY DEF FlashStart
  <2> HIDE DEF up, S
  <2>4. FlashStart(c) \in Seq(S)
    BY <2>1, <2>3, SettingsAllowed, ConcatProperties DEF S
  <2>5. (FlashStart(c) \o AllOn) \o Loads(LOAD) \in Seq(S)
    BY <2>2, <2>4, ConcatProperties
  <2>6. ((FlashStart(c) \o AllOn) \o Loads(LOAD)) \o FlashEnd \in Seq(S)
    BY <2>2, <2>5, ConcatProperties
  <2> QED BY <2>6, Programs, SettingsAllowed, ConcatProperties DEF S
<1>5. (ResetStart(c) \o ModeUp) \o Clock(c) \in Seq(S)
  <2> DEFINE down == <<C("SYStem.Down"), C("SYStem.RESet")>>
  <2>1. down \in Seq(S)
    <3>1. /\ <<C("SYStem.Down")>> \in Seq(Said({"SYStem.Down"}))
          /\ <<C("SYStem.RESet")>> \in Seq(Said({"SYStem.RESet"}))
          /\ C("SYStem.Down") \in Commands /\ C("SYStem.RESet") \in Commands
      BY SaidOne DEF Texts
    <3>2. <<C("SYStem.Down")>> \in Seq(S) /\ <<C("SYStem.RESet")>> \in Seq(S)
      BY <3>1, SaidAllowed
    <3>3. down = <<C("SYStem.Down")>> \o <<C("SYStem.RESet")>>
      BY <3>1, PairConcat
    <3> HIDE DEF S, down
    <3> QED BY <3>2, <3>3, ConcatProperties
  <2>2. ResetStart(c) = down \o SettingCommands(c)
    BY DEF ResetStart
  <2> HIDE DEF down, S
  <2>3. ResetStart(c) \o ModeUp \in Seq(S)
    BY <1>3, <2>1, <2>2, SettingsAllowed, ConcatProperties DEF S
  <2> QED BY <2>3, SettingsAllowed, ConcatProperties DEF S
<1> HIDE DEF S
<1>6. CASE a = "flash"
  <2>1. Idle \o program(c) \in Seq(S)
    BY <1>1, <1>4, ConcatProperties
  <2> QED BY <1>2, <1>6, <2>1, Sequences, ConcatProperties DEF S
<1>7. CASE a = "load"
  BY <1>1, <1>2, <1>7, Sequences, ConcatProperties DEF S
<1>8. CASE a = "reset"
  BY <1>1, <1>5, <1>8, Sequences, ConcatProperties DEF S
<1>9. CASE a = "attach"
  BY <1>3, <1>9, Sequences DEF S
<1>10. CASE a = "reset_and_stop"
  BY <1>3, <1>10, Sequences, ConcatProperties DEF S
<1> QED BY <1>6, <1>7, <1>8, <1>9, <1>10 DEF Actions
-----------------------------------------------------------------------------
(* `flash`: the script that resets the chip.                                *)

(* The other sequences start no script and do not erase.                   *)
LEMMA NoScript ==
  ASSUME NEW a \in Actions \ {"flash"}, NEW c, NEW M, NEW B,
         NEW X \in SUBSET {"depth_before", "DO", "wait", ALL}
  PROVE  Assured(Sequence(a, c), Said(X), M, B)
<1> DEFINE W == {"require_practice_idle"} \cup DebugWords
           V == {"require_practice_idle"} \cup
                  ((ResetWords \cup {"SYStem.Mode Up"}) \cup {"SYStem.JtagClock"})
           U == {"Break"} \cup {"SYStem.Mode Up"}
<1>1. /\ W \cap X = {} /\ V \cap X = {} /\ U \cap X = {}
      /\ {"system_up, else attach"} \cap X = {}
  BY DEF DebugWords, NoCode, ResetWords, SettingWords, ALL
<1>2. \/ Sequence(a, c) \in Seq(Said(W)) \/ Sequence(a, c) \in Seq(Said(V))
      \/ Sequence(a, c) \in Seq(Said(U)) \/ Sequence(a, c) \in Seq(Said({"system_up, else attach"}))
  <2>1. CASE a = "load"
    <3>1. Idle \o setup_debug \in Seq(Said(W))
      BY Parts, Debugs, SaidConcat
    <3> QED BY <2>1, <3>1, Sequences
  <2>2. CASE a = "reset"
    <3> DEFINE rest == (ResetStart(c) \o ModeUp) \o Clock(c)
    <3>1. rest \in Seq(Said((ResetWords \cup {"SYStem.Mode Up"}) \cup {"SYStem.JtagClock"}))
      BY Sequences
    <3> HIDE DEF rest
    <3>2. Idle \o rest \in Seq(Said(V))
      BY <3>1, Parts, SaidConcat
    <3> QED BY <2>2, <3>2, Sequences DEF rest
  <2>3. CASE a = "attach"
    BY <2>3, Sequences, Parts
  <2>4. CASE a = "reset_and_stop"
    <3>1. <<C("Break")>> \o ModeUp \in Seq(Said(U))
      BY Sequences, Parts, SaidConcat
    <3> QED BY <2>4, <3>1, Sequences
  <2> QED BY <2>1, <2>2, <2>3, <2>4 DEF Actions
<1> HIDE DEF W, V, U
<1>3. /\ Said(W) \cap Said(X) = {} /\ Said(W) \in SUBSET Commands
      /\ Said(V) \cap Said(X) = {} /\ Said(V) \in SUBSET Commands
      /\ Said(U) \cap Said(X) = {} /\ Said(U) \in SUBSET Commands
      /\ End \notin Said(X)
  BY <1>1, SaidApart
<1>4. /\ Said({"system_up, else attach"}) \cap Said(X) = {}
      /\ Said({"system_up, else attach"}) \in SUBSET Commands
  BY <1>1, SaidApart
<1> QED BY <1>2, <1>3, <1>4, Needless

(* The commands of the program after its script, in parts.                 *)
LEMMA AfterScript ==
  ASSUME NEW c, NEW X \in SUBSET {"depth_before", "DO", "wait"}, NEW M, NEW B,
         Assured(<<C("system_up, then Down")>> \o cmm, Said(X), M, B)
  PROVE  Assured(Sequence("flash", c), Said(X), M, B)
<1> DEFINE first == <<C("system_up, then Down")>> \o cmm
           start == first \o Clock(c)
           enter == start \o AllOn
           load  == enter \o Loads(LOAD)
           leave == load \o FlashEnd
<1>1. /\ program(c) = leave \o Clock(c)
      /\ first \in Seq(Commands) /\ start \in Seq(Commands) /\ enter \in Seq(Commands)
      /\ load \in Seq(Commands) /\ leave \in Seq(Commands)
  <2>1. first \in Seq(Commands)
    BY LongParts, SaidSeq, ConcatProperties
  <2> QED BY <2>1, Programs, LongParts, SaidSeq DEF FlashStart
<1>2. /\ {"SYStem.JtagClock"} \cap X = {} /\ {ALL} \cap X = {} /\ {LOAD} \cap X = {}
      /\ EndWords \cap X = {} /\ X \cap ({"require_practice_idle"} \cup DebugWords) = {}
  BY DEF ALL, LOAD, OFF, EndWords, DebugWords, NoCode
<1>3. /\ Said({"SYStem.JtagClock"}) \cap Said(X) = {}
      /\ Said({"SYStem.JtagClock"}) \in SUBSET Commands
      /\ Said({ALL}) \cap Said(X) = {} /\ Said({ALL}) \in SUBSET Commands
      /\ Said({LOAD}) \cap Said(X) = {} /\ Said({LOAD}) \in SUBSET Commands
      /\ Said(EndWords) \cap Said(X) = {} /\ Said(EndWords) \in SUBSET Commands
      /\ End \notin Said(X)
  BY <1>2, SaidApart
<1>4. /\ Clock(c) \in Seq(Said({"SYStem.JtagClock"})) /\ AllOn \in Seq(Said({ALL}))
      /\ Loads(LOAD) \in Seq(Said({LOAD})) /\ FlashEnd \in Seq(Said(EndWords))
  BY Parts, LongParts
<1> HIDE DEF first
<1>5. Assured(start, Said(X), M, B)
  BY <1>1, <1>3, <1>4, Over DEF first
<1> HIDE DEF start
<1>6. Assured(enter, Said(X), M, B)
  BY <1>1, <1>3, <1>4, <1>5, Over
<1> HIDE DEF enter
<1>7. Assured(load, Said(X), M, B)
  BY <1>1, <1>3, <1>4, <1>6, Over
<1> HIDE DEF load
<1>8. Assured(leave, Said(X), M, B)
  BY <1>1, <1>3, <1>4, <1>7, Over
<1> HIDE DEF leave
<1>9. Assured(program(c), Said(X), M, B)
  BY <1>1, <1>3, <1>4, <1>8, Over
<1> QED BY <1>2, <1>9, ProgramOnly

(* The depth is taken before the wait; the target is down before DO.       *)
LEMMA StartsScript ==
  ASSUME NEW c
  PROVE  /\ Assured(Sequence("flash", c), Said({"wait"}), Said({"depth_before"}), {})
         /\ Assured(Sequence("flash", c), Said({"DO"}), Said(Lowers), Said(Ups \cup Frees))
<1> DEFINE up   == <<C("system_up, then Down")>>
           db   == <<C("depth_before")>>
           do   == <<C("DO")>>
           wait == <<C("wait")>>
<1>1. /\ up \in Seq(Said({"system_up, then Down"})) /\ cmm = (db \o do) \o wait
      /\ db \in Seq(Said({"depth_before"})) /\ do \in Seq(Said({"DO"}))
      /\ wait \in Seq(Said({"wait"})) /\ db \o do \in Seq(Said({"depth_before"} \cup {"DO"}))
  BY LongParts, SaidConcat
<1>2. /\ up \in Seq(Commands) /\ db \in Seq(Commands) /\ wait \in Seq(Commands)
      /\ db \o do \in Seq(Commands) /\ cmm \in Seq(Commands)
  BY <1>1, LongParts, SaidSeq
<1>3. /\ {"system_up, then Down"} \cap {"wait"} = {} /\ {"system_up, then Down"} \cap {"DO"} = {}
      /\ ({"depth_before"} \cup {"DO"}) \cap {"wait"} = {}
      /\ ({"depth_before"} \cup {"DO"}) \cap (Ups \cup Frees) = {}
  BY DEF Ups, HardUps, Frees
<1>4. End \notin Said({"wait"}) /\ End \notin Said({"DO"}) /\ End \in AtEnd
  BY SaidWord DEF AtEnd
<1>5. Assured(db, AtEnd, Said({"depth_before"}), {})
  <2>1. "depth_before" \in Texts /\ "depth_before" \in {"depth_before"}
    BY DEF Texts
  <2> QED BY <2>1, BroughtAtEnd
<1>6. Assured(up, AtEnd, Said(Lowers), Said(Ups \cup Frees))
  <2>1. "system_up, then Down" \in Texts \cap Lowers
    BY DEF Texts, Lowers
  <2> QED BY <2>1, BroughtAtEnd
<1>7. Safe(wait, Said({"wait"}), Said({"depth_before"}), {})
  BY <1>4, CommandType, OneIsSafe DEF Texts
<1> HIDE DEF up, db, do, wait
<1>8. Assured(up \o cmm, Said({"wait"}), Said({"depth_before"}), {})
  <2>1. Assured(db \o do, AtEnd, Said({"depth_before"}), {})
    <3>1. Said({"DO"}) \cap {} = {} /\ Said({"DO"}) \in SUBSET Commands
      BY SaidNotEnd
    <3> QED BY <1>1, <1>2, <1>4, <1>5, <3>1, Stays
  <2>2. Assured(db \o do, Said({"wait"}) \ AtEnd, Said({"depth_before"}), {})
    <3>1. /\ Said({"depth_before"} \cup {"DO"}) \cap Said({"wait"}) = {}
          /\ Said({"depth_before"} \cup {"DO"}) \in SUBSET Commands
      BY <1>3, SaidApart
    <3>2. /\ Said({"depth_before"} \cup {"DO"}) \cap (Said({"wait"}) \ AtEnd) = {}
          /\ End \notin Said({"wait"}) \ AtEnd
      BY <1>4, <3>1
    <3> QED BY <1>1, <3>1, <3>2, Needless
  <2>3. Assured(cmm, Said({"wait"}), Said({"depth_before"}), {})
    BY <1>1, <1>2, <1>7, <2>1, <2>2, Meets
  <2>4. /\ Said({"system_up, then Down"}) \cap Said({"wait"}) = {}
        /\ Said({"system_up, then Down"}) \in SUBSET Commands
    BY <1>3, SaidApart
  <2> QED BY <1>1, <1>2, <2>3, <2>4, Later
<1>9. Assured(up \o cmm, Said({"DO"}), Said(Lowers), Said(Ups \cup Frees))
  <2>1. Safe(db \o do, Said({"DO"}), Said(Lowers), Said(Ups \cup Frees))
    <3>1. /\ Said({"depth_before"} \cup {"DO"}) \cap Said(Ups \cup Frees) = {}
          /\ Said({"depth_before"} \cup {"DO"}) \in SUBSET Commands
      BY <1>3, SaidApart
    <3> QED BY <1>1, <3>1, Harmless
  <2>2. Safe(cmm, Said({"DO"}), Said(Lowers), Said(Ups \cup Frees))
    <3>1. {"wait"} \cap {"DO"} = {}
      OBVIOUS
    <3>2. Said({"wait"}) \cap Said({"DO"}) = {} /\ Said({"wait"}) \in SUBSET Commands
      BY <3>1, SaidApart
    <3> QED BY <1>1, <1>2, <1>4, <2>1, <3>2, OverSafe
  <2>3. Assured(up, Said({"DO"}) \ AtEnd, Said(Lowers), Said(Ups \cup Frees))
    <3>1. /\ Said({"system_up, then Down"}) \cap Said({"DO"}) = {}
          /\ Said({"system_up, then Down"}) \in SUBSET Commands
      BY <1>3, SaidApart
    <3>2. /\ Said({"system_up, then Down"}) \cap (Said({"DO"}) \ AtEnd) = {}
          /\ End \notin Said({"DO"}) \ AtEnd
      BY <1>4, <3>1
    <3> QED BY <1>1, <3>1, <3>2, Needless
  <2> QED BY <1>2, <1>6, <2>2, <2>3, Meets
<1> QED BY <1>8, <1>9, AfterScript DEF up

(* PowerView is idle before the script starts and before the erase.        *)
LEMMA StartsIdle ==
  ASSUME NEW c
  PROVE  Assured(Sequence("flash", c), Said(ScriptNeeds), Said(Frees), Said({"DO"}))
<1> DEFINE up   == <<C("system_up, then Down")>>
           db   == <<C("depth_before")>>
           do   == <<C("DO")>>
           wait == <<C("wait")>>
           X == Said(ScriptNeeds)
           M == Said(Frees)
           B == Said({"DO"})
           first == up \o cmm
           start == FlashStart(c)
           enter == start \o AllOn
           load  == enter \o Loads(LOAD)
           leave == load \o FlashEnd
<1>1. /\ up \in Seq(Said({"system_up, then Down"})) /\ cmm = (db \o do) \o wait
      /\ db \in Seq(Said({"depth_before"})) /\ do \in Seq(Said({"DO"}))
      /\ wait \in Seq(Said({"wait"})) /\ db \o do \in Seq(Said({"depth_before"} \cup {"DO"}))
      /\ start = first \o Clock(c) /\ start \in Seq(Said(StartWords))
      /\ Clock(c) \in Seq(Said({"SYStem.JtagClock"})) /\ AllOn \in Seq(Said({ALL}))
      /\ Loads(LOAD) \in Seq(Said({LOAD})) /\ FlashEnd \in Seq(Said(EndWords))
  BY LongParts, Parts, SaidConcat DEF FlashStart
<1>2. /\ up \in Seq(Commands) /\ db \in Seq(Commands) /\ wait \in Seq(Commands)
      /\ do \in Seq(Commands)
      /\ db \o do \in Seq(Commands) /\ cmm \in Seq(Commands) /\ first \in Seq(Commands)
      /\ start \in Seq(Commands) /\ AllOn \in Seq(Commands)
  <2>1. /\ up \in Seq(Commands) /\ db \in Seq(Commands) /\ wait \in Seq(Commands)
        /\ do \in Seq(Commands) /\ start \in Seq(Commands) /\ AllOn \in Seq(Commands)
        /\ db \o do \in Seq(Commands) /\ cmm \in Seq(Commands)
    BY <1>1, LongParts, SaidSeq
  <2> QED BY <2>1, ConcatProperties
<1>3. /\ program(c) = leave \o Clock(c) /\ enter \in Seq(Commands)
      /\ load \in Seq(Commands) /\ leave \in Seq(Commands)
  BY Programs
<1>4. End \notin X /\ End \in AtEnd
  BY SaidWord DEF AtEnd
<1>5. /\ {"wait"} \cap ScriptNeeds = {} /\ {"SYStem.JtagClock"} \cap ScriptNeeds = {}
      /\ {LOAD} \cap ScriptNeeds = {} /\ EndWords \cap ScriptNeeds = {}
      /\ DebugWords \cap ScriptNeeds = {} /\ {"require_practice_idle"} \cap ScriptNeeds = {}
      /\ {"depth_before"} \cap {"DO"} = {} /\ {"system_up, then Down"} \cap {"DO"} = {}
      /\ {"SYStem.JtagClock"} \cap {"DO"} = {}
  BY DEF ScriptNeeds, ALL, LOAD, EndWords, OFF, DebugWords, NoCode
<1>6. /\ Said({"wait"}) \cap X = {} /\ Said({"wait"}) \in SUBSET Commands
      /\ Said({"SYStem.JtagClock"}) \cap X = {} /\ Said({"SYStem.JtagClock"}) \in SUBSET Commands
      /\ Said({LOAD}) \cap X = {} /\ Said({LOAD}) \in SUBSET Commands
      /\ Said(EndWords) \cap X = {} /\ Said(EndWords) \in SUBSET Commands
      /\ Said(DebugWords) \cap X = {} /\ Said(DebugWords) \in SUBSET Commands
      /\ Said({"require_practice_idle"}) \cap X = {}
      /\ Said({"require_practice_idle"}) \in SUBSET Commands
  BY <1>5, SaidApart
<1>7. /\ Said({"depth_before"}) \cap B = {} /\ Said({"depth_before"}) \in SUBSET Commands
      /\ Said({"system_up, then Down"}) \cap B = {}
      /\ Said({"system_up, then Down"}) \in SUBSET Commands
      /\ Said({"SYStem.JtagClock"}) \cap B = {}
  BY <1>5, SaidApart
<1>8. Assured(wait, AtEnd, M, B)
  <2>1. "wait" \in Texts /\ "wait" \in Frees
    BY DEF Texts, Frees
  <2> QED BY <2>1, BroughtAtEnd
<1>9. Safe(db, X, M, B) /\ Safe(do, X, M, B) /\ Safe(AllOn, X, M, B)
  <2>1. C("depth_before") \in Commands /\ C("DO") \in Commands /\ C(ALL) \in Commands
    BY CommandType DEF Texts, ALL
  <2> QED BY <1>4, <2>1, OneIsSafe DEF AllOn
<1>10. Assured(Idle, AtEnd, M, B)
  <2>1. "require_practice_idle" \in Texts /\ "require_practice_idle" \in Frees
    BY DEF Texts, Frees
  <2> QED BY <2>1, BroughtAtEnd DEF Idle
<1> HIDE DEF up, db, do, wait, X, M, B
<1>11. Safe(cmm, X, M, B) /\ Assured(cmm, AtEnd, M, B)
  <2>1. Safe(db \o do, X, M, B)
    BY <1>1, <1>2, <1>7, <1>9, LaterSafe
  <2>2. Safe((db \o do) \o wait, X, M, B)
    BY <1>1, <1>2, <1>4, <1>6, <2>1, OverSafe
  <2>3. Assured((db \o do) \o wait, AtEnd, M, B)
    BY <1>1, <1>2, <1>8, SaidNotEnd, Later
  <2> QED BY <1>1, <2>2, <2>3
<1>12. Safe(first, X, M, B) /\ Assured(first, AtEnd, M, B)
  BY <1>1, <1>2, <1>7, <1>11, SaidNotEnd, LaterSafe, Later
<1> HIDE DEF first
<1>13. Safe(start, X, M, B) /\ Assured(start, AtEnd, M, B)
  BY ZenonT(30), <1>1, <1>2, <1>4, <1>6, <1>7, <1>12, OverSafe, Stays
<1> HIDE DEF start
<1>14. Safe(enter, X, M, B)
  <2>1. Safe(start, X \ AtEnd, M, B) /\ Safe(start, AtEnd, M, B)
    BY <1>13, AssuredIsSafe DEF Safe
  <2> QED BY <1>2, <1>9, <2>1, FrontHolds
<1> HIDE DEF enter
<1>15. Safe(load, X, M, B)
  BY <1>1, <1>3, <1>4, <1>6, <1>14, OverSafe
<1> HIDE DEF load
<1>16. Safe(leave, X, M, B)
  BY <1>1, <1>3, <1>4, <1>6, <1>15, OverSafe
<1> HIDE DEF leave
<1>17. Safe(program(c), X, M, B)
  BY <1>1, <1>3, <1>4, <1>6, <1>16, OverSafe
<1>18. Assured(Idle \o program(c), X, M, B)
  <2>1. Assured(Idle, X \ AtEnd, M, B)
    <3>1. /\ Said({"require_practice_idle"}) \cap (X \ AtEnd) = {} /\ End \notin X \ AtEnd
      BY <1>4, <1>6
    <3> QED BY <1>6, <3>1, FlashParts, Needless
  <2> QED BY <1>10, <1>17, <2>1, FlashParts, Meets
<1>19. Assured((Idle \o program(c)) \o setup_debug, X, M, B)
  BY <1>4, <1>6, <1>18, FlashParts, Over
<1> QED BY <1>19, FlashParts DEF X, M, B
-----------------------------------------------------------------------------
(* The steps.                                                              *)

LEMMA ReadyInitially == SequenceInit => ReadyInv
<1> SUFFICES ASSUME SequenceInit PROVE ReadyInv
  OBVIOUS
<1>1. /\ action \in Actions /\ todo = Sequence(action, config) /\ config \in SUBSET Options
      /\ outcome = "none" /\ settings \in {{}, config}
  BY DEF SequenceInit
<1>2. UpAtEnd
  BY <1>1, StartsUp, AssuredIsSafe DEF UpAtEnd, Holds
<1>3. RunsAtEnd
  BY <1>1, StartsRunning, AssuredIsSafe DEF RunsAtEnd, Holds
<1>4. SymbolsAtEnd
  BY <1>1, StartsSymbols, AssuredIsSafe DEF SymbolsAtEnd, Holds
<1>5. HaltedAtEnd
  BY <1>1, StartsHalted, AssuredIsSafe DEF HaltedAtEnd, Holds
<1>6. FlashAtEnd
  BY <1>1, StartsFlash, AssuredIsSafe DEF FlashAtEnd, Holds
<1>7. SettingsAtEnd
  <2>1. settings \subseteq config /\ todo \in Seq(Allowed(config))
    BY <1>1, StartsAllowed
  <2>2. ASSUME NEW o \in config, action = "reset" \/ (action = "flash" /\ o = "jtag_clock")
        PROVE  Assured(todo, AtEnd, Said({Setter[o]}), Said(Forgets(o)))
    <3>1. CASE action = "reset"
      BY <1>1, <3>1, StartsSettings
    <3>2. CASE action = "flash" /\ o = "jtag_clock"
      BY <1>1, <3>2, StartsClock
    <3> QED BY <2>2, <3>1, <3>2
  <2> QED BY <2>1, <2>2, AssuredIsSafe DEF SettingsAtEnd, Holds
<1>8. NoAttach
  BY <1>1, StartsAttached, AssuredIsSafe DEF NoAttach, Holds
<1>9. ScriptReady
  <2>1. /\ Assured(todo, Said(ScriptNeeds), Said(Frees), Said({"DO"}))
        /\ Assured(todo, Said({"wait"}), Said({"depth_before"}), {})
        /\ Assured(todo, Said({"DO"}), Said(Lowers), Said(Ups \cup Frees))
    <3>1. CASE action = "flash"
      BY <1>1, <3>1, StartsScript, StartsIdle
    <3>2. CASE action # "flash"
      <4>1. /\ ScriptNeeds \in SUBSET {"depth_before", "DO", "wait", ALL}
            /\ {"wait"} \in SUBSET {"depth_before", "DO", "wait", ALL}
            /\ {"DO"} \in SUBSET {"depth_before", "DO", "wait", ALL}
        BY DEF ScriptNeeds
      <4> QED BY <1>1, <3>2, <4>1, NoScript
    <3> QED BY <3>1, <3>2
  <2> QED BY <2>1, AssuredIsSafe DEF ScriptReady, Holds
<1>10. outcome # "success"
  BY <1>1
<1> QED BY <1>2, <1>3, <1>4, <1>5, <1>6, <1>7, <1>8, <1>9, <1>10 DEF ReadyInv, Ready

(* A command sent, or a question that puts no command in front: what it    *)
(* brings about is so then, and what it does not undo stays so.            *)
Advances ==
  /\ todo # <<>> /\ todo' = Tail(todo) /\ action' = action /\ config' = config
  /\ command \in Ups \/ (mode = "up" /\ command \notin Downs) => mode' = "up"
  /\ command \in Goes \/ (running /\ command \notin RunEnders) => running'
  /\ command \in Halts \/ (~running /\ command \notin HaltEnders) => ~running'
  /\ \A i \in AllImages :
       todo[1] \in LoadOf(i) \/ (i \in symbols /\ todo[1] \notin Replaces(i)) => i \in symbols'
  /\ action = "flash" /\ (command = OFF \/ flash = AllImages) => flash' = AllImages
  /\ command = ALL \/ (reprogram /\ command # OFF) => reprogram'
  /\ \A i \in AllImages :
       todo[1] = <<LOAD, i>> \/ (i \in programmed /\ command # ALL) => i \in programmed'
  /\ settings' \subseteq config
  /\ \A o \in config :
       command = Setter[o] \/ (o \in settings /\ command \notin Forgets(o)) => o \in settings'

ScriptAdvances ==
  /\ todo # <<>> /\ todo' = Tail(todo)
  /\ command \in Frees \/ (stack = <<>> /\ command # "DO") => stack' = <<>>
  /\ command = "depth_before" \/ depth = 0 => depth' = 0
  /\ command \in Lowers \/ (mode = "down" /\ command \notin Ups \cup Frees) => mode' = "down"

LEMMA OneLess ==
  ASSUME NEW s \in Seq(Commands), s # <<>>, NEW X, NEW M, NEW B, Safe(s, X, M, B)
  PROVE  /\ Safe(Tail(s), X, M, B)
         /\ Assured(s, X, M, B) \/ s[1] \in B => s[1] \in M \/ Assured(Tail(s), X, M, B)
BY TailHolds

LEMMA HeadWord ==
  ASSUME SequenceTypeOK, todo # <<>>, NEW texts
  PROVE  todo[1] \in Commands /\ (todo[1] \in Said(texts) <=> command \in texts)
<1>1. todo[1] \in Commands
  <2>1. todo \in Seq(Commands) /\ Len(todo) \in Nat /\ Len(todo) # 0
    BY LenProperties, EmptySeq DEF SequenceTypeOK
  <2> QED BY <2>1, ElementOfSeq
<1> QED BY <1>1, SaidWord DEF command

LEMMA AdvanceReady ==
  ASSUME SequenceTypeOK, Ready, Advances
  PROVE  Ready'
<1> USE DEF Holds
<1>1. todo \in Seq(Commands) /\ todo # <<>> /\ todo' = Tail(todo) /\ action' = action
      /\ config' = config
  BY DEF SequenceTypeOK, Advances
<1>2. ASSUME NEW X, NEW M, NEW B, Safe(todo, X, M, B)
      PROVE  /\ Safe(todo', X, M, B)
             /\ Assured(todo, X, M, B) \/ todo[1] \in B =>
                  todo[1] \in M \/ Assured(todo', X, M, B)
  BY <1>1, <1>2, OneLess
<1>3. ASSUME NEW texts PROVE todo[1] \in Said(texts) <=> command \in texts
  BY <1>1, HeadWord
<1>4. UpAtEnd'
  <2>1. todo[1] \in Said(Ups) => mode' = "up"
    BY <1>3 DEF Advances
  <2>2. mode = "up" /\ todo[1] \notin Said(Downs) => mode' = "up"
    BY <1>3 DEF Advances
  <2>3. Safe(todo, UpWords, Said(Ups), Said(Downs))
        /\ (mode = "up" \/ Assured(todo, UpWords, Said(Ups), Said(Downs)))
    BY DEF Ready, UpAtEnd
  <2>4. /\ Safe(todo', UpWords, Said(Ups), Said(Downs))
        /\ Assured(todo, UpWords, Said(Ups), Said(Downs)) \/ todo[1] \in Said(Downs) =>
             todo[1] \in Said(Ups) \/ Assured(todo', UpWords, Said(Ups), Said(Downs))
    BY <1>2, <2>3
  <2> QED BY <2>1, <2>2, <2>3, <2>4 DEF UpAtEnd
<1>5. RunsAtEnd'
  <2> SUFFICES ASSUME action \in {"flash", "load"}
               PROVE  Holds(running, todo, AtEnd, Said(Goes), Said(RunEnders))'
    BY <1>1 DEF RunsAtEnd
  <2>1. todo[1] \in Said(Goes) => running'
    BY <1>3 DEF Advances
  <2>2. running /\ todo[1] \notin Said(RunEnders) => running'
    BY <1>3 DEF Advances
  <2>3. Safe(todo, AtEnd, Said(Goes), Said(RunEnders))
        /\ (running \/ Assured(todo, AtEnd, Said(Goes), Said(RunEnders)))
    BY DEF Ready, RunsAtEnd
  <2>4. /\ Safe(todo', AtEnd, Said(Goes), Said(RunEnders))
        /\ Assured(todo, AtEnd, Said(Goes), Said(RunEnders)) \/ todo[1] \in Said(RunEnders) =>
             todo[1] \in Said(Goes) \/ Assured(todo', AtEnd, Said(Goes), Said(RunEnders))
    BY <1>2, <2>3
  <2> QED BY <2>1, <2>2, <2>3, <2>4
<1>6. SymbolsAtEnd'
  <2> SUFFICES ASSUME action \in {"flash", "load"}, NEW i \in AllImages
               PROVE  Holds(i \in symbols, todo, AtEnd, LoadOf(i), Replaces(i))'
    BY <1>1 DEF SymbolsAtEnd
  <2>1. todo[1] \in LoadOf(i) => i \in symbols'
    BY DEF Advances
  <2>2. i \in symbols /\ todo[1] \notin Replaces(i) => i \in symbols'
    BY DEF Advances
  <2>3. Safe(todo, AtEnd, LoadOf(i), Replaces(i))
        /\ (i \in symbols \/ Assured(todo, AtEnd, LoadOf(i), Replaces(i)))
    BY DEF Ready, SymbolsAtEnd
  <2>4. /\ Safe(todo', AtEnd, LoadOf(i), Replaces(i))
        /\ Assured(todo, AtEnd, LoadOf(i), Replaces(i)) \/ todo[1] \in Replaces(i) =>
             todo[1] \in LoadOf(i) \/ Assured(todo', AtEnd, LoadOf(i), Replaces(i))
    BY <1>2, <2>3
  <2> QED BY <2>1, <2>2, <2>3, <2>4
<1>7. HaltedAtEnd'
  <2> SUFFICES ASSUME action \in {"reset", "reset_and_stop"}
               PROVE  Holds(~running, todo, AtEnd, Said(Halts), Said(HaltEnders))'
    BY <1>1 DEF HaltedAtEnd
  <2>1. todo[1] \in Said(Halts) => ~running'
    BY <1>3 DEF Advances
  <2>2. ~running /\ todo[1] \notin Said(HaltEnders) => ~running'
    BY <1>3 DEF Advances
  <2>3. Safe(todo, AtEnd, Said(Halts), Said(HaltEnders))
        /\ (~running \/ Assured(todo, AtEnd, Said(Halts), Said(HaltEnders)))
    BY DEF Ready, HaltedAtEnd
  <2>4. /\ Safe(todo', AtEnd, Said(Halts), Said(HaltEnders))
        /\ Assured(todo, AtEnd, Said(Halts), Said(HaltEnders)) \/ todo[1] \in Said(HaltEnders) =>
             todo[1] \in Said(Halts) \/ Assured(todo', AtEnd, Said(Halts), Said(HaltEnders))
    BY <1>2, <2>3
  <2> QED BY <2>1, <2>2, <2>3, <2>4
<1>8. FlashAtEnd'
  <2> SUFFICES ASSUME action = "flash" PROVE FlashAtEnd'
    BY <1>1 DEF FlashAtEnd
  <2> DEFINE Offs == Said({OFF})
             Alls == Said({ALL})
  <2>1. /\ todo[1] \in Offs <=> command = OFF
        /\ todo[1] \in Alls <=> command = ALL
    BY <1>3
  <2> HIDE DEF Offs, Alls
  <2>2. Holds(flash = AllImages, todo, AtEnd, Offs, {})'
    <3>1. todo[1] \in Offs \/ flash = AllImages => flash' = AllImages
      BY <2>1 DEF Advances
    <3>2. Safe(todo, AtEnd, Offs, {}) /\ (flash = AllImages \/ Assured(todo, AtEnd, Offs, {}))
      BY DEF Ready, FlashAtEnd, Offs
    <3>3. /\ Safe(todo', AtEnd, Offs, {})
          /\ Assured(todo, AtEnd, Offs, {}) => todo[1] \in Offs \/ Assured(todo', AtEnd, Offs, {})
      BY <1>2, <3>2
    <3> QED BY <3>1, <3>2, <3>3 DEF Offs
  <2>3. Holds(reprogram, todo, Offs, Alls, Offs)'
    <3>1. todo[1] \in Alls \/ (reprogram /\ todo[1] \notin Offs) => reprogram'
      BY <2>1 DEF Advances
    <3>2. Safe(todo, Offs, Alls, Offs) /\ (reprogram \/ Assured(todo, Offs, Alls, Offs))
      BY DEF Ready, FlashAtEnd, Offs, Alls
    <3>3. /\ Safe(todo', Offs, Alls, Offs)
          /\ Assured(todo, Offs, Alls, Offs) \/ todo[1] \in Offs =>
               todo[1] \in Alls \/ Assured(todo', Offs, Alls, Offs)
      BY <1>2, <3>2
    <3> QED BY <3>1, <3>2, <3>3 DEF Offs, Alls
  <2>4. ASSUME NEW i \in AllImages
        PROVE  Holds(i \in programmed, todo, Offs, {<<LOAD, i>>}, Alls)'
    <3>1. todo[1] \in {<<LOAD, i>>} \/ (i \in programmed /\ todo[1] \notin Alls) =>
            i \in programmed'
      BY <2>1 DEF Advances
    <3>2. /\ Safe(todo, Offs, {<<LOAD, i>>}, Alls)
          /\ i \in programmed \/ Assured(todo, Offs, {<<LOAD, i>>}, Alls)
      BY DEF Ready, FlashAtEnd, Offs, Alls
    <3>3. /\ Safe(todo', Offs, {<<LOAD, i>>}, Alls)
          /\ Assured(todo, Offs, {<<LOAD, i>>}, Alls) \/ todo[1] \in Alls =>
               todo[1] \in {<<LOAD, i>>} \/ Assured(todo', Offs, {<<LOAD, i>>}, Alls)
      BY <1>2, <3>2
    <3> QED BY <3>1, <3>2, <3>3 DEF Offs, Alls
  <2> QED BY <2>2, <2>3, <2>4 DEF FlashAtEnd, Offs, Alls
<1>9. SettingsAtEnd'
  <2>1. todo' \in Seq(Allowed(config'))
    BY <1>1, HeadTailProperties DEF Ready, SettingsAtEnd
  <2>2. settings' \subseteq config'
    BY <1>1 DEF Advances
  <2>3. ASSUME NEW o \in config, action = "reset" \/ (action = "flash" /\ o = "jtag_clock")
        PROVE  Holds(o \in settings, todo, AtEnd, Said({Setter[o]}), Said(Forgets(o)))'
    <3> DEFINE M == Said({Setter[o]})
               B == Said(Forgets(o))
    <3>1. todo[1] \in M \/ (o \in settings /\ todo[1] \notin B) => o \in settings'
      BY <1>3 DEF Advances
    <3>2. Safe(todo, AtEnd, M, B) /\ (o \in settings \/ Assured(todo, AtEnd, M, B))
      BY <2>3 DEF Ready, SettingsAtEnd
    <3> HIDE DEF M, B
    <3>3. /\ Safe(todo', AtEnd, M, B)
          /\ Assured(todo, AtEnd, M, B) \/ todo[1] \in B =>
               todo[1] \in M \/ Assured(todo', AtEnd, M, B)
      BY <1>2, <3>2
    <3> QED BY <3>1, <3>2, <3>3 DEF M, B
  <2> QED BY <1>1, <2>1, <2>2, <2>3 DEF SettingsAtEnd
<1>10. NoAttach'
  <2> SUFFICES ASSUME action \in {"flash", "reset"}
               PROVE  Holds(mode = "up", todo, Said(AskWord), Said(HardUps), Said(Downs))'
    BY <1>1 DEF NoAttach
  <2> DEFINE X == Said(AskWord)
             M == Said(HardUps)
             B == Said(Downs)
  <2>1. todo[1] \in M \/ (mode = "up" /\ todo[1] \notin B) => mode' = "up"
    BY <1>3 DEF Advances, Ups
  <2>2. Safe(todo, X, M, B) /\ (mode = "up" \/ Assured(todo, X, M, B))
    BY DEF Ready, NoAttach
  <2> HIDE DEF X, M, B
  <2>3. /\ Safe(todo', X, M, B)
        /\ Assured(todo, X, M, B) \/ todo[1] \in B => todo[1] \in M \/ Assured(todo', X, M, B)
    BY <1>2, <2>2
  <2> QED BY <2>1, <2>2, <2>3 DEF X, M, B
<1> QED BY <1>4, <1>5, <1>6, <1>7, <1>8, <1>9, <1>10 DEF Ready

LEMMA AdvanceScript ==
  ASSUME SequenceTypeOK, ScriptReady, ScriptAdvances
  PROVE  ScriptReady'
<1> USE DEF Holds
<1>1. todo \in Seq(Commands) /\ todo # <<>> /\ todo' = Tail(todo)
  BY DEF SequenceTypeOK, ScriptAdvances
<1>2. ASSUME NEW X, NEW M, NEW B, Safe(todo, X, M, B)
      PROVE  /\ Safe(todo', X, M, B)
             /\ Assured(todo, X, M, B) \/ todo[1] \in B =>
                  todo[1] \in M \/ Assured(todo', X, M, B)
  BY <1>1, <1>2, OneLess
<1>3. ASSUME NEW texts PROVE todo[1] \in Said(texts) <=> command \in texts
  BY <1>1, HeadWord
<1>4. Holds(stack = <<>>, todo, Said(ScriptNeeds), Said(Frees), Said({"DO"}))'
  <2> DEFINE X == Said(ScriptNeeds)
             M == Said(Frees)
             B == Said({"DO"})
  <2>1. todo[1] \in M \/ (stack = <<>> /\ todo[1] \notin B) => stack' = <<>>
    BY <1>3 DEF ScriptAdvances
  <2>2. Safe(todo, X, M, B) /\ (stack = <<>> \/ Assured(todo, X, M, B))
    BY DEF ScriptReady
  <2> HIDE DEF X, M, B
  <2>3. /\ Safe(todo', X, M, B)
        /\ Assured(todo, X, M, B) \/ todo[1] \in B => todo[1] \in M \/ Assured(todo', X, M, B)
    BY <1>2, <2>2
  <2> QED BY <2>1, <2>2, <2>3 DEF X, M, B
<1>5. Holds(depth = 0, todo, Said({"wait"}), Said({"depth_before"}), {})'
  <2> DEFINE X == Said({"wait"})
             M == Said({"depth_before"})
  <2>1. todo[1] \in M \/ depth = 0 => depth' = 0
    BY <1>3 DEF ScriptAdvances
  <2>2. Safe(todo, X, M, {}) /\ (depth = 0 \/ Assured(todo, X, M, {}))
    BY DEF ScriptReady
  <2> HIDE DEF X, M
  <2>3. /\ Safe(todo', X, M, {})
        /\ Assured(todo, X, M, {}) => todo[1] \in M \/ Assured(todo', X, M, {})
    BY <1>2, <2>2
  <2> QED BY <2>1, <2>2, <2>3 DEF X, M
<1>6. Holds(mode = "down", todo, Said({"DO"}), Said(Lowers), Said(Ups \cup Frees))'
  <2> DEFINE X == Said({"DO"})
             M == Said(Lowers)
             B == Said(Ups \cup Frees)
  <2>1. todo[1] \in M \/ (mode = "down" /\ todo[1] \notin B) => mode' = "down"
    BY <1>3 DEF ScriptAdvances
  <2>2. Safe(todo, X, M, B) /\ (mode = "down" \/ Assured(todo, X, M, B))
    BY DEF ScriptReady
  <2> HIDE DEF X, M, B
  <2>3. /\ Safe(todo', X, M, B)
        /\ Assured(todo, X, M, B) \/ todo[1] \in B => todo[1] \in M \/ Assured(todo', X, M, B)
    BY <1>2, <2>2
  <2> QED BY <2>1, <2>2, <2>3 DEF X, M, B
<1> QED BY <1>4, <1>5, <1>6 DEF ScriptReady

(* What a sequence needs before its first command is so.                   *)
LEMMA NeededNow ==
  ASSUME SequenceTypeOK, todo # <<>>
  PROVE  /\ Ready /\ command \in Goes => mode = "up"
         /\ Ready /\ action \in {"flash", "reset"} /\ command \in AskWord => mode = "up"
         /\ Ready /\ action = "flash" /\ command = OFF => reprogram /\ programmed = AllImages
         /\ ScriptReady /\ command \in ScriptNeeds => stack = <<>>
         /\ ScriptReady /\ command = "wait" => depth = 0
         /\ ScriptReady /\ command = "DO" => mode = "down"
<1> USE DEF Holds
<1>1. todo \in Seq(Commands)
  BY DEF SequenceTypeOK
<1>2. ASSUME NEW X, NEW M, NEW B, Assured(todo, X, M, B) PROVE todo[1] \notin X
  BY <1>1, <1>2, HeadHolds
<1>3. ASSUME NEW texts PROVE todo[1] \in Said(texts) <=> command \in texts
  BY HeadWord
<1>4. ASSUME Ready, command \in Goes PROVE mode = "up"
  <2>1. todo[1] \in UpWords
    BY <1>3, <1>4 DEF UpWords
  <2>2. mode = "up" \/ Assured(todo, UpWords, Said(Ups), Said(Downs))
    BY <1>4 DEF Ready, UpAtEnd
  <2> QED BY <1>2, <2>1, <2>2
<1>5. ASSUME Ready, action \in {"flash", "reset"}, command \in AskWord PROVE mode = "up"
  <2>1. todo[1] \in Said(AskWord)
    BY <1>3, <1>5
  <2>2. mode = "up" \/ Assured(todo, Said(AskWord), Said(HardUps), Said(Downs))
    BY <1>5 DEF Ready, NoAttach
  <2> QED BY <1>2, <2>1, <2>2
<1>6. ASSUME Ready, action = "flash", command = OFF PROVE reprogram /\ programmed = AllImages
  <2>1. todo[1] \in Said({OFF})
    BY <1>3, <1>6
  <2>2. reprogram \/ Assured(todo, Said({OFF}), Said({ALL}), Said({OFF}))
    BY <1>6 DEF Ready, FlashAtEnd
  <2>3. \A i \in AllImages :
          i \in programmed \/ Assured(todo, Said({OFF}), {<<LOAD, i>>}, Said({ALL}))
    BY <1>6 DEF Ready, FlashAtEnd
  <2>4. AllImages \subseteq programmed
    BY <1>2, <2>1, <2>3
  <2> QED BY <1>2, <2>1, <2>2, <2>4 DEF SequenceTypeOK
<1>7. ASSUME ScriptReady, command \in ScriptNeeds PROVE stack = <<>>
  <2>1. todo[1] \in Said(ScriptNeeds)
    BY <1>3, <1>7
  <2>2. stack = <<>> \/ Assured(todo, Said(ScriptNeeds), Said(Frees), Said({"DO"}))
    BY <1>7 DEF ScriptReady
  <2> QED BY <1>2, <2>1, <2>2
<1>8. ASSUME ScriptReady, command = "wait" PROVE depth = 0
  <2>1. todo[1] \in Said({"wait"})
    BY <1>3, <1>8
  <2>2. depth = 0 \/ Assured(todo, Said({"wait"}), Said({"depth_before"}), {})
    BY <1>8 DEF ScriptReady
  <2> QED BY <1>2, <2>1, <2>2
<1>9. ASSUME ScriptReady, command = "DO" PROVE mode = "down"
  <2>1. todo[1] \in Said({"DO"})
    BY <1>3, <1>9
  <2>2. mode = "down" \/ Assured(todo, Said({"DO"}), Said(Lowers), Said(Ups \cup Frees))
    BY <1>9 DEF ScriptReady
  <2> QED BY <1>2, <2>1, <2>2
<1> QED BY <1>4, <1>5, <1>6, <1>7, <1>8, <1>9

(* A sequence makes no setting but those of the project file.              *)
LEMMA SettingOf ==
  ASSUME SequenceTypeOK, Ready, todo # <<>>
  PROVE  /\ command = "SYStem.CPU" => "cpu" \in config
         /\ command = "SYStem.MemAccess" => "mem_access" \in config
         /\ command = "CORE.ASSIGN" => "cores" \in config
         /\ command = "SYStem.JtagClock" => "jtag_clock" \in config
<1>1. todo[1] \in Allowed(config)
  <2>1. todo \in Seq(Allowed(config)) /\ Len(todo) \in Nat /\ Len(todo) # 0
    BY LenProperties, EmptySeq DEF SequenceTypeOK, Ready, SettingsAtEnd
  <2> QED BY <2>1, ElementOfSeq
<1> QED BY <1>1, OptionsAssumption DEF Allowed, Setter, command

LEMMA SystemAdvances ==
  ASSUME SequenceTypeOK, todo # <<>>, System, command \in Goes => mode = "up",
         command = "SYStem.CPU" => "cpu" \in config,
         command = "SYStem.MemAccess" => "mem_access" \in config,
         command = "CORE.ASSIGN" => "cores" \in config,
         command = "SYStem.JtagClock" => "jtag_clock" \in config,
         settings \subseteq config
  PROVE  /\ command \in Ups \/ (mode = "up" /\ command \notin Downs) => mode' = "up"
         /\ command \in Goes \/ (running /\ command \notin RunEnders) => running'
         /\ command \in Halts \/ (~running /\ command \notin HaltEnders) => ~running'
         /\ settings' \subseteq config
         /\ \A o \in config :
              command = Setter[o] \/ (o \in settings /\ command \notin Forgets(o))
                => o \in settings'
         /\ command = "SYStem.Down" \/ (mode = "down" /\ command \notin Ups) => mode' = "down"
         /\ UNCHANGED <<stackVars, flashVars, symbols>>
         /\ command \notin {ALL, LOAD, OFF, NoCode, "depth_before", "DO"} \cup Frees
<1>1. command \in Ups \/ (mode = "up" /\ command \notin Downs) => mode' = "up"
  BY DEF System, Sets, Mode, Ups, HardUps, Downs
<1>2. command \in Goes \/ (running /\ command \notin RunEnders) => running'
  BY DEF System, Sets, Mode, Goes, RunEnders, Ups, HardUps, Downs
<1>3. command \in Halts \/ (~running /\ command \notin HaltEnders) => ~running'
  BY DEF System, Sets, Mode, Halts, HaltEnders, Goes
<1>4. settings' \subseteq config
  BY DEF System, Sets, Mode
<1>5. ASSUME NEW o \in config,
             command = Setter[o] \/ (o \in settings /\ command \notin Forgets(o))
      PROVE  o \in settings'
  <2>1. o \in {"cpu", "mem_access", "cores", "jtag_clock"}
    BY OptionsAssumption DEF SequenceTypeOK
  <2>2. CASE command = Setter[o]
    <3>1. \/ o = "cpu" /\ command = "SYStem.CPU"
          \/ o = "mem_access" /\ command = "SYStem.MemAccess"
          \/ o = "cores" /\ command = "CORE.ASSIGN"
          \/ o = "jtag_clock" /\ command = "SYStem.JtagClock"
      BY <2>1, <2>2 DEF Setter
    <3>2. settings' = settings \cup {o}
      BY <3>1 DEF System, Sets, Mode
    <3> QED BY <3>2
  <2>3. CASE o \in settings /\ command \notin Forgets(o)
    BY <2>1, <2>3 DEF System, Sets, Mode, Forgets, Downs
  <2> QED BY <1>5, <2>2, <2>3
<1>6. command = "SYStem.Down" \/ (mode = "down" /\ command \notin Ups) => mode' = "down"
  BY DEF System, Sets, Mode, Ups, HardUps
<1>7. UNCHANGED <<stackVars, flashVars, symbols>>
  BY DEF System, Sets, Mode
<1>8. command \notin {ALL, LOAD, OFF, NoCode, "depth_before", "DO"} \cup Frees
  BY DEF System, ALL, LOAD, OFF, NoCode, Frees
<1> QED BY <1>1, <1>2, <1>3, <1>4, <1>5, <1>6, <1>7, <1>8

LEMMA Onward ==
  ASSUME SequenceTypeOK, todo # <<>>, Then(<<>>)
  PROVE  todo' = Tail(todo)
<1> DEFINE rest == Tail(todo)
<1>1. rest \in Seq(Commands) /\ todo' = <<>> \o rest
  BY HeadTailProperties DEF SequenceTypeOK, Then
<1> HIDE DEF rest
<1>2. <<>> \o rest = rest
  BY <1>1, ConcatEmptySeq
<1> QED BY <1>1, <1>2 DEF rest

(* The other commands carried out, by their texts.                         *)
LEMMA NoWord ==
  ASSUME SequenceTypeOK, todo # <<>>, command \in {"DO", ALL, LOAD, OFF, NoCode}
  PROVE  command \notin Ups \cup Downs \cup Goes \cup RunEnders \cup Halts \cup HaltEnders
           \cup Frees \cup Lowers \cup {"depth_before", "SYStem.CPU", "SYStem.MemAccess",
                                        "CORE.ASSIGN", "SYStem.JtagClock", "SYStem.RESet"}
BY DEF ALL, LOAD, OFF, NoCode, Ups, HardUps, Downs, Goes, RunEnders, Halts, HaltEnders,
       Frees, Lowers

LEMMA NoSetter ==
  ASSUME SequenceTypeOK, NEW o \in config, NEW text,
         text \notin {"SYStem.CPU", "SYStem.MemAccess", "CORE.ASSIGN", "SYStem.JtagClock"}
  PROVE  text # Setter[o]
<1>1. o \in {"cpu", "mem_access", "cores", "jtag_clock"}
  BY OptionsAssumption DEF SequenceTypeOK
<1> QED BY <1>1 DEF Setter

(* A command that loads an image.                                          *)
LEMMA LoadAdvances ==
  ASSUME SequenceTypeOK, todo # <<>>, LoadImage \/ LoadNoCode
  PROVE  /\ \A i \in AllImages :
              todo[1] \in LoadOf(i) \/ (i \in symbols /\ todo[1] \notin Replaces(i))
                => i \in symbols'
         /\ \A i \in AllImages :
              todo[1] = <<LOAD, i>> \/ (i \in programmed /\ command # ALL) => i \in programmed'
<1>1. todo[1] \in Commands /\ command \in {LOAD, NoCode}
  BY HeadWord DEF LoadImage, LoadNoCode, LOAD, NoCode
<1>2. todo[1] = <<command, image>> /\ image \in AllImages
  <2>1. command \notin Texts
    BY <1>1 DEF Texts, LOAD, NoCode
  <2>2. todo[1] \in LoadTexts \X AllImages
    BY <1>1, <2>1 DEF Commands, command
  <2> QED BY <2>2 DEF command, image
<1>3. symbols' = (IF image = 1 THEN {1} ELSE symbols \cup {image})
  BY DEF LoadImage, LoadNoCode, LoadSymbols
<1>4. ASSUME NEW i \in AllImages,
             todo[1] \in LoadOf(i) \/ (i \in symbols /\ todo[1] \notin Replaces(i))
      PROVE  i \in symbols'
  <2>1. todo[1] \in LoadOf(i) => image = i
    BY <1>2 DEF LoadOf
  <2>2. image = 1 => todo[1] \in LoadOf(1)
    BY <1>1, <1>2 DEF LoadOf
  <2>3. todo[1] \notin Replaces(i) => i = 1 \/ image # 1
    BY <2>2 DEF Replaces
  <2> QED BY <1>3, <1>4, <2>1, <2>3
<1>5. ASSUME NEW i \in AllImages, todo[1] = <<LOAD, i>> \/ (i \in programmed /\ command # ALL)
      PROVE  i \in programmed'
  <2>1. CASE LoadImage
    BY <1>2, <1>5, <2>1 DEF LoadImage
  <2>2. CASE LoadNoCode
    <3>1. command # LOAD
      BY <2>2 DEF LoadNoCode, LOAD
    <3>2. todo[1] # <<LOAD, i>>
      BY <1>2, <3>1
    <3> QED BY <1>5, <2>2, <3>2 DEF LoadNoCode, flashVars
  <2> QED BY <2>1, <2>2
<1> QED BY <1>4, <1>5

LEMMA SendAdvances ==
  ASSUME IInv, Ready, Send, ~failed
  PROVE  Advances
<1>1. /\ SequenceTypeOK /\ todo # <<>> /\ Effect /\ todo' = Tail(todo)
      /\ action' = action /\ config' = config
  BY Onward DEF IInv, Send, Unsent
<1>2. command \in Goes => mode = "up"
  BY <1>1, NeededNow
<1>3. settings \subseteq config
  BY DEF Ready, SettingsAtEnd
<1>4. todo[1] \in Commands /\ todo[1][1] = command
  BY <1>1, HeadWord DEF command
<1>5. \A i \in AllImages : todo[1] \in LoadOf(i) => command \in {LOAD, NoCode}
  BY <1>4 DEF LoadOf
<1>6. action = "flash" /\ command = OFF => reprogram /\ programmed = AllImages
  BY <1>1, NeededNow
<1>7. CASE System
  <2>1. /\ command \in Ups \/ (mode = "up" /\ command \notin Downs) => mode' = "up"
        /\ command \in Goes \/ (running /\ command \notin RunEnders) => running'
        /\ command \in Halts \/ (~running /\ command \notin HaltEnders) => ~running'
        /\ settings' \subseteq config
        /\ \A o \in config :
             command = Setter[o] \/ (o \in settings /\ command \notin Forgets(o))
               => o \in settings'
        /\ UNCHANGED <<flashVars, symbols>>
        /\ command \notin {ALL, LOAD, OFF, NoCode}
    BY <1>1, <1>2, <1>3, <1>7, SettingOf, SystemAdvances
  <2>2. \A i \in AllImages : todo[1] \notin LoadOf(i) /\ todo[1] # <<LOAD, i>>
    BY <1>4, <1>5, <2>1
  <2> QED BY <1>1, <2>1, <2>2 DEF Advances, flashVars
<1>8. CASE ~System
  <2>1. command \in {"DO", ALL, LOAD, OFF, NoCode} /\ UNCHANGED targetVars
    BY <1>1, <1>8
       DEF Effect, DoScript, ReprogramAll, LoadImage, ReprogramOff, LoadNoCode,
           ALL, LOAD, OFF, NoCode
  <2>2. command \notin Ups \cup Downs \cup Goes \cup RunEnders \cup Halts \cup HaltEnders
          \cup {"SYStem.CPU", "SYStem.MemAccess", "CORE.ASSIGN", "SYStem.JtagClock"}
    BY <1>1, <2>1, NoWord
  <2>3. \A o \in config : command # Setter[o]
    BY <1>1, <2>2, NoSetter
  <2>4. /\ action = "flash" /\ (command = OFF \/ flash = AllImages) => flash' = AllImages
        /\ command = ALL \/ (reprogram /\ command # OFF) => reprogram'
    <3>1. CASE ReprogramOff
      BY <1>6, <3>1 DEF ReprogramOff, ALL, OFF
    <3>2. CASE ~ReprogramOff
      <4>1. flash' = flash /\ (reprogram' = reprogram \/ reprogram' = TRUE) /\ command # OFF
        BY <1>1, <1>8, <3>2
           DEF Effect, DoScript, ReprogramAll, LoadImage, LoadNoCode, OFF, flashVars
      <4>2. command = ALL => reprogram' = TRUE
        BY <1>1, <1>8, <3>2
           DEF Effect, DoScript, ReprogramAll, LoadImage, LoadNoCode, ALL
      <4> QED BY <4>1, <4>2
    <3> QED BY <3>1, <3>2
  <2>5. /\ \A i \in AllImages :
             todo[1] \in LoadOf(i) \/ (i \in symbols /\ todo[1] \notin Replaces(i))
               => i \in symbols'
        /\ \A i \in AllImages :
             todo[1] = <<LOAD, i>> \/ (i \in programmed /\ command # ALL) => i \in programmed'
    <3>1. CASE LoadImage \/ LoadNoCode
      BY <1>1, <3>1, LoadAdvances
    <3>2. CASE ~(LoadImage \/ LoadNoCode)
      <4>1. /\ command \notin {LOAD, NoCode} /\ symbols' = symbols
            /\ programmed' = programmed \/ command = ALL
        BY <1>1, <1>8, <3>2
           DEF Effect, DoScript, ReprogramAll, ReprogramOff, ALL, LOAD, OFF, NoCode, flashVars
      <4>2. \A i \in AllImages : todo[1] \notin LoadOf(i) /\ todo[1] # <<LOAD, i>>
        BY <1>4, <1>5, <4>1
      <4> QED BY <4>1, <4>2
    <3> QED BY <3>1, <3>2
  <2> QED BY <1>1, <1>3, <2>1, <2>2, <2>3, <2>4, <2>5 DEF Advances, targetVars
<1> QED BY <1>7, <1>8

LEMMA SendScript ==
  ASSUME IInv, Send, ~failed, Ready, ScriptReady
  PROVE  ScriptAdvances
<1>1. /\ SequenceTypeOK /\ todo # <<>> /\ Effect /\ todo' = Tail(todo) /\ depth' = depth
  BY Onward DEF IInv, Send, Unsent
<1>2. CASE System
  <2>1. /\ command = "SYStem.Down" \/ (mode = "down" /\ command \notin Ups) => mode' = "down"
        /\ UNCHANGED stackVars
        /\ command \notin {"depth_before", "DO"} \cup Frees
    <3>1. command \in Goes => mode = "up"
      BY <1>1, NeededNow
    <3>2. settings \subseteq config
      BY DEF Ready, SettingsAtEnd
    <3> QED BY <1>1, <1>2, <3>1, <3>2, SettingOf, SystemAdvances
  <2>2. command # "system_up, then Down"
    BY <1>2 DEF System
  <2> QED BY <1>1, <2>1, <2>2 DEF ScriptAdvances, Lowers, stackVars
<1>3. CASE ~System
  <2>1. /\ command \in {"DO", ALL, LOAD, OFF, NoCode} /\ UNCHANGED targetVars
        /\ command = "DO" \/ UNCHANGED stackVars
    BY <1>1, <1>3
       DEF Effect, DoScript, ReprogramAll, LoadImage, ReprogramOff, LoadNoCode,
           ALL, LOAD, OFF, NoCode
  <2>2. command \notin Ups \cup Frees \cup Lowers \cup {"depth_before"}
    BY <1>1, <2>1, NoWord
  <2> QED BY <1>1, <2>1, <2>2 DEF ScriptAdvances, targetVars, stackVars
<1> QED BY <1>2, <1>3

LEMMA DepthAdvances ==
  ASSUME IInv, Ready, AskDepth
  PROVE  Advances /\ (ScriptReady => ScriptAdvances)
<1>1. /\ SequenceTypeOK /\ todo # <<>> /\ todo' = Tail(todo) /\ command = "depth_before"
      /\ depth' = Len(stack)
      /\ UNCHANGED <<action, config, failed, outcome, culprit, powerviewVars>>
  BY Onward DEF IInv, AskDepth, Unsent
<1>2. command \notin Ups \cup Downs \cup Goes \cup RunEnders \cup Halts \cup HaltEnders
        \cup Frees \cup Lowers \cup {ALL, LOAD, OFF, NoCode, "DO"}
  BY <1>1 DEF ALL, LOAD, OFF, NoCode, Ups, HardUps, Downs, Goes, RunEnders, Halts, HaltEnders,
              Frees, Lowers
<1>3. \A o \in config : command # Setter[o]
  BY <1>1, NoSetter
<1>4. \A i \in AllImages : todo[1] \notin LoadOf(i) /\ todo[1] # <<LOAD, i>>
  BY <1>2 DEF LoadOf, command
<1>5. UNCHANGED <<mode, running, settings, stack, reprogram, programmed, flash, symbols>>
  BY <1>1 DEF powerviewVars, targetVars, stackVars, flashVars
<1>6. Advances
  BY <1>1, <1>2, <1>3, <1>4, <1>5 DEF Advances, Ready, SettingsAtEnd
<1>7. ASSUME ScriptReady PROVE ScriptAdvances
  <2>1. stack = <<>>
    BY <1>1, <1>7, NeededNow DEF ScriptNeeds
  <2>2. depth' = 0
    BY <1>1, <2>1, EmptySeq
  <2> QED BY <1>1, <1>2, <1>5, <2>2 DEF ScriptAdvances
<1> QED BY <1>6, <1>7

Questions == {"require_practice_idle", "system_up, then Down", "system_up, else attach",
              "state_run, else Go", "wait"}

(* A question that puts no command in front.                               *)
LEMMA AskAdvances ==
  ASSUME IInv, Ready, Ask, command = "system_up, then Down" => mode # "up",
         command = "system_up, else attach" => mode = "up",
         command = "state_run, else Go" => running
  PROVE  Advances /\ (ScriptReady => ScriptAdvances)
<1>1. /\ SequenceTypeOK /\ todo # <<>> /\ command \in Questions /\ Then(<<>>)
      /\ UNCHANGED <<action, config, depth, failed, outcome, culprit, powerviewVars>>
  BY DEF IInv, Ask, Unsent, Questions
<1>2. /\ todo' = Tail(todo)
      /\ UNCHANGED <<mode, running, settings, stack, reprogram, programmed, flash, symbols>>
  BY <1>1, Onward DEF powerviewVars, targetVars, stackVars, flashVars
<1>3. command \notin Halts \cup {ALL, LOAD, OFF, NoCode, "DO", "depth_before", "SYStem.Down"}
  BY <1>1 DEF Questions, ALL, LOAD, OFF, NoCode, Halts
<1>4. \A o \in config : command # Setter[o]
  BY <1>1, NoSetter DEF Questions
<1>5. \A i \in AllImages : todo[1] \notin LoadOf(i) /\ todo[1] # <<LOAD, i>>
  <2>1. \A i \in AllImages : <<LOAD, i>>[1] = LOAD /\ <<NoCode, i>>[1] = NoCode
    OBVIOUS
  <2>2. \A i \in AllImages : todo[1] # <<LOAD, i>> /\ todo[1] # <<NoCode, i>>
    BY <1>3, <2>1 DEF command
  <2> QED BY <2>2 DEF LoadOf
<1>6. command \in Ups => mode = "up"
  BY <1>1 DEF Questions, Ups, HardUps
<1>7. command \in Goes => running
  BY <1>1 DEF Questions, Goes
<1>8. Advances
  BY <1>1, <1>2, <1>3, <1>4, <1>5, <1>6, <1>7 DEF Advances, Ready, SettingsAtEnd
<1>9. ASSUME ScriptReady PROVE ScriptAdvances
  <2>1. CASE command \in Frees
    <3>1. stack = <<>>
      <4>1. CASE command = "wait"
        <5>1. Len(stack) = depth
          BY <4>1 DEF Ask
        <5>2. depth = 0
          BY <1>1, <1>9, <4>1, NeededNow
        <5> QED BY <1>1, <5>1, <5>2, EmptySeq DEF SequenceTypeOK
      <4>2. CASE command = "require_practice_idle"
        BY <4>2 DEF Ask
      <4> QED BY <2>1, <4>1, <4>2 DEF Frees
    <3>2. command \notin Lowers
      BY <2>1 DEF Lowers, Frees
    <3> QED BY <1>1, <1>2, <1>3, <2>1, <3>1, <3>2 DEF ScriptAdvances
  <2>2. CASE command \notin Frees
    <3>1. command \in Lowers => mode = "down"
      BY <1>1, <1>3 DEF Lowers, SequenceTypeOK
    <3> QED BY <1>1, <1>2, <1>3, <2>2, <3>1 DEF ScriptAdvances
  <2> QED BY <2>1, <2>2
<1> QED BY <1>8, <1>9

-----------------------------------------------------------------------------
(* Questions that put commands in front.                                   *)

LEMMA InFront ==
  ASSUME NEW S \in SUBSET Commands, NEW cs \in Seq(S), NEW s \in Seq(Commands), s # <<>>,
         NEW X, NEW M, NEW B, NEW t, t = cs \o Tail(s), Safe(s, X, M, B)
  PROVE  /\ S \cap B = {} => Safe(t, X, M, B)
         /\ S \cap X = {} /\ s[1] \notin M /\ (Assured(s, X, M, B) \/ s[1] \in B)
              => Assured(t, X, M, B)
         /\ S \cap X = {} /\ Assured(cs, AtEnd, M, B) => Assured(t, X, M, B)
<1> DEFINE r == Tail(s)
<1>1. /\ Safe(r, X, M, B)
      /\ s[1] \notin M /\ (Assured(s, X, M, B) \/ s[1] \in B) => Assured(r, X, M, B)
  BY TailHolds
<1>2. cs \in Seq(Commands) /\ r \in Seq(Commands) /\ t = cs \o r
  BY SubSequences, HeadTailProperties
<1> HIDE DEF r
<1>3. ASSUME S \cap B = {} PROVE Safe(t, X, M, B)
  BY <1>1, <1>2, <1>3, LaterSafe
<1>4. ASSUME S \cap X = {}, s[1] \notin M, Assured(s, X, M, B) \/ s[1] \in B
      PROVE  Assured(t, X, M, B)
  BY <1>1, <1>2, <1>4, Later
<1>5. ASSUME S \cap X = {}, Assured(cs, AtEnd, M, B) PROVE Assured(t, X, M, B)
  <2>1. S \cap (X \ AtEnd) = {} /\ End \notin X \ AtEnd
    BY <1>5 DEF AtEnd
  <2>2. Assured(cs, X \ AtEnd, M, B)
    BY <2>1, Needless
  <2> QED BY <1>1, <1>2, <1>5, <2>2, Meets
<1> QED BY <1>3, <1>4, <1>5

(* What they put in front, and the questions.                              *)
AddedWords == {"SYStem.Down", "SYStem.Mode Down", "SYStem.CPU", "SYStem.MemAccess",
               "CORE.ASSIGN", "SYStem.Mode Attach", "Go"}
Askers == {"system_up, then Down", "system_up, else attach", "state_run, else Go"}

(* They are about the system and the core, not about images and scripts.   *)
LEMMA AskedApart ==
  ASSUME SequenceTypeOK, todo # <<>>, command \in Askers, NEW cs \in Seq(Said(AddedWords)),
         todo' = cs \o Tail(todo), NEW X, NEW M, NEW B, Safe(todo, X, M, B),
         Said(AddedWords) \cap X = {}, Said(AddedWords) \cap B = {}, todo[1] \notin M
  PROVE  /\ Safe(todo', X, M, B)
         /\ Assured(todo, X, M, B) => Assured(todo', X, M, B)
<1>1. todo \in Seq(Commands) /\ Said(AddedWords) \in SUBSET Commands
  BY SaidWord DEF SequenceTypeOK
<1> QED BY <1>1, InFront

LEMMA AskedReady ==
  ASSUME SequenceTypeOK, Ready, todo # <<>>, command \in Askers, NEW cs \in Seq(Said(AddedWords)),
         todo' = cs \o Tail(todo), UNCHANGED <<action, config, depth, powerviewVars>>
  PROVE  /\ SymbolsAtEnd' /\ FlashAtEnd'
         /\ ScriptReady =>
              /\ Holds(stack = <<>>, todo, Said(ScriptNeeds), Said(Frees), Said({"DO"}))'
              /\ Holds(depth = 0, todo, Said({"wait"}), Said({"depth_before"}), {})'
<1> USE DEF Holds
<1> DEFINE S == Said(AddedWords)
<1>1. ASSUME NEW X, NEW M, NEW B, Safe(todo, X, M, B),
             S \cap X = {}, S \cap B = {}, todo[1] \notin M
      PROVE  /\ Safe(todo', X, M, B)
             /\ Assured(todo, X, M, B) => Assured(todo', X, M, B)
  BY <1>1, AskedApart
<1>2. UNCHANGED <<stack, depth, reprogram, programmed, flash, symbols>>
  BY DEF powerviewVars, stackVars, flashVars
<1>3. ASSUME NEW texts PROVE todo[1] \in Said(texts) <=> command \in texts
  BY HeadWord
<1>4. S \cap AtEnd = {}
  BY SaidNotEnd
<1>5. /\ AddedWords \cap {OFF} = {} /\ AddedWords \cap {ALL} = {}
      /\ AddedWords \cap ScriptNeeds = {} /\ AddedWords \cap {"DO"} = {}
      /\ AddedWords \cap {"wait"} = {}
  BY DEF AddedWords, OFF, ALL, ScriptNeeds
<1>6. /\ S \cap Said({OFF}) = {} /\ S \cap Said({ALL}) = {}
      /\ S \cap Said(ScriptNeeds) = {} /\ S \cap Said({"DO"}) = {}
      /\ S \cap Said({"wait"}) = {}
  BY <1>5, SaidApart
<1>7. /\ todo[1] \notin Said({OFF}) /\ todo[1] \notin Said({ALL})
      /\ todo[1] \notin Said(Frees) /\ todo[1] \notin Said({"depth_before"})
  <2>1. command \notin {OFF} /\ command \notin {ALL} /\ command \notin Frees
        /\ command \notin {"depth_before"}
    BY DEF Askers, OFF, ALL, Frees
  <2> QED BY <1>3, <2>1
<1>8. ASSUME NEW i
      PROVE  todo[1] \notin LoadOf(i) /\ todo[1] # <<LOAD, i>> /\ S \cap LoadOf(i) = {}
  <2>1. <<LOAD, i>>[1] = LOAD /\ <<NoCode, i>>[1] = NoCode
    OBVIOUS
  <2>2. LOAD \notin AddedWords \cup Askers /\ NoCode \notin AddedWords \cup Askers
    BY DEF AddedWords, Askers, LOAD, NoCode
  <2>3. todo[1] # <<LOAD, i>> /\ todo[1] # <<NoCode, i>>
    BY <2>1, <2>2 DEF command
  <2>4. <<LOAD, i>> \notin S /\ <<NoCode, i>> \notin S
    BY <2>1, <2>2 DEF Said
  <2> QED BY <2>3, <2>4 DEF LoadOf
<1> HIDE DEF S
<1>9. SymbolsAtEnd'
  <2> SUFFICES ASSUME action \in {"flash", "load"}, NEW i \in AllImages
               PROVE  Holds(i \in symbols, todo, AtEnd, LoadOf(i), Replaces(i))'
    BY DEF SymbolsAtEnd
  <2>1. S \cap Replaces(i) = {} /\ todo[1] \notin LoadOf(i)
    BY <1>8 DEF Replaces
  <2>2. Safe(todo, AtEnd, LoadOf(i), Replaces(i))
        /\ (i \in symbols \/ Assured(todo, AtEnd, LoadOf(i), Replaces(i)))
    BY DEF Ready, SymbolsAtEnd
  <2>3. /\ Safe(todo', AtEnd, LoadOf(i), Replaces(i))
        /\ Assured(todo, AtEnd, LoadOf(i), Replaces(i)) =>
             Assured(todo', AtEnd, LoadOf(i), Replaces(i))
    BY <1>1, <1>4, <2>1, <2>2
  <2> QED BY <1>2, <2>2, <2>3
<1>10. FlashAtEnd'
  <2> SUFFICES ASSUME action = "flash" PROVE FlashAtEnd'
    BY DEF FlashAtEnd
  <2> DEFINE Offs == Said({OFF})
             Alls == Said({ALL})
  <2>1. Holds(flash = AllImages, todo, AtEnd, Offs, {})'
    <3>1. Safe(todo, AtEnd, Offs, {}) /\ (flash = AllImages \/ Assured(todo, AtEnd, Offs, {}))
      BY DEF Ready, FlashAtEnd
    <3>2. /\ Safe(todo', AtEnd, Offs, {})
          /\ Assured(todo, AtEnd, Offs, {}) => Assured(todo', AtEnd, Offs, {})
      BY <1>1, <1>4, <1>7, <3>1
    <3> QED BY <1>2, <3>1, <3>2
  <2>2. Holds(reprogram, todo, Offs, Alls, Offs)'
    <3>1. Safe(todo, Offs, Alls, Offs) /\ (reprogram \/ Assured(todo, Offs, Alls, Offs))
      BY DEF Ready, FlashAtEnd
    <3>2. /\ Safe(todo', Offs, Alls, Offs)
          /\ Assured(todo, Offs, Alls, Offs) => Assured(todo', Offs, Alls, Offs)
      BY <1>1, <1>6, <1>7, <3>1
    <3> QED BY <1>2, <3>1, <3>2
  <2>3. ASSUME NEW i \in AllImages
        PROVE  Holds(i \in programmed, todo, Offs, {<<LOAD, i>>}, Alls)'
    <3>1. /\ Safe(todo, Offs, {<<LOAD, i>>}, Alls)
          /\ i \in programmed \/ Assured(todo, Offs, {<<LOAD, i>>}, Alls)
      BY DEF Ready, FlashAtEnd
    <3>2. /\ Safe(todo', Offs, {<<LOAD, i>>}, Alls)
          /\ Assured(todo, Offs, {<<LOAD, i>>}, Alls) =>
               Assured(todo', Offs, {<<LOAD, i>>}, Alls)
      BY <1>1, <1>6, <1>8, <3>1
    <3> QED BY <1>2, <3>1, <3>2
  <2> QED BY <2>1, <2>2, <2>3 DEF FlashAtEnd
<1>11. ASSUME ScriptReady
       PROVE  /\ Holds(stack = <<>>, todo, Said(ScriptNeeds), Said(Frees), Said({"DO"}))'
              /\ Holds(depth = 0, todo, Said({"wait"}), Said({"depth_before"}), {})'
  <2>1. /\ Safe(todo, Said(ScriptNeeds), Said(Frees), Said({"DO"}))
        /\ stack = <<>> \/ Assured(todo, Said(ScriptNeeds), Said(Frees), Said({"DO"}))
        /\ Safe(todo, Said({"wait"}), Said({"depth_before"}), {})
        /\ depth = 0 \/ Assured(todo, Said({"wait"}), Said({"depth_before"}), {})
    BY <1>11 DEF ScriptReady
  <2>2. /\ Safe(todo', Said(ScriptNeeds), Said(Frees), Said({"DO"}))
        /\ Assured(todo, Said(ScriptNeeds), Said(Frees), Said({"DO"})) =>
             Assured(todo', Said(ScriptNeeds), Said(Frees), Said({"DO"}))
    BY <1>1, <1>6, <1>7, <2>1
  <2>3. /\ Safe(todo', Said({"wait"}), Said({"depth_before"}), {})
        /\ Assured(todo, Said({"wait"}), Said({"depth_before"}), {}) =>
             Assured(todo', Said({"wait"}), Said({"depth_before"}), {})
    BY <1>1, <1>6, <1>7, <2>1
  <2> QED BY <1>2, <2>1, <2>2, <2>3
<1> QED BY <1>9, <1>10, <1>11

LEMMA Asked ==
  ASSUME SequenceTypeOK, todo # <<>>, NEW T, NEW cs \in Seq(Said(T)), todo' = cs \o Tail(todo),
         NEW X, NEW M, NEW B, Safe(todo, X, M, B)
  PROVE  /\ Said(T) \cap B = {} => Safe(todo', X, M, B)
         /\ Said(T) \cap X = {} /\ todo[1] \notin M
              /\ (Assured(todo, X, M, B) \/ todo[1] \in B) => Assured(todo', X, M, B)
         /\ Said(T) \cap X = {} /\ Assured(cs, AtEnd, M, B) => Assured(todo', X, M, B)
<1>1. todo \in Seq(Commands) /\ Said(T) \in SUBSET Commands
  BY SaidWord DEF SequenceTypeOK
<1> QED BY <1>1, InFront

LEMMA AllowedInFront ==
  ASSUME SequenceTypeOK, Ready, todo # <<>>, NEW cs \in Seq(Allowed(config)),
         todo' = cs \o Tail(todo), config' = config, settings' = settings
  PROVE  settings' \subseteq config' /\ todo' \in Seq(Allowed(config'))
<1>1. Tail(todo) \in Seq(Allowed(config)) /\ settings \subseteq config
  BY HeadTailProperties DEF Ready, SettingsAtEnd
<1>2. cs \o Tail(todo) \in Seq(Allowed(config))
  BY <1>1, ConcatProperties
<1> QED BY <1>1, <1>2

(* The system is up and is put down: what follows does not need it up.     *)
LEMMA DownAsked ==
  ASSUME SequenceTypeOK, Ready, todo # <<>>, command = "system_up, then Down",
         todo' = <<C("SYStem.Down")>> \o Tail(todo),
         UNCHANGED <<action, config, depth, powerviewVars>>
  PROVE  Ready' /\ (ScriptReady => ScriptReady')
<1> USE DEF Holds
<1> DEFINE cs == <<C("SYStem.Down")>>
           S  == Said({"SYStem.Down"})
<1>1. cs \in Seq(S) /\ cs \in Seq(Said(AddedWords)) /\ todo' = cs \o Tail(todo)
  BY SaidOne DEF Texts, AddedWords
<1>2. ASSUME NEW M, NEW B, "SYStem.Down" \in M PROVE Assured(cs, AtEnd, Said(M), B)
  BY <1>2, BroughtAtEnd DEF Texts
<1> HIDE DEF cs
<1>3. ASSUME NEW X, NEW M, NEW B, Safe(todo, X, M, B)
      PROVE  /\ S \cap B = {} => Safe(todo', X, M, B)
             /\ S \cap X = {} /\ todo[1] \notin M
                  /\ (Assured(todo, X, M, B) \/ todo[1] \in B) => Assured(todo', X, M, B)
             /\ S \cap X = {} /\ Assured(cs, AtEnd, M, B) => Assured(todo', X, M, B)
  BY <1>1, <1>3, Asked
<1>4. ASSUME NEW texts PROVE todo[1] \in Said(texts) <=> command \in texts
  BY HeadWord
<1>5. UNCHANGED <<mode, running, settings>>
  BY DEF powerviewVars, targetVars
<1>6. /\ {"SYStem.Down"} \cap Goes = {} /\ {"SYStem.Down"} \cap HaltEnders = {}
      /\ {"SYStem.Down"} \cap AskWord = {} /\ {"SYStem.Down"} \cap {"DO"} = {}
      /\ {"SYStem.Down"} \cap {"SYStem.RESet"} = {}
      /\ {"SYStem.Down"} \cap (Ups \cup Frees) = {}
  BY DEF Goes, HaltEnders, AskWord, Ups, HardUps, Frees
<1>7. /\ S \cap UpWords = {} /\ S \cap AtEnd = {} /\ S \cap Said(HaltEnders) = {}
      /\ S \cap Said(AskWord) = {} /\ S \cap Said({"DO"}) = {}
      /\ S \cap Said({"SYStem.RESet"}) = {} /\ S \cap Said(Ups \cup Frees) = {}
  BY <1>6, SaidApart DEF UpWords
<1>8. /\ todo[1] \in Said(Downs) /\ todo[1] \notin Said(Ups)
      /\ todo[1] \in Said(RunEnders) /\ todo[1] \notin Said(Goes)
      /\ todo[1] \notin Said(Halts) /\ todo[1] \notin Said(HardUps)
  <2>1. /\ command \in Downs /\ command \notin Ups /\ command \in RunEnders
        /\ command \notin Goes /\ command \notin Halts /\ command \notin HardUps
    BY DEF Downs, Ups, HardUps, RunEnders, Goes, Halts
  <2> QED BY <1>4, <2>1
<1> HIDE DEF S
<1>9. UpAtEnd'
  <2>1. Safe(todo, UpWords, Said(Ups), Said(Downs))
    BY DEF Ready, UpAtEnd
  <2>2. Assured(todo', UpWords, Said(Ups), Said(Downs))
    BY <1>3, <1>7, <1>8, <2>1
  <2> QED BY <2>2, AssuredIsSafe DEF UpAtEnd
<1>10. RunsAtEnd'
  <2> SUFFICES ASSUME action \in {"flash", "load"}
               PROVE  Holds(running, todo, AtEnd, Said(Goes), Said(RunEnders))'
    BY DEF RunsAtEnd
  <2>1. Safe(todo, AtEnd, Said(Goes), Said(RunEnders))
    BY DEF Ready, RunsAtEnd
  <2>2. Assured(todo', AtEnd, Said(Goes), Said(RunEnders))
    BY <1>3, <1>7, <1>8, <2>1
  <2> QED BY <2>2, AssuredIsSafe
<1>11. HaltedAtEnd'
  <2> SUFFICES ASSUME action \in {"reset", "reset_and_stop"}
               PROVE  Holds(~running, todo, AtEnd, Said(Halts), Said(HaltEnders))'
    BY DEF HaltedAtEnd
  <2>1. Safe(todo, AtEnd, Said(Halts), Said(HaltEnders))
        /\ (~running \/ Assured(todo, AtEnd, Said(Halts), Said(HaltEnders)))
    BY DEF Ready, HaltedAtEnd
  <2>2. /\ Safe(todo', AtEnd, Said(Halts), Said(HaltEnders))
        /\ Assured(todo, AtEnd, Said(Halts), Said(HaltEnders)) =>
             Assured(todo', AtEnd, Said(Halts), Said(HaltEnders))
    BY <1>3, <1>7, <1>8, <2>1
  <2> QED BY <1>5, <2>1, <2>2
<1>12. SettingsAtEnd'
  <2>1. settings' \subseteq config' /\ todo' \in Seq(Allowed(config'))
    <3>1. cs \in Seq(Allowed(config))
      BY <1>1, SaidAllowed DEF S
    <3> QED BY <1>1, <1>5, <3>1, AllowedInFront
  <2>2. ASSUME NEW o \in config, action = "reset" \/ (action = "flash" /\ o = "jtag_clock")
        PROVE  Holds(o \in settings, todo, AtEnd, Said({Setter[o]}), Said(Forgets(o)))'
    <3> DEFINE M == Said({Setter[o]})
               B == Said(Forgets(o))
    <3>1. Safe(todo, AtEnd, M, B) /\ (o \in settings \/ Assured(todo, AtEnd, M, B))
      BY <2>2 DEF Ready, SettingsAtEnd
    <3>2. todo[1] \notin M
      <4>1. command \notin {Setter[o]}
        BY NoSetter
      <4> QED BY <1>4, <4>1 DEF M
    <3>3. CASE o = "jtag_clock"
      <4>1. todo[1] \in B
        BY <1>8, <3>3 DEF Forgets
      <4> HIDE DEF M, B
      <4>2. Assured(todo', AtEnd, M, B)
        BY <1>3, <1>7, <3>1, <3>2, <4>1
      <4> QED BY <4>2, AssuredIsSafe DEF M, B
    <3>4. CASE o # "jtag_clock"
      <4>1. S \cap B = {}
        BY <1>7, <3>4 DEF Forgets
      <4> HIDE DEF M, B
      <4>2. Safe(todo', AtEnd, M, B) /\ (Assured(todo, AtEnd, M, B) => Assured(todo', AtEnd, M, B))
        BY <1>3, <1>7, <3>1, <3>2, <4>1
      <4> QED BY <1>5, <3>1, <4>2 DEF M, B
    <3> QED BY <3>3, <3>4
  <2> QED BY <2>1, <2>2 DEF SettingsAtEnd
<1>13. NoAttach'
  <2> SUFFICES ASSUME action \in {"flash", "reset"}
               PROVE  Holds(mode = "up", todo, Said(AskWord), Said(HardUps), Said(Downs))'
    BY DEF NoAttach
  <2>1. Safe(todo, Said(AskWord), Said(HardUps), Said(Downs))
    BY DEF Ready, NoAttach
  <2>2. Assured(todo', Said(AskWord), Said(HardUps), Said(Downs))
    BY <1>3, <1>7, <1>8, <2>1
  <2> QED BY <2>2, AssuredIsSafe
<1>14. ASSUME ScriptReady
       PROVE  Holds(mode = "down", todo, Said({"DO"}), Said(Lowers), Said(Ups \cup Frees))'
  <2>1. Safe(todo, Said({"DO"}), Said(Lowers), Said(Ups \cup Frees))
    BY <1>14 DEF ScriptReady
  <2>2. Assured(cs, AtEnd, Said(Lowers), Said(Ups \cup Frees))
    <3>1. "SYStem.Down" \in Lowers
      BY DEF Lowers
    <3> QED BY <1>2, <3>1
  <2>3. Assured(todo', Said({"DO"}), Said(Lowers), Said(Ups \cup Frees))
    BY <1>3, <1>7, <2>1, <2>2
  <2> QED BY <2>3, AssuredIsSafe
<1>15. /\ SymbolsAtEnd' /\ FlashAtEnd'
       /\ ScriptReady =>
            /\ Holds(stack = <<>>, todo, Said(ScriptNeeds), Said(Frees), Said({"DO"}))'
            /\ Holds(depth = 0, todo, Said({"wait"}), Said({"depth_before"}), {})'
  <2>1. command \in Askers
    BY DEF Askers
  <2> QED BY <1>1, <2>1, AskedReady
<1> QED BY <1>9, <1>10, <1>11, <1>12, <1>13, <1>14, <1>15 DEF Ready, ScriptReady

AttachWords == {"SYStem.Mode Down"} \cup SettingWords \cup {"SYStem.Mode Attach"}

(* Attaching ends with the system up.                                      *)
LEMMA AttachCommands ==
  ASSUME NEW c, NEW M, NEW B, "SYStem.Mode Attach" \in M
  PROVE  /\ attach_commands(c) \in Seq(Said(AttachWords))
         /\ Assured(attach_commands(c), AtEnd, Said(M), B)
<1> DEFINE down   == <<C("SYStem.Mode Down")>>
           attach == <<C("SYStem.Mode Attach")>>
           first  == down \o SettingCommands(c)
<1>1. down \in Seq(Said({"SYStem.Mode Down"})) /\ attach \in Seq(Said({"SYStem.Mode Attach"}))
  BY SaidOne DEF Texts
<1>2. Assured(attach, AtEnd, Said(M), B)
  BY BroughtAtEnd DEF Texts
<1>3. attach_commands(c) = first \o attach
  BY DEF attach_commands
<1> HIDE DEF down, attach
<1>4. first \in Seq(Said({"SYStem.Mode Down"} \cup SettingWords))
  BY <1>1, Parts, SaidConcat
<1> HIDE DEF first
<1>5. first \o attach \in Seq(Said(AttachWords))
  BY <1>1, <1>4, SaidConcat DEF AttachWords
<1>6. Assured(first \o attach, AtEnd, Said(M), B)
  <2>1. attach \in Seq(Commands)
    BY <1>1, SaidSeq
  <2> QED BY <1>2, <1>4, <2>1, SaidNotEnd, Later
<1> QED BY <1>3, <1>5, <1>6

(* The system is not up and is attached to, which neither `flash` nor      *)
(* `reset` does.                                                           *)
LEMMA AttachAsked ==
  ASSUME SequenceTypeOK, Ready, todo # <<>>, command = "system_up, else attach", mode # "up",
         todo' = attach_commands(config) \o Tail(todo),
         UNCHANGED <<action, config, depth, powerviewVars>>
  PROVE  Ready' /\ (ScriptReady => ScriptReady')
<1> USE DEF Holds
<1> DEFINE cs == attach_commands(config)
           S  == Said(AttachWords)
<1>1. /\ cs \in Seq(S) /\ todo' = cs \o Tail(todo) /\ cs \in Seq(Allowed(config))
      /\ Assured(cs, AtEnd, Said(Ups), Said(Downs))
  BY AttachCommands, AttachAllowed DEF Ups
<1>2. cs \in Seq(Said(AddedWords))
  <2>1. AttachWords \subseteq AddedWords
    BY DEF AttachWords, SettingWords, AddedWords
  <2>2. S \subseteq Said(AddedWords)
    BY <2>1 DEF Said
  <2> QED BY <1>1, <2>2, SubSequences
<1> HIDE DEF cs
<1>3. ASSUME NEW X, NEW M, NEW B, Safe(todo, X, M, B)
      PROVE  /\ S \cap B = {} => Safe(todo', X, M, B)
             /\ S \cap X = {} /\ todo[1] \notin M
                  /\ (Assured(todo, X, M, B) \/ todo[1] \in B) => Assured(todo', X, M, B)
             /\ S \cap X = {} /\ Assured(cs, AtEnd, M, B) => Assured(todo', X, M, B)
  BY <1>1, <1>3, Asked
<1>4. ASSUME NEW texts PROVE todo[1] \in Said(texts) <=> command \in texts
  BY HeadWord
<1>5. action \notin {"flash", "reset"}
  BY NeededNow DEF AskWord
<1>6. AttachWords \cap Goes = {} /\ AttachWords \cap {"DO"} = {}
  BY DEF AttachWords, SettingWords, Goes
<1>7. S \cap UpWords = {} /\ S \cap AtEnd = {} /\ S \cap Said({"DO"}) = {}
  BY <1>6, SaidApart DEF UpWords
<1>8. /\ todo[1] \in Said(RunEnders) /\ todo[1] \notin Said(Goes)
      /\ todo[1] \in Said(HaltEnders) /\ todo[1] \notin Said(Halts)
      /\ todo[1] \in Said(Ups \cup Frees) /\ todo[1] \notin Said(Lowers)
  <2>1. /\ command \in RunEnders /\ command \notin Goes /\ command \in HaltEnders
        /\ command \notin Halts /\ command \in Ups \cup Frees /\ command \notin Lowers
    BY DEF Downs, Ups, HardUps, RunEnders, Goes, Halts, HaltEnders, Lowers
  <2> QED BY <1>4, <2>1
<1> HIDE DEF S
<1>9. UpAtEnd'
  <2>1. Safe(todo, UpWords, Said(Ups), Said(Downs))
    BY DEF Ready, UpAtEnd
  <2>2. Assured(todo', UpWords, Said(Ups), Said(Downs))
    BY <1>1, <1>3, <1>7, <2>1
  <2> QED BY <2>2, AssuredIsSafe DEF UpAtEnd
<1>10. RunsAtEnd'
  <2> SUFFICES ASSUME action \in {"flash", "load"}
               PROVE  Holds(running, todo, AtEnd, Said(Goes), Said(RunEnders))'
    BY DEF RunsAtEnd
  <2>1. Safe(todo, AtEnd, Said(Goes), Said(RunEnders))
    BY DEF Ready, RunsAtEnd
  <2>2. Assured(todo', AtEnd, Said(Goes), Said(RunEnders))
    BY <1>3, <1>7, <1>8, <2>1
  <2> QED BY <2>2, AssuredIsSafe
<1>11. HaltedAtEnd'
  <2> SUFFICES ASSUME action \in {"reset", "reset_and_stop"}
               PROVE  Holds(~running, todo, AtEnd, Said(Halts), Said(HaltEnders))'
    BY DEF HaltedAtEnd
  <2>1. Safe(todo, AtEnd, Said(Halts), Said(HaltEnders))
    BY DEF Ready, HaltedAtEnd
  <2>2. Assured(todo', AtEnd, Said(Halts), Said(HaltEnders))
    BY <1>3, <1>7, <1>8, <2>1
  <2> QED BY <2>2, AssuredIsSafe
<1>12. SettingsAtEnd' /\ NoAttach'
  <2>1. settings' = settings
    BY DEF powerviewVars, targetVars
  <2>2. settings' \subseteq config' /\ todo' \in Seq(Allowed(config'))
    BY <1>1, <2>1, AllowedInFront
  <2> QED BY <1>5, <2>2 DEF SettingsAtEnd, NoAttach
<1>13. ASSUME ScriptReady
       PROVE  Holds(mode = "down", todo, Said({"DO"}), Said(Lowers), Said(Ups \cup Frees))'
  <2>1. Safe(todo, Said({"DO"}), Said(Lowers), Said(Ups \cup Frees))
    BY <1>13 DEF ScriptReady
  <2>2. Assured(todo', Said({"DO"}), Said(Lowers), Said(Ups \cup Frees))
    BY <1>3, <1>7, <1>8, <2>1
  <2> QED BY <2>2, AssuredIsSafe
<1>14. /\ SymbolsAtEnd' /\ FlashAtEnd'
       /\ ScriptReady =>
            /\ Holds(stack = <<>>, todo, Said(ScriptNeeds), Said(Frees), Said({"DO"}))'
            /\ Holds(depth = 0, todo, Said({"wait"}), Said({"depth_before"}), {})'
  <2>1. command \in Askers
    BY DEF Askers
  <2> QED BY <1>1, <1>2, <2>1, AskedReady
<1> QED BY <1>9, <1>10, <1>11, <1>12, <1>13, <1>14 DEF Ready, ScriptReady

(* The system is up and the core is started.                               *)
LEMMA GoAsked ==
  ASSUME SequenceTypeOK, Ready, todo # <<>>, command = "state_run, else Go",
         todo' = <<C("Go")>> \o Tail(todo),
         UNCHANGED <<action, config, depth, powerviewVars>>
  PROVE  Ready' /\ (ScriptReady => ScriptReady')
<1> USE DEF Holds
<1> DEFINE cs == <<C("Go")>>
           S  == Said({"Go"})
<1>1. cs \in Seq(S) /\ cs \in Seq(Said(AddedWords)) /\ todo' = cs \o Tail(todo)
  BY SaidOne DEF Texts, AddedWords
<1>2. Assured(cs, AtEnd, Said(Goes), Said(RunEnders))
  <2>1. "Go" \in Texts /\ "Go" \in Goes
    BY DEF Texts, Goes
  <2> QED BY <2>1, BroughtAtEnd
<1> HIDE DEF cs
<1>3. ASSUME NEW X, NEW M, NEW B, Safe(todo, X, M, B)
      PROVE  /\ S \cap B = {} => Safe(todo', X, M, B)
             /\ S \cap X = {} /\ todo[1] \notin M
                  /\ (Assured(todo, X, M, B) \/ todo[1] \in B) => Assured(todo', X, M, B)
             /\ S \cap X = {} /\ Assured(cs, AtEnd, M, B) => Assured(todo', X, M, B)
  BY <1>1, <1>3, Asked
<1>4. ASSUME NEW texts PROVE todo[1] \in Said(texts) <=> command \in texts
  BY HeadWord
<1>5. UNCHANGED <<mode, running, settings>> /\ mode = "up"
  BY NeededNow DEF powerviewVars, targetVars, Goes
<1>6. /\ {"Go"} \cap Downs = {} /\ {"Go"} \cap AskWord = {} /\ {"Go"} \cap {"DO"} = {}
      /\ {"Go"} \cap (Ups \cup Frees) = {} /\ \A o : {"Go"} \cap Forgets(o) = {}
  BY DEF Downs, AskWord, Ups, HardUps, Frees, Forgets
<1>7. /\ S \cap Said(Downs) = {} /\ S \cap AtEnd = {} /\ S \cap Said(AskWord) = {}
      /\ S \cap Said({"DO"}) = {} /\ S \cap Said(Ups \cup Frees) = {}
  BY <1>6, SaidApart
<1>8. /\ todo[1] \in Said(HaltEnders) /\ todo[1] \notin Said(Halts)
      /\ todo[1] \notin Said(HardUps) /\ todo[1] \notin Said(Lowers)
  <2>1. /\ command \in HaltEnders /\ command \notin Halts /\ command \notin HardUps
        /\ command \notin Lowers
    BY DEF HardUps, Goes, Halts, HaltEnders, Lowers
  <2> QED BY <1>4, <2>1
<1>9. UpAtEnd'
  <2>1. Safe(todo, UpWords, Said(Ups), Said(Downs))
    BY DEF Ready, UpAtEnd
  <2>2. Safe(todo', UpWords, Said(Ups), Said(Downs))
    BY <1>3, <1>7, <2>1
  <2> QED BY <1>5, <2>2 DEF UpAtEnd
<1>10. RunsAtEnd'
  <2> SUFFICES ASSUME action \in {"flash", "load"}
               PROVE  Holds(running, todo, AtEnd, Said(Goes), Said(RunEnders))'
    BY DEF RunsAtEnd
  <2>1. Safe(todo, AtEnd, Said(Goes), Said(RunEnders))
    BY DEF Ready, RunsAtEnd
  <2>2. Assured(todo', AtEnd, Said(Goes), Said(RunEnders))
    BY <1>2, <1>3, <1>7, <2>1
  <2> QED BY <2>2, AssuredIsSafe
<1>11. HaltedAtEnd'
  <2> SUFFICES ASSUME action \in {"reset", "reset_and_stop"}
               PROVE  Holds(~running, todo, AtEnd, Said(Halts), Said(HaltEnders))'
    BY DEF HaltedAtEnd
  <2>1. Safe(todo, AtEnd, Said(Halts), Said(HaltEnders))
    BY DEF Ready, HaltedAtEnd
  <2>2. Assured(todo', AtEnd, Said(Halts), Said(HaltEnders))
    BY <1>3, <1>7, <1>8, <2>1
  <2> QED BY <2>2, AssuredIsSafe
<1>12. SettingsAtEnd'
  <2>1. settings' \subseteq config' /\ todo' \in Seq(Allowed(config'))
    <3>1. cs \in Seq(Allowed(config))
      BY <1>1, SaidAllowed DEF S
    <3> QED BY <1>1, <1>5, <3>1, AllowedInFront
  <2>2. ASSUME NEW o \in config, action = "reset" \/ (action = "flash" /\ o = "jtag_clock")
        PROVE  Holds(o \in settings, todo, AtEnd, Said({Setter[o]}), Said(Forgets(o)))'
    <3> DEFINE M == Said({Setter[o]})
               B == Said(Forgets(o))
    <3>1. Safe(todo, AtEnd, M, B) /\ (o \in settings \/ Assured(todo, AtEnd, M, B))
      BY <2>2 DEF Ready, SettingsAtEnd
    <3>2. todo[1] \notin M
      <4>1. command \notin {Setter[o]}
        BY NoSetter
      <4> QED BY <1>4, <4>1 DEF M
    <3>3. S \cap B = {}
      BY <1>6, SaidApart DEF S
    <3> HIDE DEF M, B
    <3>4. Safe(todo', AtEnd, M, B) /\ (Assured(todo, AtEnd, M, B) => Assured(todo', AtEnd, M, B))
      BY <1>3, <1>7, <3>1, <3>2, <3>3
    <3> QED BY <1>5, <3>1, <3>4 DEF M, B
  <2> QED BY <2>1, <2>2 DEF SettingsAtEnd
<1>13. NoAttach'
  <2> SUFFICES ASSUME action \in {"flash", "reset"}
               PROVE  Holds(mode = "up", todo, Said(AskWord), Said(HardUps), Said(Downs))'
    BY DEF NoAttach
  <2>1. Safe(todo, Said(AskWord), Said(HardUps), Said(Downs))
    BY DEF Ready, NoAttach
  <2>2. Safe(todo', Said(AskWord), Said(HardUps), Said(Downs))
    BY <1>3, <1>7, <2>1
  <2> QED BY <1>5, <2>2
<1>14. ASSUME ScriptReady
       PROVE  Holds(mode = "down", todo, Said({"DO"}), Said(Lowers), Said(Ups \cup Frees))'
  <2>1. /\ Safe(todo, Said({"DO"}), Said(Lowers), Said(Ups \cup Frees))
        /\ mode = "down" \/ Assured(todo, Said({"DO"}), Said(Lowers), Said(Ups \cup Frees))
    BY <1>14 DEF ScriptReady
  <2>2. /\ Safe(todo', Said({"DO"}), Said(Lowers), Said(Ups \cup Frees))
        /\ Assured(todo, Said({"DO"}), Said(Lowers), Said(Ups \cup Frees)) =>
             Assured(todo', Said({"DO"}), Said(Lowers), Said(Ups \cup Frees))
    BY <1>3, <1>7, <1>8, <2>1
  <2> QED BY <1>5, <2>1, <2>2
<1>15. /\ SymbolsAtEnd' /\ FlashAtEnd'
       /\ ScriptReady =>
            /\ Holds(stack = <<>>, todo, Said(ScriptNeeds), Said(Frees), Said({"DO"}))'
            /\ Holds(depth = 0, todo, Said({"wait"}), Said({"depth_before"}), {})'
  <2>1. command \in Askers
    BY DEF Askers
  <2> QED BY <1>1, <2>1, AskedReady
<1> QED BY <1>9, <1>10, <1>11, <1>12, <1>13, <1>14, <1>15 DEF Ready, ScriptReady

-----------------------------------------------------------------------------
(* Nothing is sent: a script runs or ends.                                 *)

LEMMA Unsaid ==
  ASSUME Ready, UNCHANGED <<action, config, todo, flashVars, symbols>>,
         mode = "up" => mode' = "up", running' = running,
         settings \subseteq settings', settings' \subseteq config
  PROVE  Ready'
<1> USE DEF Holds
<1>1. UNCHANGED <<reprogram, programmed, flash>>
  BY DEF flashVars
<1>2. UpAtEnd'
  BY DEF Ready, UpAtEnd
<1>3. RunsAtEnd'
  BY DEF Ready, RunsAtEnd
<1>4. SymbolsAtEnd'
  BY DEF Ready, SymbolsAtEnd
<1>5. HaltedAtEnd'
  BY DEF Ready, HaltedAtEnd
<1>6. FlashAtEnd'
  BY <1>1 DEF Ready, FlashAtEnd
<1>7. SettingsAtEnd'
  BY DEF Ready, SettingsAtEnd
<1>8. NoAttach'
  BY DEF Ready, NoAttach
<1> QED BY <1>2, <1>3, <1>4, <1>5, <1>6, <1>7, <1>8 DEF Ready

(* While a script runs, another is started and the flash erased only after *)
(* a wait, which the command that puts the target down follows.            *)
LEMMA ScriptFirst ==
  ASSUME ScriptReady, stack # <<>>
  PROVE  Assured(todo, Said({"DO"}), Said(Lowers), Said(Ups \cup Frees))
<1> DEFINE B == Said(Ups \cup Frees)
<1>1. Safe(todo, Said({"DO"}), Said(Lowers), B)
  BY DEF ScriptReady, Holds
<1>2. Assured(todo, Said(ScriptNeeds), Said(Frees), Said({"DO"}))
  BY DEF ScriptReady, Holds
<1>3. Said({"DO"}) \subseteq Said(ScriptNeeds) /\ Said(Frees) \subseteq B
  BY DEF Said, ScriptNeeds
<1> HIDE DEF B
<1>4. ASSUME NEW n \in 1 .. Len(todo) + 1, Nth(todo, n) \in Said({"DO"})
      PROVE  Brought(todo, n, Said(Lowers), B)
  <2>1. Brought(todo, n, Said(Frees), Said({"DO"}))
    BY <1>2, <1>3, <1>4 DEF Assured
  <2>2. ~Spared(todo, n, B)
    BY <1>3, <2>1 DEF Brought, Spared
  <2> QED BY <1>1, <1>4, <2>2 DEF Safe
<1> QED BY <1>4 DEF Assured, B

LEMMA ScriptReadyStep ==
  ASSUME IInv, ReadyInv, ScriptRuns \/ ScriptEnds \/ OthersStart
  PROVE  ReadyInv'
<1>1. SequenceTypeOK /\ UNCHANGED <<sequenceVars, flashVars, symbols>>
  BY DEF IInv, ScriptRuns, ScriptEnds, OthersStart, Mode
<1>2. UNCHANGED <<action, config, todo, depth, failed, outcome>>
  BY <1>1 DEF sequenceVars
<1>3. CASE ScriptRuns
  <2>1. /\ stack # <<>> /\ mode = "down" /\ mode' = "up" /\ running' = FALSE
        /\ settings' = settings \cup (config \ {"jtag_clock"})
        /\ stack' = stack /\ others' = others
    BY <1>3 DEF ScriptRuns, Mode, stackVars
  <2>2. running' = running
    BY <1>1, <2>1 DEF SequenceTypeOK
  <2>3. ASSUME Ready PROVE Ready'
    <3>1. settings \subseteq settings' /\ settings' \subseteq config
      BY <2>1, <2>3 DEF Ready, SettingsAtEnd
    <3> QED BY <1>1, <1>2, <2>1, <2>2, <2>3, <3>1, Unsaid
  <2>4. ASSUME ScriptReady PROVE ScriptReady'
    <3>1. Assured(todo, Said({"DO"}), Said(Lowers), Said(Ups \cup Frees))
      BY <2>1, <2>4, ScriptFirst
    <3> QED BY <1>2, <2>1, <2>4, <3>1, AssuredIsSafe DEF ScriptReady, Holds
  <2>5. outcome # "success"
    BY <2>1 DEF ReadyInv, Kept
  <2> QED BY <1>2, <2>1, <2>3, <2>4, <2>5 DEF ReadyInv
<1>4. CASE ScriptEnds \/ OthersStart
  <2>1. UNCHANGED <<mode, running, settings>>
    BY <1>4 DEF ScriptEnds, OthersStart, targetVars
  <2>2. ASSUME Ready PROVE Ready'
    <3>1. settings \subseteq config
      BY <2>2 DEF Ready, SettingsAtEnd
    <3> QED BY <1>1, <1>2, <2>1, <2>2, <3>1, Unsaid
  <2>3. ASSUME ScriptReady, others' = 0 PROVE ScriptReady' /\ others = 0
    <3>1. stack # <<>> /\ others' = others
      BY <1>1, <1>4, <2>3 DEF ScriptEnds, OthersStart, SequenceTypeOK
    <3> QED BY <1>2, <2>1, <2>3, <3>1 DEF ScriptReady, Holds
  <2>4. others' = 0 => others = 0
    BY <1>1, <1>4 DEF ScriptEnds, OthersStart, SequenceTypeOK
  <2>5. Kept => Kept'
    BY <1>1, <1>2, <2>1 DEF Kept, flashVars
  <2> QED BY <1>2, <2>2, <2>3, <2>4, <2>5 DEF ReadyInv
<1> QED BY <1>3, <1>4

-----------------------------------------------------------------------------

LEMMA AskReadyStep ==
  ASSUME IInv, ReadyInv, Ask
  PROVE  ReadyInv'
<1>1. /\ SequenceTypeOK /\ todo # <<>> /\ outcome = "none"
      /\ UNCHANGED <<action, config, depth, failed, outcome, culprit, powerviewVars>>
      /\ others' = others
  BY DEF IInv, Ask, Unsent, powerviewVars, stackVars
<1> SUFFICES ASSUME ~failed, Ready PROVE Ready' /\ (ScriptReady => ScriptReady')
  BY <1>1 DEF ReadyInv
<1>2. CASE command = "system_up, then Down" /\ mode = "up"
  <2>1. todo' = <<C("SYStem.Down")>> \o Tail(todo)
    BY <1>2 DEF Ask, Then
  <2> QED BY <1>1, <1>2, <2>1, DownAsked
<1>3. CASE command = "system_up, else attach" /\ mode # "up"
  <2>1. todo' = attach_commands(config) \o Tail(todo)
    BY <1>3 DEF Ask, Then
  <2> QED BY <1>1, <1>3, <2>1, AttachAsked
<1>4. CASE command = "state_run, else Go" /\ ~running
  <2>1. todo' = <<C("Go")>> \o Tail(todo)
    BY <1>4 DEF Ask, Then
  <2> QED BY <1>1, <1>4, <2>1, GoAsked
<1>5. CASE /\ command = "system_up, then Down" => mode # "up"
           /\ command = "system_up, else attach" => mode = "up"
           /\ command = "state_run, else Go" => running
  BY <1>1, <1>5, AskAdvances, AdvanceReady, AdvanceScript
<1> QED BY <1>2, <1>3, <1>4, <1>5

LEMMA SendReadyStep ==
  ASSUME IInv, ReadyInv, Send
  PROVE  ReadyInv'
<1>1. SequenceTypeOK /\ failed' = failed /\ outcome = "none"
  BY DEF IInv, Send, Unsent
<1>2. others' = others
  BY DEF Send, Effect, System, Sets, Mode, DoScript, ReprogramAll, LoadImage, ReprogramOff,
         LoadNoCode, stackVars
<1>3. CASE failed
  <2>1. outcome' = "failed"
    BY <1>3 DEF Send
  <2> QED BY <2>1 DEF ReadyInv
<1>4. CASE ~failed
  <2>1. outcome' = "none"
    BY <1>1, <1>4 DEF Send
  <2>2. Ready /\ (others = 0 => ScriptReady)
    BY <1>1, <1>4 DEF ReadyInv
  <2>3. Ready' /\ (ScriptReady => ScriptReady')
    BY <1>1, <1>4, <2>2, SendAdvances, SendScript, AdvanceReady, AdvanceScript
  <2> QED BY <1>2, <2>1, <2>2, <2>3 DEF ReadyInv
<1> QED BY <1>3, <1>4

LEMMA DepthReadyStep ==
  ASSUME IInv, ReadyInv, AskDepth
  PROVE  ReadyInv'
<1>1. /\ SequenceTypeOK /\ outcome = "none"
      /\ UNCHANGED <<failed, outcome, others>>
  BY DEF IInv, AskDepth, Unsent, powerviewVars, stackVars
<1>2. ASSUME Ready PROVE Ready' /\ (ScriptReady => ScriptReady')
  BY <1>1, <1>2, DepthAdvances, AdvanceReady, AdvanceScript
<1> QED BY <1>1, <1>2 DEF ReadyInv

(* The last command is carried out: what the end needs is so.              *)
LEMMA SucceedReadyStep ==
  ASSUME IInv, ReadyInv, Succeed
  PROVE  ReadyInv'
<1> USE DEF Holds
<1>1. /\ SequenceTypeOK /\ outcome = "none" /\ todo = <<>> /\ outcome' = "success"
      /\ UNCHANGED <<action, config, mode, running, settings, flash, symbols>>
  BY DEF IInv, Succeed, powerviewVars, targetVars, flashVars
<1>2. Ready
  <2>1. <<C(OFF)>> # <<>>
    OBVIOUS
  <2>2. ~failed
    BY <1>1, <2>1 DEF IInv, ReprogramInv
  <2> QED BY <1>1, <2>2 DEF ReadyInv
<1>3. ASSUME NEW X, NEW M, NEW B, End \in X PROVE ~Assured(todo, X, M, B)
  BY <1>1, <1>3, EndHolds
<1>4. End \in AtEnd /\ End \in UpWords
  BY DEF AtEnd, UpWords
<1>5. mode = "up"
  BY <1>2, <1>3, <1>4 DEF Ready, UpAtEnd
<1>6. action \in {"flash", "load"} => running
  BY <1>2, <1>3, <1>4 DEF Ready, RunsAtEnd
<1>7. action \in {"flash", "load"} => symbols = AllImages
  <2>1. action \in {"flash", "load"} => \A i \in AllImages : i \in symbols
    BY <1>2, <1>3, <1>4 DEF Ready, SymbolsAtEnd
  <2> QED BY <1>1, <2>1 DEF SequenceTypeOK
<1>8. action \in {"reset", "reset_and_stop"} => ~running
  BY <1>2, <1>3, <1>4 DEF Ready, HaltedAtEnd
<1>9. action = "flash" => flash = AllImages
  BY <1>2, <1>3, <1>4 DEF Ready, FlashAtEnd
<1>10. /\ settings \subseteq config
       /\ \A o \in config :
            action = "reset" \/ (action = "flash" /\ o = "jtag_clock") => o \in settings
  BY <1>2, <1>3, <1>4 DEF Ready, SettingsAtEnd
<1>11. Kept
  BY <1>5, <1>6, <1>7, <1>8, <1>9, <1>10 DEF Kept
<1>12. Kept'
  BY <1>1, <1>11 DEF Kept
<1> QED BY <1>1, <1>12 DEF ReadyInv

LEMMA ReadyStep == IInv /\ ReadyInv /\ [SequenceNext]_commandVars => ReadyInv'
<1> SUFFICES ASSUME IInv, ReadyInv, [SequenceNext]_commandVars PROVE ReadyInv'
  OBVIOUS
<1>1. CASE Fail
  <2>1. outcome' = "failed" \/ (failed' = TRUE /\ outcome' = "none")
    BY <1>1 DEF Fail, FailLoad, Stop, Unsent
  <2> QED BY <2>1 DEF ReadyInv
<1>2. CASE Ask \/ AskDepth \/ Send \/ Succeed
  BY <1>2, AskReadyStep, DepthReadyStep, SendReadyStep, SucceedReadyStep
<1>3. CASE ScriptRuns \/ ScriptEnds \/ OthersStart
  BY <1>3, ScriptReadyStep
<1>4. CASE UNCHANGED commandVars
  <2>1. UNCHANGED <<action, config, todo, depth, failed, outcome, mode, running, settings,
                    stack, others, flashVars, symbols>>
    BY <1>4 DEF commandVars, sequenceVars, powerviewVars, targetVars, stackVars
  <2>2. ASSUME Ready PROVE Ready'
    <3>1. settings \subseteq config
      BY <2>2 DEF Ready, SettingsAtEnd
    <3> QED BY <2>1, <2>2, <3>1, Unsaid
  <2>3. ScriptReady => ScriptReady'
    BY <2>1 DEF ScriptReady, Holds
  <2>4. Kept => Kept'
    BY <2>1 DEF Kept, flashVars
  <2> QED BY <2>1, <2>2, <2>3, <2>4 DEF ReadyInv
<1> QED BY <1>1, <1>2, <1>3, <1>4 DEF SequenceNext, Sequencer

LEMMA ReadyInvariant == SequenceSpec => [](IInv /\ ReadyInv)
<1>1. SequenceInit => IInv /\ ReadyInv
  BY Initially, ReadyInitially
<1>2. IInv /\ ReadyInv /\ [SequenceNext]_commandVars => (IInv /\ ReadyInv)'
  BY Inductive, ReadyStep
<1> QED BY <1>1, <1>2, PTL DEF SequenceSpec

(* "flashed", "symbols loaded", "reset, halted at the reset vector" and    *)
(* "attached" are printed only when they are true, for any number of       *)
(* images, every project file and whatever scripts run meanwhile.          *)
THEOREM ReadyAtSuccess == SequenceSpec => []SuccessMeansReady
<1>1. ReadyInv => SuccessMeansReady
  BY DEF ReadyInv, Kept, SuccessMeansReady
<1> QED BY <1>1, ReadyInvariant, PTL

LEMMA OwnOnTop ==
  ASSUME NEW s \in Seq({"own", "other"})
  PROVE  /\ Append(s, "own") # s /\ Append(s, "own") # Append(s, "other")
         /\ s # <<>> => Append(s, "own") # SubSeq(s, 1, Len(s) - 1)
<1> DEFINE mine   == Append(s, "own")
           theirs == Append(s, "other")
           less(n) == SubSeq(s, 1, n)
<1>1. PICK n \in Nat : n = Len(s)
  BY LenProperties
<1>2. Len(mine) = n + 1 /\ mine[n + 1] = "own"
  BY <1>1, AppendProperties
<1>3. theirs[n + 1] = "other"
  BY <1>1, AppendProperties
<1>4. Len(less(n - 1)) = IF 1 <= n - 1 THEN (n - 1) - 1 + 1 ELSE 0
  <2>1. \A i \in 1 .. n - 1 : s[i] \in {"own", "other"}
    BY <1>1, ElementOfSeq
  <2>2. 1 \in Int /\ n - 1 \in Int
    OBVIOUS
  <2> QED BY <2>1, <2>2, SubSeqProperties
<1> HIDE DEF mine, theirs, less
<1>5. mine # s /\ mine # theirs
  BY <1>1, <1>2, <1>3
<1>6. mine # less(n - 1)
  <2>1. Len(mine) # Len(less(n - 1))
    BY <1>2, <1>4
  <2> QED BY <2>1
<1> QED BY <1>1, <1>5, <1>6 DEF mine, theirs, less

(* A step that starts the flash script or enters FLASH.ReProgram mode      *)
(* carries out the command that does.                                      *)
LEMMA StartedByCommand ==
  ASSUME IInv, [SequenceNext]_commandVars,
         stack' = Append(stack, "own") \/ (reprogram' /\ ~reprogram)
  PROVE  /\ Unsent /\ ~failed
         /\ stack' = Append(stack, "own") => command = "DO"
         /\ reprogram' /\ ~reprogram => command = ALL
<1>1. stack \in Seq({"own", "other"}) /\ SequenceTypeOK
  BY DEF IInv, SequenceTypeOK
<1>2. CASE Unsent /\ Effect
  <2>1. reprogram' /\ ~reprogram => command = ALL
    BY <1>2, EffectStep
  <2>2. stack' = Append(stack, "own") => command = "DO"
    <3>1. DoScript \/ stack' = stack
      BY <1>2 DEF Effect, System, Sets, Mode, ReprogramAll, LoadImage, ReprogramOff,
                  LoadNoCode, stackVars
    <3> QED BY <1>1, <3>1, OwnOnTop DEF DoScript
  <2>3. ~failed
    BY <1>2, <2>1, <2>2, AtCommand DEF ALL, OFF
  <2> QED BY <1>2, <2>1, <2>2, <2>3
<1>3. CASE UNCHANGED <<stack, reprogram>>
  BY <1>1, <1>3, OwnOnTop
<1>4. CASE ScriptEnds \/ OthersStart
  <2>1. reprogram' = reprogram
    BY <1>4 DEF ScriptEnds, OthersStart, flashVars
  <2>2. stack' # Append(stack, "own")
    BY <1>1, <1>4, OwnOnTop DEF ScriptEnds, OthersStart
  <2> QED BY <2>1, <2>2
<1>5. \/ Unsent /\ Effect
      \/ UNCHANGED <<stack, reprogram>>
      \/ ScriptEnds \/ OthersStart
  <2>1. CASE SequenceNext
    BY <2>1 DEF SequenceNext, Sequencer, Ask, AskDepth, Send, Fail, Succeed, ScriptRuns, Mode,
                powerviewVars, stackVars, flashVars
  <2>2. CASE UNCHANGED commandVars
    BY <2>2 DEF commandVars, powerviewVars, stackVars, flashVars
  <2> QED BY <2>1, <2>2
<1> QED BY <1>2, <1>3, <1>4, <1>5

(* The flash script is started with the target down and no script active,  *)
(* and the flash is erased only after the script has ended, unless         *)
(* somebody else started a script meanwhile.                               *)
THEOREM EraseComesAfterReset == SequenceSpec => EraseAfterOwnReset
<1> DEFINE Erase ==
             others = 0 =>
               /\ stack' = Append(stack, "own") => mode = "down" /\ stack = <<>>
               /\ reprogram' /\ ~reprogram => stack = <<>>
<1>1. IInv /\ ReadyInv /\ [SequenceNext]_commandVars => [Erase]_commandVars
  <2> SUFFICES ASSUME IInv, ReadyInv, [SequenceNext]_commandVars, others = 0 PROVE
               /\ stack' = Append(stack, "own") => mode = "down" /\ stack = <<>>
               /\ reprogram' /\ ~reprogram => stack = <<>>
    OBVIOUS
  <2>1. ASSUME stack' = Append(stack, "own") PROVE mode = "down" /\ stack = <<>>
    <3>1. Unsent /\ ~failed /\ command = "DO"
      BY <2>1, StartedByCommand
    <3> QED BY <3>1, NeededNow DEF ReadyInv, Unsent, IInv, ScriptNeeds
  <2>2. ASSUME reprogram' /\ ~reprogram PROVE stack = <<>>
    <3>1. Unsent /\ ~failed /\ command = ALL
      BY <2>2, StartedByCommand
    <3> QED BY <3>1, NeededNow DEF ReadyInv, Unsent, IInv, ScriptNeeds
  <2> QED BY <2>1, <2>2
<1> HIDE DEF Erase
<1>2. SequenceSpec => [][Erase]_commandVars
  BY <1>1, ReadyInvariant, PTL DEF SequenceSpec
<1> QED BY <1>2 DEF EraseAfterOwnReset, Erase

=============================================================================
