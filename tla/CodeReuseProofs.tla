-------------------------- MODULE CodeReuseProofs --------------------------
(***************************************************************************)
(* What calls of parallelize may rely on in a directory that earlier calls *)
(* have left, for any number of nodes, any set of compute configs and any  *)
(* number of calls, however they end.                                      *)
(*                                                                         *)
(* The invariant follows a directory through the calls.  As long as no     *)
(* cleanup was cut short (half), the files in it fit together in three     *)
(* ways that the tests at the start of a call rely on (Fits); while a      *)
(* generation writes, they do so up to what is still to be written         *)
(* (Writing).  Own directories differ from the first only in files that    *)
(* are still to be sent (Synced, Cut).                                     *)
(***************************************************************************)
EXTENDS CodeReuse, TLAPS

TypeOK ==
    /\ own \in BOOLEAN /\ half \in BOOLEAN
    /\ phase \in {"idle", "clean", "write", "send", "load"}
    /\ outcome \in {"none", "refused", "loaded", "done", "broken", "failed", "cut"}
    /\ call \in [conf : Confs, reuse : Reuses, stale : SUBSET Files, traced : BOOLEAN]
    /\ todo \subseteq Files /\ unsent \subseteq Files
    /\ calls \in Nat /\ cuts \in Nat
    /\ DOMAIN dir = Node /\ DOMAIN loaded = Node
    /\ \A n \in Node : DOMAIN dir[n] \subseteq Files
    /\ \A n \in Node : \A f \in DOMAIN dir[n] :
           dir[n][f] \in [conf : Confs, trace : Nat, whole : BOOLEAN]

File(f) == dir[1][f]

\* The files of a directory that was never cleaned in part fit together: the
\* last file of a trace has all others beside it, what can be read with the
\* config is of the same graph, and programs belong to the trace and the config.
Fits ==
    /\ Args \in Present => \A f \in TraceFiles : f \in Present /\ File(f).trace = File(Args).trace
    /\ Whole(Config) => /\ \A f \in Present : File(f).conf.graph = File(Config).conf.graph
                        /\ \A f \in Python \cap Present : File(f).conf = File(Config).conf
    /\ \A f \in Python \cap Present : Args \in Present /\ File(f).trace = File(Graph).trace

\* Only a call that is cut short leaves a file that is.
Unharmed == cuts = 0 => ~half /\ \A f \in Present : Whole(f)

\* What is not in the first directory only is on every node.
Synced ==
    /\ ~own => unsent = {}
    /\ own => \A n \in Node : \A f \in Present \ unsent :
                  Whole(f) => f \in DOMAIN dir[n] /\ dir[n][f] = File(f)

\* A program is cut short by a generation that has not sent its config either.
Cut == own => \A f \in Python \cap Present : ~Whole(f) => Config \in unsent

Cleaning ==
    phase = "clean" =>
        /\ call.stale \in {Files, Python, {}}
        /\ call.stale # Files => GraphMatches(call.conf)
        /\ call.stale = {} => Python \cap Present = {}
        /\ call.reuse = "override" => call.stale = Files
        /\ call.reuse = "match" => Python \cap Present = {}

\* What this call has to write: everything, or all but a trace that is kept.
Mine(f) == call.traced \/ f \notin TraceFiles
Written(f) == Whole(f) /\ File(f).conf = call.conf

Kept ==
    /\ ~call.traced => KeptTrace \subseteq Present
    /\ call.reuse = "override" => call.traced /\ ~half

Writing ==
    phase = "write" =>
        /\ Kept
        /\ \A f \in Files \ todo : Mine(f) =>
               /\ Written(f)
               /\ own => f \in unsent
               /\ \A g \in todo : f < g
        /\ \A f \in todo : Mine(f) /\ (f \in Python => f \notin Present)
        /\ call.traced => \A f \in TraceFiles \ todo : File(f).trace = calls
        /\ ~half => /\ \A f \in Present : File(f).conf.graph = call.conf.graph
                    /\ Args \in todo => Args \notin Present

Sending ==
    phase = "send" =>
        /\ Kept /\ own
        /\ \A f \in Files : Mine(f) => Written(f)
        /\ todo \subseteq unsent \cap Present
        /\ call.traced => unsent \subseteq todo

Loading ==
    phase = "load" =>
        /\ ConfigMatches(call.conf)
        /\ Python \cup KeptTrace \subseteq Present
        /\ call.reuse = "override" => ~half /\ unsent = {} /\ \A f \in Files : Whole(f)

\* Nothing is removed or written while programs are loaded.
Using ==
    \/ loaded = Empty
    \/ /\ phase \in {"idle", "load"}
       /\ \A n \in Node : /\ DOMAIN loaded[n] = Needs(n)
                          /\ Code(n) \in DOMAIN Dir(n)
                          /\ loaded[n][Code(n)] = Dir(n)[Code(n)]

Ended == outcome \in {"refused", "broken"} => phase = "idle"

IInv ==
    /\ TypeOK
    /\ ~half => Fits
    /\ Unharmed /\ Synced /\ Cut
    /\ Cleaning /\ Writing /\ Sending /\ Loading
    /\ Using /\ Ended /\ NeverStuck

(***************************************************************************)
(* The numbers of the files.                                               *)
(***************************************************************************)
USE ReuseAssumption

LEMMA Numbers ==
    /\ 1 \in Node /\ Node \subseteq Nat
    /\ Files \subseteq Nat /\ Python \subseteq Files /\ TraceFiles \subseteq Files
    /\ {Config, Meta, Weights, Map, Graph, Args, Final} \subseteq Files
    /\ TraceFiles = {Meta, Weights, Map, Graph, Args}
    /\ KeptTrace \subseteq TraceFiles
    /\ \A n \in Node : Code(n) \in Python
    /\ \A f \in Python : f \notin TraceFiles /\ f # Config /\ f # Final
    /\ Config \notin TraceFiles /\ Final \notin TraceFiles /\ Final # Config
    /\ \A f \in TraceFiles : f <= Args /\ Config < f
    /\ \A f \in Python \cup {Final} : Args < f
    /\ \A f \in Python : f < Final
    /\ \A f \in Files : Config <= f
  BY DEF Node, Files, Python, TraceFiles, KeptTrace, Code, Config, Meta, Weights, Map, Graph,
         Args, Final

\* A file that is not the config, of a trace or the last one is a program.
LEMMA AllFiles == Files = {Config, Final} \cup TraceFiles \cup Python
<1>1. ASSUME NEW f \in Files, f \notin {Config, Final} \cup TraceFiles PROVE f \in Python
  <2>1. f - Args \in Node /\ f = Code(f - Args)
    BY <1>1 DEF Files, Config, Final, TraceFiles, Meta, Args, Node, Code
  <2> QED BY <2>1 DEF Python
<1> QED BY <1>1, Numbers

LEMMA Different == Files # Python /\ Files # {} /\ Python # {}
  BY Numbers

LEMMA InitInv == Init => IInv
<1> SUFFICES ASSUME Init PROVE IInv
  OBVIOUS
<1>1. \A n \in Node : DOMAIN dir[n] = {}
  BY DEF Init, Empty
<1>2. Present = {}
  BY <1>1, Numbers DEF Present
<1>3. TypeOK
  BY <1>1 DEF Init, TypeOK, Empty, Reuses
<1>4. Fits /\ Unharmed /\ Cut /\ Synced
  BY <1>2, Numbers DEF Fits, Unharmed, Cut, Synced, Whole, Init
<1>5. Cleaning /\ Writing /\ Sending /\ Loading /\ Using /\ Ended /\ NeverStuck
  BY DEF Init, Cleaning, Writing, Sending, Loading, Using, Ended, NeverStuck
<1> QED BY <1>3, <1>4, <1>5 DEF IInv

(***************************************************************************)
(* Steps that change no file.                                              *)
(***************************************************************************)
LEMMA FilesKept ==
    ASSUME IInv, UNCHANGED <<own, dir, cuts, unsent, half>>
    PROVE  (~half => Fits)' /\ Unharmed' /\ Synced' /\ Cut'
<1>1. Present' = Present /\ \A f : Whole(f)' = Whole(f) /\ File(f)' = File(f)
  BY DEF Present, Whole, File
<1>2. (~half => Fits)'
  BY <1>1 DEF IInv, Fits
<1>3. Unharmed' /\ Cut'
  BY <1>1 DEF IInv, Unharmed, Cut
<1>4. Synced'
  BY <1>1 DEF IInv, Synced
<1> QED BY <1>2, <1>3, <1>4

\* A call that ends loses what its process has loaded.
LEMMA StopInv ==
    ASSUME IInv, NEW o \in {"broken", "failed", "cut"}, Stop(o),
           TypeOK', (~half => Fits)', Unharmed', Synced', Cut', NeverStuck'
    PROVE  IInv'
<1>1. Cleaning' /\ Writing' /\ Sending' /\ Loading'
  BY DEF Stop, Cleaning, Writing, Sending, Loading
<1>2. Using' /\ Ended'
  BY DEF Stop, Using, Ended, Empty
<1> QED BY <1>1, <1>2 DEF IInv

LEMMA StaleSound ==
    ASSUME NEW c, NEW reuse \in Reuses
    PROVE  /\ Stale(c, reuse) \in {Files, Python, {}}
           /\ Stale(c, reuse) # Files => GraphMatches(c)
           /\ Stale(c, reuse) = {} => Python \cap Present = {}
           /\ reuse = "override" => Stale(c, reuse) = Files
<1>1. CASE reuse = "override"
  BY <1>1, Different DEF Stale
<1>2. CASE reuse = "graph"
  BY <1>2, Different DEF Stale
<1>3. CASE reuse \in {"match", "moo"} /\ Continues(c)
  BY <1>3, Different DEF Stale, Continues, ConfigMatches, GraphMatches
<1>4. CASE reuse \in {"match", "moo"} /\ ~Continues(c)
  BY <1>4, Different DEF Stale
<1> QED BY <1>1, <1>2, <1>3, <1>4 DEF Reuses

\* A call that is not refused and has files to remove is of a process that has
\* loaded nothing.
LEMMA BeginInv ==
    ASSUME IInv, NEW c \in Confs, NEW reuse \in Reuses, Begin(c, reuse)
    PROVE  IInv'
<1>1. (~half => Fits)' /\ Unharmed' /\ Synced' /\ Cut'
  BY FilesKept DEF Begin
<1>2. /\ Present' = Present /\ \A f : Whole(f)' = Whole(f) /\ File(f)' = File(f)
      /\ \A n : Dir(n)' = Dir(n)
  BY DEF Begin, Present, Whole, File, Dir
<1>3. /\ call' = [conf |-> c, reuse |-> reuse, stale |-> Stale(c, reuse), traced |-> FALSE]
      /\ phase' \in {"idle", "load", "clean"}
      /\ outcome' \in {"none", "refused"}
  BY DEF Begin
<1>4. TypeOK'
  <2>1. Stale(c, reuse) \in SUBSET Files
    BY StaleSound, Numbers
  <2>2. call' \in [conf : Confs, reuse : Reuses, stale : SUBSET Files, traced : BOOLEAN]
    BY <1>3, <2>1
  <2>3. calls' \in Nat
    BY DEF Begin, IInv, TypeOK
  <2> QED BY <1>3, <2>2, <2>3 DEF Begin, IInv, TypeOK
<1>5. Cleaning'
  <2> SUFFICES ASSUME phase' = "clean" PROVE Cleaning'
    BY DEF Cleaning
  <2>1. ~Refused(c, reuse) /\ ~Reusable(c, reuse)
    BY DEF Begin
  <2>2. reuse = "match" => Python \cap Present = {}
    BY <2>1 DEF Refused, Reusable, Continues
  <2>3. call'.conf = c /\ call'.reuse = reuse /\ call'.stale = Stale(c, reuse)
    BY <1>3
  <2>4. GraphMatches(call.conf)' = GraphMatches(c)
    BY <1>2, <2>3 DEF GraphMatches, File
  <2>5. (Python \cap Present)' = Python \cap Present
    BY <1>2
  <2> QED BY <2>2, <2>3, <2>4, <2>5, StaleSound DEF Cleaning
<1>6. Writing' /\ Sending'
  BY <1>3 DEF Writing, Sending
<1>7. Loading'
  <2> SUFFICES ASSUME phase' = "load" PROVE Loading'
    BY DEF Loading
  <2>1. Reusable(c, reuse)
    BY DEF Begin
  <2>2. ConfigMatches(c) /\ Python \cup KeptTrace \subseteq Present /\ reuse # "override"
    BY <2>1, Numbers DEF Reusable, Complete
  <2>3. ConfigMatches(call.conf)'
    BY <1>2, <1>3, <2>2 DEF ConfigMatches, File
  <2> QED BY <1>2, <1>3, <2>2, <2>3 DEF Loading
<1>8. Using'
  <2>1. CASE loaded = Empty
    BY <2>1 DEF Using, Begin
  <2>2. CASE loaded # Empty
    <3>1. InUse /\ Code(1) \in Present
      BY <2>2, Numbers DEF IInv, Using, InUse, Needs, Data, Present, Dir
    <3>2. phase' # "clean"
      BY <3>1, Numbers DEF Begin, Refused, Reusable, Reuses, Continues
    <3> QED BY <1>2, <1>3, <2>2, <3>2 DEF IInv, Using, Begin
  <2> QED BY <2>1, <2>2
<1>9. Ended'
  BY DEF Begin, Ended
<1>10. NeverStuck'
  <2>1. outcome' = "refused" => reuse = "match" \/ InUse
    BY DEF Begin, Refused
  <2> QED BY <1>3, <2>1 DEF NeverStuck, InUse, Begin
<1> QED BY <1>1, <1>4, <1>5, <1>6, <1>7, <1>8, <1>9, <1>10 DEF IInv

(***************************************************************************)
(* Removing files.                                                         *)
(***************************************************************************)
DirType(d) ==
    /\ DOMAIN d = Node
    /\ \A n \in Node : DOMAIN d[n] \subseteq Files
    /\ \A n \in Node : \A f \in DOMAIN d[n] :
           d[n][f] \in [conf : Confs, trace : Nat, whole : BOOLEAN]

LEMMA Removed ==
    ASSUME IInv, NEW S, dir' = [dir EXCEPT ![1] = Restrict(@, DOMAIN @ \ S)]
    PROVE  /\ DirType(dir')
           /\ Present' = Present \ S
           /\ \A f \in Present' : File(f)' = File(f)
           /\ \A f : Whole(f)' <=> f \in Present' /\ Whole(f)
           /\ \A n \in Node \ {1} : dir'[n] = dir[n]
<1> DEFINE d == [f \in Present \ S |-> dir[1][f]]
<1>1. dir' = [n \in Node |-> IF n = 1 THEN d ELSE dir[n]]
  BY DEF Restrict, Present, IInv, TypeOK
<1>2. dir'[1] = d /\ \A n \in Node \ {1} : dir'[n] = dir[n]
  BY <1>1, Numbers
<1>3. DOMAIN d = Present \ S /\ \A f \in Present \ S : d[f] = dir[1][f]
  OBVIOUS
<1>4. Present' = Present \ S /\ \A f \in Present' : File(f)' = File(f)
  BY <1>2, <1>3 DEF Present, File
<1> HIDE DEF d
<1>5. DirType(dir')
  BY <1>1, <1>2, <1>3, Numbers DEF IInv, TypeOK, DirType, Present
<1>6. \A f : Whole(f)' <=> f \in Present' /\ Whole(f)
  BY <1>4 DEF Whole, File
<1> QED BY <1>2, <1>4, <1>5, <1>6

LEMMA RemovedInv ==
    ASSUME IInv, NEW S, dir' = [dir EXCEPT ![1] = Restrict(@, DOMAIN @ \ S)],
           UNCHANGED <<own, unsent>>, cuts' = 0 => cuts = 0 /\ (half' => half)
    PROVE  Unharmed' /\ Synced' /\ Cut'
<1> USE Removed
<1>1. Unharmed'
  BY DEF IInv, Unharmed
<1>2. Synced'
  <2>1. ASSUME own, NEW n \in Node, NEW f \in Present' \ unsent, Whole(f)
        PROVE  f \in DOMAIN dir'[n] /\ dir'[n][f] = File(f)'
    <3>1. f \in Present /\ File(f)' = File(f)
      BY <2>1
    <3>2. f \in DOMAIN dir[n] /\ dir[n][f] = File(f)
      BY <2>1, <3>1 DEF IInv, Synced
    <3>3. CASE n = 1
      BY <2>1, <3>1, <3>3 DEF Present, File
    <3>4. CASE n # 1
      BY <3>1, <3>2, <3>4
    <3> QED BY <3>3, <3>4
  <2> QED BY <2>1 DEF IInv, Synced
<1>3. Cut'
  BY DEF IInv, Cut
<1> QED BY <1>1, <1>2, <1>3

\* After a cleanup no program is left, and a trace is left whole or is to be made.
LEMMA CleanInv == ASSUME IInv, Clean PROVE IInv'
<1> DEFINE S == call.stale
           traced == ~(KeptTrace \subseteq Present')
<1>1. /\ phase = "clean" /\ phase' = "write"
      /\ dir' = [dir EXCEPT ![1] = Restrict(@, DOMAIN @ \ S)]
      /\ call' = [call EXCEPT !.traced = traced]
      /\ todo' = IF traced THEN Files ELSE Files \ TraceFiles
      /\ half' = (half /\ S # Files)
      /\ UNCHANGED <<own, loaded, calls, cuts, unsent, outcome>>
  BY DEF Clean, Present
<1>2. /\ DirType(dir')
      /\ Present' = Present \ S
      /\ \A f \in Present' : File(f)' = File(f)
      /\ \A f : Whole(f)' <=> f \in Present' /\ Whole(f)
  BY <1>1, Removed
<1>3. /\ call'.conf = call.conf /\ call'.reuse = call.reuse /\ call'.traced = traced
      /\ call' \in [conf : Confs, reuse : Reuses, stale : SUBSET Files, traced : BOOLEAN]
  BY <1>1 DEF IInv, TypeOK
<1> HIDE DEF traced
<1>4. TypeOK'
  BY <1>1, <1>2, <1>3, Numbers DEF IInv, TypeOK, DirType
<1>5. /\ S \in {Files, Python, {}}
      /\ S # Files => GraphMatches(call.conf)
      /\ S = {} => Python \cap Present = {}
      /\ call.reuse = "override" => S = Files
  BY <1>1 DEF IInv, Cleaning
<1>6. /\ S = Files => Present' = {}
      /\ Python \cap Present' = {}
  BY <1>2, <1>5, Numbers DEF IInv, TypeOK, Present
<1>7. (~half => Fits)'
  <2>1. CASE S = Files
    BY <1>6, <2>1 DEF Fits, Whole
  <2>2. CASE S # Files
    <3> SUFFICES ASSUME ~half PROVE Fits'
      BY <1>1, <2>2
    <3>1. Fits /\ S \subseteq Python
      BY <1>5, <2>2 DEF IInv
    <3>2. Args \in Present' => \A f \in TraceFiles : f \in Present' /\ File(f)' = File(f)
      BY <1>2, <3>1, Numbers DEF Fits
    <3>3. Whole(Config)' => Whole(Config) /\ File(Config)' = File(Config)
      BY <1>2, <3>1, Numbers DEF Whole
    <3> QED BY <1>2, <1>6, <3>1, <3>2, <3>3, Numbers DEF Fits
  <2> QED BY <2>1, <2>2
<1>8. Unharmed' /\ Synced' /\ Cut'
  <2>1. cuts' = 0 => cuts = 0 /\ (half' => half)
    BY <1>1 DEF IInv, Unharmed
  <2> QED BY <1>1, <2>1, RemovedInv
<1>9. Cleaning' /\ Sending' /\ Loading' /\ Ended'
  BY <1>1 DEF Cleaning, Sending, Loading, Ended, IInv
<1>10. Kept'
  BY <1>1, <1>3, <1>5, <1>6 DEF Kept, KeptTrace, traced
<1>11. \A f \in Files : Mine(f)' <=> f \in todo'
  BY <1>1, <1>3, Numbers DEF Mine
<1>12. ASSUME ~half'
       PROVE  /\ \A f \in Present' : File(f)'.conf.graph = call.conf.graph
              /\ Args \in todo' => Args \notin Present'
  <2>1. \A f \in Present' : File(f)'.conf.graph = call.conf.graph
    <3>1. CASE S = Files
      BY <1>6, <3>1
    <3>2. CASE S # Files
      <4>1. Fits /\ Whole(Config) /\ File(Config).conf.graph = call.conf.graph
        BY <1>1, <1>5, <1>12, <3>2 DEF IInv, GraphMatches, File
      <4> QED BY <1>2, <4>1 DEF Fits
    <3> QED BY <3>1, <3>2
  <2>2. ASSUME Args \in todo', Args \in Present' PROVE FALSE
    <3>1. traced
      BY <1>1, <2>2, Numbers
    <3>2. TraceFiles \subseteq Present'
      BY <1>7, <1>12, <2>2 DEF Fits
    <3> QED BY <3>1, <3>2, Numbers DEF traced
  <2> QED BY <2>1, <2>2
<1>13. Writing'
  <2>1. call'.traced => TraceFiles \subseteq todo'
    BY <1>1, <1>3, Numbers
  <2>2. todo' \subseteq Files
    BY <1>1
  <2> QED BY <1>3, <1>6, <1>10, <1>11, <1>12, <2>1, <2>2 DEF Writing
<1>14. Using'
  <2>1. loaded = Empty
    BY <1>1 DEF IInv, Using
  <2> QED BY <1>1, <2>1 DEF Using, Empty
<1>15. NeverStuck'
  BY <1>1, <1>3 DEF IInv, Ended, NeverStuck
<1> QED BY <1>4, <1>7, <1>8, <1>9, <1>13, <1>14, <1>15 DEF IInv

(***************************************************************************)
(* Writing a file.                                                         *)
(***************************************************************************)
Content == [conf : Confs, trace : Nat, whole : BOOLEAN]

LEMMA Placed ==
    ASSUME IInv, NEW f \in Files, NEW c \in Content,
           dir' = [dir EXCEPT ![1] = Put(@, f, c)]
    PROVE  /\ DirType(dir')
           /\ Present' = Present \cup {f}
           /\ File(f)' = c /\ \A g \in Present \ {f} : File(g)' = File(g)
           /\ Whole(f)' <=> c.whole
           /\ \A g \in Files \ {f} : Whole(g)' <=> Whole(g)
           /\ \A n \in Node \ {1} : dir'[n] = dir[n]
<1> DEFINE d == [g \in Present \cup {f} |-> IF g = f THEN c ELSE dir[1][g]]
<1>1. dir' = [n \in Node |-> IF n = 1 THEN d ELSE dir[n]]
  BY DEF Put, Present, IInv, TypeOK
<1>2. dir'[1] = d /\ \A n \in Node \ {1} : dir'[n] = dir[n]
  BY <1>1, Numbers
<1>3. /\ DOMAIN d = Present \cup {f} /\ d[f] = c
      /\ \A g \in Present \ {f} : d[g] = dir[1][g]
  OBVIOUS
<1> HIDE DEF d
<1>4. /\ Present' = Present \cup {f} /\ File(f)' = c
      /\ \A g \in Present \ {f} : File(g)' = File(g)
  BY <1>2, <1>3 DEF Present, File
<1>5. DirType(dir')
  <2>1. ASSUME NEW n \in Node, NEW g \in DOMAIN dir'[n]
        PROVE  g \in Files /\ dir'[n][g] \in Content
    <3>1. CASE n = 1
      BY <1>2, <1>3, <2>1, <3>1 DEF IInv, TypeOK, Present, Content
    <3>2. CASE n # 1
      BY <1>2, <2>1, <3>2 DEF IInv, TypeOK, Content
    <3> QED BY <3>1, <3>2
  <2> QED BY <1>1, <2>1 DEF DirType, Content
<1>6. Whole(f)' <=> c.whole
  BY <1>4 DEF Whole, File
<1>7. \A g \in Files \ {f} : Whole(g)' <=> Whole(g)
  BY <1>4 DEF Whole, File
<1> QED BY <1>2, <1>4, <1>5, <1>6, <1>7

\* Where a generation stands when it writes f.
LEMMA Turn ==
    ASSUME IInv, phase = "write", Readable, NEW f \in todo, First(f)
    PROVE  /\ f \in Files /\ Mine(f)
           /\ f \in Python => f \notin Present
           /\ \A g \in Files : g < f => g \notin todo
           /\ f # Config => Config \notin todo
           /\ f = Final \/ f \in Python =>
                /\ Graph \in Present /\ Args \in Present
                /\ todo \cap TraceFiles = {}
           /\ f \in TraceFiles => call.traced /\ Python \cap Present = {}
           /\ New(f) \in Content
<1>1. /\ f \in Files /\ Mine(f) /\ (f \in Python => f \notin Present)
      /\ \A g \in todo : f <= g /\ g \in Nat
  BY Numbers DEF IInv, TypeOK, Writing, First
<1>2. \A g \in Files : g < f => g \notin todo
  <2> SUFFICES ASSUME NEW g \in Files, g < f, g \in todo PROVE FALSE
    OBVIOUS
  <2>1. f <= g /\ f \in Nat /\ g \in Nat
    BY <1>1, Numbers
  <2> QED BY <2>1
<1>3. f # Config => Config \notin todo
  <2>1. f # Config => Config < f
    BY <1>1, Numbers DEF Files, Config
  <2> QED BY <1>2, <2>1, Numbers
<1>4. ASSUME f = Final \/ f \in Python
      PROVE  Graph \in Present /\ Args \in Present /\ todo \cap TraceFiles = {}
  <2>1. ASSUME NEW g \in TraceFiles PROVE g < f /\ g \in Files
    <3>1. g <= Args /\ Args < f /\ g \in Files
      BY <1>4, <1>1, Numbers
    <3> QED BY <1>1, <3>1, Numbers DEF Args
  <2>2. todo \cap TraceFiles = {}
    BY <1>2, <2>1
  <2>3. Graph \in Files \ todo /\ Args \in Files \ todo
    BY <2>1, <2>2, Numbers
  <2>4. CASE call.traced
    BY <2>2, <2>3, <2>4 DEF IInv, Writing, Mine, Written, Whole
  <2>5. CASE ~call.traced
    BY <2>2, <2>5 DEF IInv, Writing, Kept, KeptTrace
  <2> QED BY <2>2, <2>4, <2>5
<1>5. ASSUME f \in TraceFiles PROVE call.traced /\ Python \cap Present = {}
  <2>1. call.traced
    BY <1>1, <1>5 DEF Mine
  <2>2. ASSUME NEW g \in Python \cap Present PROVE FALSE
    <3>1. g \in Files \ todo /\ Mine(g)
      BY <2>2, Numbers DEF IInv, Writing, Mine
    <3>2. g < f
      BY <3>1 DEF IInv, Writing
    <3>3. f < g
      <4>1. f <= Args /\ Args < g
        BY <1>5, Numbers
      <4> QED BY <4>1, <3>1, <1>1, Numbers DEF Args
    <3> QED BY <3>2, <3>3, <3>1, <1>1, Numbers
  <2> QED BY <2>1, <2>2
<1>6. New(f) \in Content
  <2>1. call.conf \in Confs /\ calls \in Nat
    BY DEF IInv, TypeOK
  <2>2. f = Config \/ f \in TraceFiles \/ dir[1][Graph].trace \in Nat
    BY <1>1, <1>4, AllFiles, Numbers DEF IInv, TypeOK, Present
  <2>3. CASE f = Config
    BY <2>1, <2>3 DEF New, Content
  <2>4. CASE f \in TraceFiles
    BY <2>1, <2>4, Numbers DEF New, Content
  <2>5. CASE f # Config /\ f \notin TraceFiles
    BY <2>1, <2>2, <2>5 DEF New, Content
  <2> QED BY <2>3, <2>4, <2>5
<1> QED BY <1>1, <1>2, <1>3, <1>4, <1>5, <1>6

\* A program is written after the config.
LEMMA ProgramLast ==
    ASSUME IInv, phase = "write", NEW p \in Python \cap Present
    PROVE  p \notin todo /\ Config \notin todo /\ Written(p)
<1>1. p \in Files \ todo /\ Mine(p)
  BY Numbers DEF IInv, Writing, Mine
<1>2. Written(p) /\ \A g \in todo : p < g
  BY <1>1 DEF IInv, Writing
<1>3. ~(p < Config)
  BY <1>1, Numbers DEF Config
<1> QED BY <1>1, <1>2, <1>3

LEMMA PlacedFits ==
    ASSUME IInv, phase = "write", Readable, NEW f \in todo, First(f), ~half,
           NEW c \in Content, c.conf = call.conf, c.trace = New(f).trace,
           dir' = [dir EXCEPT ![1] = Put(@, f, c)]
    PROVE  Fits'
<1>1. /\ f \in Files /\ Mine(f)
      /\ f \in Python => f \notin Present
      /\ \A g \in Files : g < f => g \notin todo
      /\ f # Config => Config \notin todo
      /\ f = Final \/ f \in Python => Graph \in Present /\ Args \in Present
      /\ f \in TraceFiles => call.traced /\ Python \cap Present = {}
  BY Turn
<1>2. /\ Present' = Present \cup {f}
      /\ File(f)' = c /\ \A g \in Present \ {f} : File(g)' = File(g)
      /\ \A g \in Files \ {f} : Whole(g)' <=> Whole(g)
  BY <1>1, Placed
<1>3. Fits /\ \A g \in Present : File(g).conf.graph = call.conf.graph
  BY DEF IInv, Writing
<1>4. \A g \in Files \ todo : Mine(g) => Written(g) /\ g \in Present
  BY DEF IInv, Writing, Written, Whole
<1>5. ASSUME Args \in Present', NEW g \in TraceFiles
      PROVE  g \in Present' /\ File(g)'.trace = File(Args)'.trace
  <2>1. CASE f \notin TraceFiles
    <3>1. Args # f /\ g # f
      BY <2>1, Numbers
    <3>2. Args \in Present
      BY <1>2, <1>5, <3>1
    <3>3. g \in Present /\ File(g).trace = File(Args).trace
      BY <1>3, <3>2 DEF Fits
    <3> QED BY <1>2, <3>1, <3>2, <3>3
  <2>2. CASE f \in TraceFiles /\ f # Args
    <3>1. f < Args /\ call.traced
      BY <1>1, <2>2, Numbers DEF Args
    <3>2. Args \in todo
      <4> SUFFICES ASSUME Args \notin todo PROVE FALSE
        OBVIOUS
      <4>1. Args < f
        BY <3>1, Numbers DEF IInv, Writing, Mine
      <4> QED BY <3>1, <4>1, <1>1, Numbers DEF Args
    <3> QED BY <1>2, <1>3, <1>5, <2>2, <3>2 DEF IInv, Writing
  <2>3. CASE f = Args
    <3>1. call.traced /\ c.trace = calls
      BY <1>1, <2>3, Numbers DEF New
    <3>2. CASE g = Args
      BY <1>2, <2>3, <3>2
    <3>3. CASE g # Args
      <4>1. g < f /\ g \in Files
        BY <2>3, <3>3, Numbers DEF Args
      <4>2. g \in TraceFiles \ todo /\ g \in Present
        BY <1>1, <1>4, <3>1, <4>1 DEF Mine
      <4>3. File(g).trace = calls
        BY <3>1, <4>2 DEF IInv, Writing
      <4> QED BY <1>2, <2>3, <3>1, <3>3, <4>2, <4>3
    <3> QED BY <3>2, <3>3
  <2> QED BY <2>1, <2>2, <2>3
<1>6. ASSUME Whole(Config)'
      PROVE  /\ \A g \in Present' : File(g)'.conf.graph = File(Config)'.conf.graph
             /\ \A g \in Python \cap Present' : File(g)'.conf = File(Config)'.conf
  <2>1. File(Config)'.conf = call.conf
    <3>1. CASE f = Config
      BY <1>2, <3>1
    <3>2. CASE f # Config
      <4>1. Written(Config) /\ Config \in Present
        BY <1>1, <1>4, <3>2, Numbers DEF Mine
      <4> QED BY <1>2, <3>2, <4>1 DEF Written
    <3> QED BY <3>1, <3>2
  <2>2. \A g \in Present' : File(g)'.conf.graph = call.conf.graph
    BY <1>2, <1>3
  <2>3. ASSUME NEW g \in Python \cap Present' PROVE File(g)'.conf = call.conf
    <3>1. CASE g = f
      BY <1>2, <3>1
    <3>2. CASE g # f
      <4>1. Written(g) /\ g \in Present
        BY <1>2, <2>3, <3>2, ProgramLast
      <4> QED BY <1>2, <3>2, <4>1 DEF Written
    <3> QED BY <3>1, <3>2
  <2> QED BY <2>1, <2>2, <2>3
<1>7. ASSUME NEW g \in Python \cap Present'
      PROVE  Args \in Present' /\ File(g)'.trace = File(Graph)'.trace
  <2>1. f \notin TraceFiles
    BY <1>1, <1>2, <1>7, Numbers
  <2>2. f # Graph /\ f # Args
    BY <2>1, Numbers
  <2>3. CASE g = f
    <3>1. Graph \in Present /\ Args \in Present
      BY <1>1, <1>7, <2>3
    <3>2. c.trace = File(Graph).trace
      BY <1>7, <2>1, <2>3, Numbers DEF New, File
    <3> QED BY <1>2, <2>2, <2>3, <3>1, <3>2
  <2>4. CASE g # f
    <3>1. g \in Python \cap Present
      BY <1>2, <1>7, <2>4
    <3>2. Args \in Present /\ Graph \in Present /\ File(g).trace = File(Graph).trace
      BY <1>3, <3>1, Numbers DEF Fits
    <3> QED BY <1>2, <2>2, <2>4, <3>1, <3>2
  <2> QED BY <2>3, <2>4
<1> QED BY <1>5, <1>6, <1>7 DEF Fits

\* A file that is cut short is one of a call that is.
LEMMA PlacedInv ==
    ASSUME IInv, phase = "write", Readable, NEW f \in todo, First(f),
           NEW c \in Content, dir' = [dir EXCEPT ![1] = Put(@, f, c)],
           UNCHANGED <<own, half>>, cuts' = 0 => cuts = 0 /\ c.whole,
           unsent' = IF own /\ c.whole THEN unsent \cup {f} ELSE unsent
    PROVE  Unharmed' /\ Synced' /\ Cut'
<1>1. /\ f \in Files /\ Mine(f)
      /\ f # Config => Config \notin todo
  BY Turn
<1>2. /\ Present' = Present \cup {f} /\ Present \subseteq Files
      /\ File(f)' = c /\ \A g \in Present \ {f} : File(g)' = File(g)
      /\ Whole(f)' <=> c.whole
      /\ \A g \in Files \ {f} : Whole(g)' <=> Whole(g)
      /\ \A n \in Node \ {1} : dir'[n] = dir[n]
  BY <1>1, Placed, Numbers DEF IInv, TypeOK, Present
<1>3. Unharmed'
  <2> SUFFICES ASSUME cuts' = 0 PROVE ~half /\ \A g \in Present' : Whole(g)'
    BY DEF Unharmed
  <2> QED BY <1>2 DEF IInv, Unharmed
<1>4. Synced'
  <2>1. ~own' => unsent' = {}
    BY DEF IInv, Synced
  <2>2. ASSUME own, NEW n \in Node, NEW g \in Present' \ unsent', Whole(g)'
        PROVE  g \in DOMAIN dir'[n] /\ dir'[n][g] = File(g)'
    <3>1. g # f
      BY <1>2, <2>2
    <3>2. g \in Present \ unsent /\ Whole(g) /\ File(g)' = File(g)
      BY <1>2, <2>2, <3>1
    <3>3. g \in DOMAIN dir[n] /\ dir[n][g] = File(g)
      BY <2>2, <3>2 DEF IInv, Synced
    <3>4. CASE n = 1
      BY <2>2, <3>4 DEF Present, File
    <3>5. CASE n # 1
      BY <1>2, <3>2, <3>3, <3>5
    <3> QED BY <3>4, <3>5
  <2> QED BY <2>1, <2>2 DEF Synced
<1>5. Cut'
  <2> SUFFICES ASSUME own, NEW p \in Python \cap Present', ~Whole(p)' PROVE Config \in unsent'
    BY DEF Cut
  <2>1. CASE p = f
    <3>1. Config \in Files \ todo /\ Mine(Config)
      BY <1>1, <2>1, Numbers DEF Mine
    <3> QED BY <3>1 DEF IInv, Writing
  <2>2. CASE p # f
    <3>1. p \in Python \cap Present /\ ~Whole(p)
      BY <1>2, <2>2
    <3> QED BY <3>1 DEF IInv, Cut
  <2> QED BY <2>1, <2>2
<1> QED BY <1>3, <1>4, <1>5

LEMMA WriteInv == ASSUME IInv, Write PROVE IInv'
<1> PICK f \in todo :
        /\ First(f)
        /\ dir' = [dir EXCEPT ![1] = Put(@, f, New(f))]
        /\ unsent' = IF own THEN unsent \cup {f} ELSE {}
        /\ todo' = todo \ {f}
  BY DEF Write
<1>1. /\ phase = "write" /\ Readable
      /\ UNCHANGED <<own, phase, call, loaded, calls, cuts, half, outcome>>
  BY DEF Write
<1>2. /\ f \in Files /\ Mine(f) /\ New(f) \in Content
      /\ \A g \in Files : g < f => g \notin todo
  BY <1>1, Turn
<1>3. New(f).conf = call.conf /\ New(f).whole /\ (f \in TraceFiles => New(f).trace = calls)
  BY Numbers DEF New
<1>4. /\ DirType(dir')
      /\ Present' = Present \cup {f} /\ Present \subseteq Files
      /\ File(f)' = New(f) /\ \A g \in Present \ {f} : File(g)' = File(g)
      /\ Whole(f)' /\ \A g \in Files \ {f} : Whole(g)' <=> Whole(g)
  BY <1>2, <1>3, Placed, Numbers DEF IInv, TypeOK, Present
<1>5. TypeOK'
  BY <1>1, <1>2, <1>4 DEF IInv, TypeOK, DirType
<1>6. (~half => Fits)'
  BY <1>1, <1>2, <1>3, PlacedFits
<1>7. Unharmed' /\ Synced' /\ Cut'
  <2>1. unsent' = IF own /\ New(f).whole THEN unsent \cup {f} ELSE unsent
    BY <1>3 DEF IInv, Synced
  <2> QED BY <1>1, <1>2, <1>3, <2>1, PlacedInv
<1>8. Cleaning' /\ Sending' /\ Loading' /\ Ended' /\ NeverStuck'
  BY <1>1 DEF Cleaning, Sending, Loading, Ended, NeverStuck, IInv
<1>9. Using'
  BY <1>1 DEF IInv, Using
<1>10. Writing'
  <2>1. Kept'
    BY <1>1, <1>4 DEF IInv, Writing, Kept
  <2>2. ASSUME NEW g \in Files \ todo', Mine(g)
        PROVE  Written(g)' /\ (own => g \in unsent') /\ \A h \in todo' : g < h
    <3>1. CASE g = f
      <4>1. \A h \in todo' : f < h
        <5> SUFFICES ASSUME NEW h \in todo' PROVE f < h
          OBVIOUS
        <5>1. f <= h /\ f # h /\ h \in Nat /\ f \in Nat
          BY <1>2, Numbers DEF First, IInv, TypeOK
        <5> QED BY <5>1
      <4> QED BY <1>1, <1>3, <1>4, <3>1, <4>1 DEF Written
    <3>2. CASE g # f
      <4>1. /\ Written(g) /\ g \in Present
            /\ own => g \in unsent
            /\ \A h \in todo : g < h
        BY <1>1, <2>2, <3>2 DEF IInv, Writing, Written, Whole
      <4> QED BY <1>1, <1>4, <2>2, <3>2, <4>1 DEF Written
    <3> QED BY <3>1, <3>2
  <2>3. ASSUME NEW g \in todo' PROVE Mine(g) /\ (g \in Python => g \notin Present')
    BY <1>1, <1>4 DEF IInv, Writing
  <2>4. ASSUME call.traced, NEW g \in TraceFiles \ todo' PROVE File(g)'.trace = calls
    <3>1. CASE g = f
      BY <1>3, <1>4, <2>4, <3>1
    <3>2. CASE g # f
      <4>1. g \in Present /\ File(g).trace = calls
        BY <1>1, <2>4, <3>2, Numbers DEF IInv, Writing, Mine, Written, Whole
      <4> QED BY <1>4, <3>2, <4>1
    <3> QED BY <3>1, <3>2
  <2>5. ASSUME ~half
        PROVE  /\ \A g \in Present' : File(g)'.conf.graph = call.conf.graph
               /\ Args \in todo' => Args \notin Present'
    BY <1>1, <1>3, <1>4, <2>5 DEF IInv, Writing
  <2>6. \A g : Mine(g)' <=> Mine(g)
    BY <1>1 DEF Mine
  <2> QED BY <1>1, <2>1, <2>2, <2>3, <2>4, <2>5, <2>6 DEF Writing
<1> QED BY <1>5, <1>6, <1>7, <1>8, <1>9, <1>10 DEF IInv

(***************************************************************************)
(* Sending files.                                                          *)
(***************************************************************************)
LEMMA GeneratedInv == ASSUME IInv, Generated PROVE IInv'
<1>1. /\ phase = "write" /\ todo = {}
      /\ phase' = IF own THEN "send" ELSE "load"
      /\ todo' = IF own THEN ToSend ELSE {}
      /\ UNCHANGED <<own, dir, call, loaded, calls, cuts, unsent, half, outcome>>
  BY DEF Generated
<1>2. Present' = Present /\ \A f : Whole(f)' = Whole(f) /\ File(f)' = File(f)
  BY <1>1 DEF Present, Whole, File
<1>3. /\ Present \subseteq Files
      /\ \A f \in Files : Mine(f) => Written(f) /\ f \in Present /\ (own => f \in unsent)
      /\ Kept
  BY <1>1, Numbers DEF IInv, TypeOK, Present, Writing, Written, Whole
<1>4. TypeOK'
  BY <1>1, <1>3 DEF IInv, TypeOK, ToSend
<1>5. (~half => Fits)' /\ Unharmed' /\ Synced' /\ Cut'
  BY <1>1, FilesKept
<1>6. Cleaning' /\ Writing' /\ Ended' /\ NeverStuck'
  BY <1>1 DEF Cleaning, Writing, IInv, Ended, NeverStuck
<1>7. Sending'
  <2> SUFFICES ASSUME own PROVE Sending'
    BY <1>1 DEF Sending
  <2>1. \A f \in todo' : f \in Files /\ Mine(f) /\ f \in Present
    BY <1>1, <1>3, Numbers DEF ToSend, Mine
  <2>2. call.traced => unsent \subseteq todo'
    BY <1>1, <1>3 DEF ToSend, IInv, TypeOK, Mine
  <2>3. \A f \in Files : Mine(f) => Written(f)'
    BY <1>1, <1>2, <1>3 DEF Written
  <2> QED BY <1>1, <1>2, <1>3, <2>1, <2>2, <2>3 DEF Sending, Kept, Mine
<1>8. Loading'
  <2> SUFFICES ASSUME ~own PROVE Loading'
    BY <1>1 DEF Loading
  <2>1. Written(Config)
    BY <1>3, Numbers DEF Mine
  <2>2. ConfigMatches(call.conf)'
    BY <1>1, <1>2, <2>1 DEF Written, ConfigMatches, File
  <2>3. Python \cup KeptTrace \subseteq Present
    BY <1>3, Numbers DEF Mine, Kept
  <2>4. call.reuse = "override" => ~half /\ unsent = {} /\ \A f \in Files : Whole(f)
    BY <1>3 DEF IInv, Synced, Kept, Mine, Written
  <2> QED BY <1>1, <1>2, <2>2, <2>3, <2>4 DEF Loading
<1>9. Using'
  BY <1>1 DEF IInv, Using, Empty
<1> QED BY <1>4, <1>5, <1>6, <1>7, <1>8, <1>9 DEF IInv

LEMMA AllReceived ==
    ASSUME IInv, NEW f \in Files, NEW c \in Content, dir' = Receive(f, c)
    PROVE  /\ DirType(dir') /\ dir'[1] = dir[1]
           /\ \A n \in Node \ {1} :
                /\ DOMAIN dir'[n] = DOMAIN dir[n] \cup {f} /\ dir'[n][f] = c
                /\ \A g \in DOMAIN dir[n] \ {f} : dir'[n][g] = dir[n][g]
<1>1. DOMAIN dir' = Node /\ dir'[1] = dir[1]
  BY Numbers DEF Receive
<1>2. ASSUME NEW n \in Node \ {1}
      PROVE  /\ DOMAIN dir'[n] = DOMAIN dir[n] \cup {f} /\ dir'[n][f] = c
             /\ \A g \in DOMAIN dir[n] \ {f} : dir'[n][g] = dir[n][g]
  BY DEF Receive, Put
<1>3. DirType(dir')
  <2>1. ASSUME NEW n \in Node, NEW g \in DOMAIN dir'[n]
        PROVE  g \in Files /\ dir'[n][g] \in Content
    <3>1. CASE n = 1
      BY <1>1, <2>1, <3>1 DEF IInv, TypeOK, Content
    <3>2. CASE n # 1
      BY <1>2, <2>1, <3>2 DEF IInv, TypeOK, Content
    <3> QED BY <3>1, <3>2
  <2> QED BY <1>1, <2>1 DEF DirType, Content
<1> QED BY <1>1, <1>2, <1>3

\* What is sent in part changes one file on some of the other nodes.
LEMMA PartReceived ==
    ASSUME IInv, NEW f \in Files, NEW c \in Content, NEW got, NEW part,
           dir' = ReceivePart(f, c, got, part)
    PROVE  /\ DirType(dir') /\ dir'[1] = dir[1]
           /\ \A n \in Node \ {1} : \A g \in DOMAIN dir[n] \ {f} :
                  g \in DOMAIN dir'[n] /\ dir'[n][g] = dir[n][g]
<1>1. [c EXCEPT !.whole = FALSE] \in Content
  BY DEF Content
<1>2. PICK d : d = [c EXCEPT !.whole = FALSE]
  OBVIOUS
<1>3. DOMAIN dir' = Node /\ dir'[1] = dir[1]
  BY Numbers DEF ReceivePart
<1>4. \A n \in Node : dir'[n] \in {dir[n], Put(dir[n], f, c), Put(dir[n], f, d)}
  BY <1>2 DEF ReceivePart
<1>5. \A n \in Node, x \in {c, d} :
         /\ \A g \in DOMAIN Put(dir[n], f, x) : /\ g \in DOMAIN dir[n] \cup {f}
                                                /\ Put(dir[n], f, x)[g] \in {x, dir[n][g]}
                                                /\ g \notin DOMAIN dir[n] => Put(dir[n], f, x)[g] = x
         /\ \A g \in DOMAIN dir[n] \ {f} : /\ g \in DOMAIN Put(dir[n], f, x)
                                           /\ Put(dir[n], f, x)[g] = dir[n][g]
  BY DEF Put
<1>6. DirType(dir')
  <2>1. ASSUME NEW n \in Node, NEW g \in DOMAIN dir'[n]
        PROVE  g \in Files /\ dir'[n][g] \in Content
    <3>1. \A h \in DOMAIN dir[n] : h \in Files /\ dir[n][h] \in Content
      BY DEF IInv, TypeOK, Content
    <3>2. CASE dir'[n] = dir[n]
      BY <2>1, <3>1, <3>2
    <3>3. ASSUME NEW x \in {c, d}, dir'[n] = Put(dir[n], f, x)
          PROVE  g \in Files /\ dir'[n][g] \in Content
      <4>1. /\ g \in DOMAIN dir[n] \cup {f} /\ dir'[n][g] \in {x, dir[n][g]}
            /\ g \notin DOMAIN dir[n] => dir'[n][g] = x
        BY <1>5, <2>1, <3>3
      <4>2. x \in Content
        BY <1>1, <1>2
      <4> QED BY <3>1, <4>1, <4>2
    <3> QED BY <1>4, <3>2, <3>3
  <2> QED BY <1>3, <2>1 DEF DirType, Content
<1>7. \A n \in Node \ {1} : \A g \in DOMAIN dir[n] \ {f} :
          g \in DOMAIN dir'[n] /\ dir'[n][g] = dir[n][g]
  BY <1>4, <1>5
<1> QED BY <1>3, <1>6, <1>7

\* A file that is still to be sent may be in any state on the other nodes.
LEMMA ReceivedInv ==
    ASSUME IInv, NEW f \in Files, dir'[1] = dir[1],
           \A n \in Node \ {1} : \A g \in DOMAIN dir[n] \ {f} :
               g \in DOMAIN dir'[n] /\ dir'[n][g] = dir[n][g],
           UNCHANGED <<own, half>>, cuts' = 0 => cuts = 0,
           phase = "send", unsent' \subseteq unsent, \A g \in unsent \ unsent' : g = f,
           \/ f \in unsent'
           \/ \A n \in Node \ {1} : f \in DOMAIN dir'[n] /\ dir'[n][f] = File(f)
    PROVE  (~half => Fits)' /\ Unharmed' /\ Synced' /\ Cut'
<1>2. Present' = Present /\ \A g : Whole(g)' = Whole(g) /\ File(g)' = File(g)
  BY DEF Present, Whole, File
<1>3. (~half => Fits)' /\ Unharmed'
  BY <1>2 DEF IInv, Fits, Unharmed
<1>4. Synced'
  <2>1. ~own' => unsent' = {}
    BY DEF IInv, Synced
  <2>2. ASSUME own, NEW n \in Node, NEW g \in Present \ unsent', Whole(g)
        PROVE  g \in DOMAIN dir'[n] /\ dir'[n][g] = File(g)
    <3>1. CASE n = 1
      BY <2>2, <3>1 DEF Present, File
    <3>2. CASE n # 1 /\ g = f
      BY <2>2, <3>2
    <3>3. CASE n # 1 /\ g # f
      <4>1. g \in DOMAIN dir[n] /\ dir[n][g] = File(g)
        BY <2>2, <3>3 DEF IInv, Synced
      <4> QED BY <3>3, <4>1
    <3> QED BY <3>1, <3>2, <3>3
  <2> QED BY <1>2, <2>1, <2>2 DEF Synced
<1>5. Cut'
  <2>1. \A p \in Python : Whole(p)
    BY Numbers DEF IInv, Sending, Written, Mine
  <2> QED BY <1>2, <2>1 DEF Cut
<1> QED BY <1>3, <1>4, <1>5

LEMMA SendInv == ASSUME IInv, Send PROVE IInv'
<1> PICK f \in todo :
        /\ dir' = Receive(f, dir[1][f])
        /\ unsent' = unsent \ {f}
        /\ todo' = todo \ {f}
  BY DEF Send
<1>1. /\ phase = "send"
      /\ UNCHANGED <<own, phase, call, loaded, calls, cuts, half, outcome>>
  BY DEF Send
<1>2. f \in Files /\ dir[1][f] \in Content /\ dir[1][f] = File(f)
  BY <1>1, Numbers DEF IInv, TypeOK, Sending, Content, Present, File
<1>3. /\ DirType(dir') /\ dir'[1] = dir[1]
      /\ \A n \in Node \ {1} :
           /\ f \in DOMAIN dir'[n] /\ dir'[n][f] = File(f)
           /\ \A g \in DOMAIN dir[n] \ {f} : g \in DOMAIN dir'[n] /\ dir'[n][g] = dir[n][g]
  BY <1>2, AllReceived
<1>4. Present' = Present /\ \A g : Whole(g)' = Whole(g) /\ File(g)' = File(g)
  BY <1>3 DEF Present, Whole, File
<1>5. TypeOK'
  BY <1>1, <1>3 DEF IInv, TypeOK, DirType
<1>6. (~half => Fits)' /\ Unharmed' /\ Synced' /\ Cut'
  BY <1>1, <1>2, <1>3, ReceivedInv
<1>7. Cleaning' /\ Writing' /\ Loading' /\ Ended' /\ NeverStuck'
  BY <1>1 DEF Cleaning, Writing, Loading, IInv, Ended, NeverStuck
<1>8. Sending'
  BY <1>1, <1>4 DEF IInv, Sending, Kept, Mine, Written
<1>9. Using'
  BY <1>1 DEF IInv, Using
<1> QED BY <1>5, <1>6, <1>7, <1>8, <1>9 DEF IInv

LEMMA SentInv == ASSUME IInv, Sent PROVE IInv'
<1>1. /\ phase = "send" /\ phase' = "load" /\ todo = {}
      /\ UNCHANGED <<own, dir, call, todo, loaded, calls, cuts, unsent, half, outcome>>
  BY DEF Sent
<1>2. Present' = Present /\ \A f : Whole(f)' = Whole(f) /\ File(f)' = File(f)
  BY <1>1 DEF Present, Whole, File
<1>3. /\ \A f \in Files : Mine(f) => Written(f) /\ f \in Present
      /\ Kept /\ (call.traced => unsent = {})
  BY <1>1 DEF IInv, Sending, Written, Whole
<1>4. TypeOK'
  BY <1>1 DEF IInv, TypeOK
<1>5. (~half => Fits)' /\ Unharmed' /\ Synced' /\ Cut'
  BY <1>1, FilesKept
<1>6. Cleaning' /\ Writing' /\ Sending' /\ Ended' /\ NeverStuck'
  BY <1>1 DEF Cleaning, Writing, Sending, IInv, Ended, NeverStuck
<1>7. Loading'
  <2>1. Written(Config)
    BY <1>3, Numbers DEF Mine
  <2>2. ConfigMatches(call.conf)'
    BY <1>1, <1>2, <2>1 DEF Written, ConfigMatches, File
  <2>3. Python \cup KeptTrace \subseteq Present
    BY <1>3, Numbers DEF Mine, Kept
  <2>4. call.reuse = "override" => ~half /\ unsent = {} /\ \A f \in Files : Whole(f)
    BY <1>3 DEF Kept, Mine, Written
  <2> QED BY <1>1, <1>2, <2>2, <2>3, <2>4 DEF Loading
<1>8. Using'
  BY <1>1 DEF IInv, Using, Empty
<1> QED BY <1>4, <1>5, <1>6, <1>7, <1>8 DEF IInv

(***************************************************************************)
(* Loading, and calls that end early.                                      *)
(***************************************************************************)
\* What a process has imported is still what it would read.
LEMMA ReadsDir ==
    ASSUME IInv, NEW n \in Node
    PROVE  DOMAIN Read(n) = Needs(n) /\ \A f \in Needs(n) : Read(n)[f] = Dir(n)[f]
<1>1. ASSUME NEW f \in Needs(n), f \in DOMAIN loaded[n], f \in Python
      PROVE  loaded[n][f] = Dir(n)[f]
  <2>1. f = Code(n)
    BY <1>1, Numbers DEF Needs, Data
  <2>2. loaded # Empty
    BY <1>1 DEF Empty
  <2> QED BY <2>1, <2>2 DEF IInv, Using
<1> QED BY <1>1 DEF Read

LEMMA LoadInv == ASSUME IInv, Load PROVE IInv'
<1>1. /\ phase = "load" /\ phase' = "idle" /\ outcome' = "loaded"
      /\ \A n \in Node : Needs(n) \subseteq DOMAIN Dir(n)
      /\ loaded' = [n \in Node |-> Read(n)]
      /\ UNCHANGED <<own, dir, call, todo, calls, cuts, unsent, half>>
  BY DEF Load
<1>2. TypeOK'
  BY <1>1 DEF IInv, TypeOK
<1>3. (~half => Fits)' /\ Unharmed' /\ Synced' /\ Cut'
  BY <1>1, FilesKept
<1>4. Cleaning' /\ Writing' /\ Sending' /\ Loading' /\ Ended' /\ NeverStuck'
  BY <1>1 DEF Cleaning, Writing, Sending, Loading, Ended, NeverStuck
<1>5. Using'
  <2>1. \A n : Dir(n)' = Dir(n)
    BY <1>1 DEF Dir
  <2>2. \A n \in Node : Code(n) \in Needs(n)
    BY DEF Needs
  <2> QED BY <1>1, <2>1, <2>2, ReadsDir DEF Using
<1> QED BY <1>2, <1>3, <1>4, <1>5 DEF IInv

LEMMA ReturnInv == ASSUME IInv, Return PROVE IInv'
<1>1. /\ phase' = "idle" /\ outcome' = "done"
      /\ UNCHANGED <<own, dir, call, todo, loaded, calls, cuts, unsent, half>>
  BY DEF Return
<1>2. TypeOK'
  BY <1>1 DEF IInv, TypeOK
<1>3. (~half => Fits)' /\ Unharmed' /\ Synced' /\ Cut'
  BY <1>1, FilesKept
<1>4. Cleaning' /\ Writing' /\ Sending' /\ Loading' /\ Ended' /\ NeverStuck'
  BY <1>1 DEF Cleaning, Writing, Sending, Loading, Ended, NeverStuck
<1>5. Using'
  <2>1. \A n : Dir(n)' = Dir(n)
    BY <1>1 DEF Dir
  <2> QED BY <1>1, <2>1 DEF IInv, Using
<1> QED BY <1>2, <1>3, <1>4, <1>5 DEF IInv

LEMMA RestartInv == ASSUME IInv, Restart PROVE IInv'
<1>1. /\ loaded' = Empty /\ phase = "idle" /\ outcome' = "none"
      /\ UNCHANGED <<own, dir, phase, call, todo, calls, cuts, unsent, half>>
  BY DEF Restart
<1>2. TypeOK'
  BY <1>1 DEF IInv, TypeOK, Empty
<1>3. (~half => Fits)' /\ Unharmed' /\ Synced' /\ Cut'
  BY <1>1, FilesKept
<1>4. Cleaning' /\ Writing' /\ Sending' /\ Loading' /\ Ended' /\ NeverStuck'
  BY <1>1 DEF Cleaning, Writing, Sending, Loading, Ended, NeverStuck
<1>5. Using'
  BY <1>1 DEF Using, Empty
<1> QED BY <1>2, <1>3, <1>4, <1>5 DEF IInv

LEMMA FailInv == ASSUME IInv, Fail PROVE IInv'
<1>1. Stop("failed") /\ UNCHANGED <<own, dir, cuts, unsent, half>>
  BY DEF Fail, Stop
<1>2. TypeOK' /\ NeverStuck'
  BY <1>1 DEF IInv, TypeOK, Stop, Empty, NeverStuck
<1> QED BY <1>1, <1>2, FilesKept, StopInv

\* A kept trace that cannot be read was cut short with its call.
LEMMA UnreadableInv == ASSUME IInv, Unreadable PROVE IInv'
<1>1. /\ phase = "write" /\ ~Readable
      /\ Stop("broken") /\ UNCHANGED <<own, dir, cuts, unsent, half>>
  BY DEF Unreadable, Stop
<1>2. TypeOK'
  BY <1>1 DEF IInv, TypeOK, Stop, Empty
<1>3. call.reuse # "override" /\ cuts > 0
  <2>1. ~call.traced /\ ~(Whole(Graph) /\ Whole(Args))
    BY <1>1 DEF Readable
  <2>2. Graph \in Present /\ Args \in Present /\ call.reuse # "override"
    BY <1>1, <2>1 DEF IInv, Writing, Kept, KeptTrace
  <2>3. cuts # 0
    BY <2>1, <2>2 DEF IInv, Unharmed
  <2> QED BY <2>2, <2>3 DEF IInv, TypeOK
<1>4. NeverStuck'
  BY <1>1, <1>3 DEF Stop, NeverStuck
<1> QED BY <1>1, <1>2, <1>4, FilesKept, StopInv

\* A file that a load misses or cannot read was cut short or was never sent.
LEMMA LoadFailsInv == ASSUME IInv, LoadFails PROVE IInv'
<1>1. /\ phase = "load"
      /\ Stop("broken") /\ UNCHANGED <<own, dir, cuts, unsent, half>>
  BY DEF LoadFails, Stop
<1>2. TypeOK'
  BY <1>1 DEF IInv, TypeOK, Stop, Empty
<1> PICK n \in Node : \E f \in Needs(n) : f \in DOMAIN Dir(n) => ~Dir(n)[f].whole
  BY DEF LoadFails
<1> PICK f \in Needs(n) : f \in DOMAIN Dir(n) => ~Dir(n)[f].whole
  OBVIOUS
<1>3. f \in Files /\ f \in Needed /\ (f \in TraceFiles \/ f = Config \/ f \in Python)
  BY Numbers DEF Needs, Data, Needed
<1>4. ASSUME Whole(f), unsent \cap Needed = {} PROVE FALSE
  <2>1. CASE own
    <3>1. f \in Present \ unsent
      BY <1>3, <1>4 DEF Whole
    <3>2. f \in DOMAIN dir[n] /\ dir[n][f] = File(f)
      BY <1>4, <2>1, <3>1 DEF IInv, Synced
    <3> QED BY <1>4, <2>1, <3>2 DEF Dir, Whole, File
  <2>2. CASE ~own
    BY <1>4, <2>2 DEF Dir, Whole, Present
  <2> QED BY <2>1, <2>2
<1>5. cuts = 0 => Whole(f)
  <2> SUFFICES ASSUME cuts = 0 PROVE Whole(f)
    OBVIOUS
  <2>1. Fits /\ \A g \in Present : Whole(g)
    BY DEF IInv, Unharmed
  <2>2. Python \cup KeptTrace \subseteq Present /\ Whole(Config)
    BY <1>1 DEF IInv, Loading, ConfigMatches
  <2>3. f \in Present
    BY <1>3, <2>1, <2>2 DEF Fits, KeptTrace, Whole
  <2> QED BY <2>1, <2>3
<1>6. call.reuse = "override" => FALSE
  BY <1>1, <1>3, <1>4 DEF IInv, Loading
<1>7. cuts > 0 \/ unsent \cap Needed # {}
  BY <1>4, <1>5 DEF IInv, TypeOK
<1>8. NeverStuck'
  BY <1>1, <1>6, <1>7 DEF Stop, NeverStuck, Needed, Needs, Data
<1> QED BY <1>1, <1>2, <1>8, FilesKept, StopInv

\* A call that is cut short leaves any part of what was being removed, a file that
\* is cut short, or nothing.
LEMMA CutShortInv == ASSUME IInv, CutShort PROVE IInv'
<1>1. /\ phase # "idle" /\ cuts' = cuts + 1
      /\ half' = (half \/ phase = "clean")
      /\ Interrupted /\ Stop("cut")
      /\ UNCHANGED <<own, call, calls, unsent>>
  BY DEF CutShort, Stop
<1>2. cuts' \in Nat /\ cuts' # 0
  BY <1>1 DEF IInv, TypeOK
<1>3. ASSUME DirType(dir') PROVE TypeOK'
  BY <1>1, <1>2, <1>3 DEF IInv, TypeOK, Stop, Empty, DirType
<1>4. NeverStuck'
  BY <1>1 DEF Stop, NeverStuck
<1>5. ASSUME NEW S, phase = "clean", dir' = [dir EXCEPT ![1] = Restrict(@, DOMAIN @ \ S)]
      PROVE  DirType(dir') /\ (~half => Fits)' /\ Unharmed' /\ Synced' /\ Cut'
  BY <1>1, <1>2, <1>5, Removed, RemovedInv
<1>6. ASSUME phase = "write", Readable, NEW f \in todo, First(f),
             dir' = [dir EXCEPT ![1] = Put(@, f, Part(f))]
      PROVE  DirType(dir') /\ (~half => Fits)' /\ Unharmed' /\ Synced' /\ Cut'
  <2>1. f \in Files /\ New(f) \in Content
    BY <1>6, Turn
  <2>2. /\ Part(f) \in Content /\ ~Part(f).whole
        /\ Part(f).trace = New(f).trace /\ Part(f).conf = call.conf
    BY <2>1 DEF Part, Content, New
  <2>3. (half' = half) /\ unsent' = IF own /\ Part(f).whole THEN unsent \cup {f} ELSE unsent
    BY <1>1, <1>6, <2>2 DEF IInv, TypeOK
  <2>4. DirType(dir')
    BY <1>6, <2>1, <2>2, Placed
  <2>5. (~half => Fits)'
    BY <1>6, <2>2, <2>3, PlacedFits
  <2>6. Unharmed' /\ Synced' /\ Cut'
    BY <1>1, <1>2, <1>6, <2>2, <2>3, PlacedInv
  <2> QED BY <2>4, <2>5, <2>6
<1>7. ASSUME phase = "send", NEW f \in todo, NEW got, NEW part,
             dir' = ReceivePart(f, dir[1][f], got, part)
      PROVE  DirType(dir') /\ (~half => Fits)' /\ Unharmed' /\ Synced' /\ Cut'
  <2>1. f \in Files /\ f \in unsent /\ dir[1][f] \in Content
    BY <1>7, Numbers DEF IInv, TypeOK, Sending, Content, Present
  <2>2. half' = half
    BY <1>1, <1>7 DEF IInv, TypeOK
  <2> QED BY <1>1, <1>2, <1>7, <2>1, <2>2, PartReceived, ReceivedInv
<1>8. ASSUME phase # "clean", UNCHANGED dir
      PROVE  DirType(dir') /\ (~half => Fits)' /\ Unharmed' /\ Synced' /\ Cut'
  <2>1. Present' = Present /\ \A f : Whole(f)' = Whole(f) /\ File(f)' = File(f)
    BY <1>8 DEF Present, Whole, File
  <2>2. half' = half
    BY <1>1, <1>8 DEF IInv, TypeOK
  <2>3. DirType(dir') /\ (~half => Fits)'
    BY <1>8, <2>1, <2>2 DEF IInv, Fits, DirType, TypeOK
  <2>4. Unharmed' /\ Synced' /\ Cut'
    BY <1>1, <1>2, <1>8, <2>1 DEF IInv, Unharmed, Synced, Cut
  <2> QED BY <2>3, <2>4
<1>9. DirType(dir') /\ (~half => Fits)' /\ Unharmed' /\ Synced' /\ Cut'
  BY <1>1, <1>5, <1>6, <1>7, <1>8 DEF Interrupted
<1> QED BY <1>1, <1>3, <1>4, <1>9, StopInv

LEMMA StutterInv == IInv /\ UNCHANGED vars => IInv'
<1> SUFFICES ASSUME IInv, UNCHANGED vars PROVE IInv'
  OBVIOUS
<1> USE DEF vars
<1>1. /\ Present' = Present /\ \A f : Whole(f)' = Whole(f) /\ File(f)' = File(f)
      /\ \A n : Dir(n)' = Dir(n)
      /\ \A f : (Mine(f)' <=> Mine(f)) /\ (Written(f)' <=> Written(f))
  BY DEF Present, Whole, File, Dir, Mine, Written
<1>2. TypeOK' /\ Ended' /\ NeverStuck'
  BY DEF IInv, TypeOK, Ended, NeverStuck, InUse
<1>3. (~half => Fits)' /\ Unharmed' /\ Synced' /\ Cut'
  BY FilesKept
<1>4. Cleaning' /\ Loading'
  BY <1>1 DEF IInv, Cleaning, Loading, GraphMatches, ConfigMatches
<1>5. Writing' /\ Sending'
  BY <1>1 DEF IInv, Writing, Sending, Kept
<1>6. Using'
  BY <1>1 DEF IInv, Using
<1> QED BY <1>2, <1>3, <1>4, <1>5, <1>6 DEF IInv

LEMMA Invariant == Spec => []IInv
<1>1. Init => IInv
  BY InitInv
<1>2. IInv /\ [Next]_vars => IInv'
  BY BeginInv, CleanInv, WriteInv, GeneratedInv, SendInv, SentInv, LoadInv, ReturnInv,
     UnreadableInv, LoadFailsInv, FailInv, CutShortInv, RestartInv, StutterInv DEF Next
<1> QED BY <1>1, <1>2, PTL DEF Spec

(***************************************************************************)
(* The theorems.                                                           *)
(***************************************************************************)

\* Type correctness of the directories and of the calls.
THEOREM TypeCorrect == Spec => []TypeOK
<1>1. IInv => TypeOK
  BY DEF IInv
<1> QED BY <1>1, Invariant, PTL

\* No sequence of calls, however they end, leaves a directory that OVERRIDE does not
\* get out of; but for MATCH a call is refused only by a process that has loaded the
\* code, and what is found breaks one only after a call that was cut short or ended
\* before its new files were sent.
THEOREM AlwaysAWayOut == Spec => []NeverStuck
<1>1. IInv => NeverStuck
  BY DEF IInv
<1> QED BY <1>1, Invariant, PTL

\* A call with MATCH, and any call of a process that has loaded the code, leaves
\* the programs of the directory as they are.
THEOREM CodeIsKept == Spec => CodeKept
<1>1. IInv /\ [Next]_vars =>
        [\A f \in Python \cap Present :
           InUse \/ call'.reuse = "match" => f \in DOMAIN dir'[1] /\ dir'[1][f] = dir[1][f]]_vars
  <2> SUFFICES ASSUME IInv, Next, NEW f \in Python \cap Present,
                      InUse \/ call'.reuse = "match"
               PROVE  f \in DOMAIN dir'[1] /\ dir'[1][f] = dir[1][f]
    BY DEF vars
  <2>1. ASSUME phase = "clean", call'.reuse = call.reuse PROVE FALSE
    <3>1. ~InUse
      BY <2>1, Numbers DEF IInv, Using, InUse, Empty
    <3> QED BY <2>1, <3>1 DEF IInv, Cleaning
  <2>2. ASSUME phase = "write", Readable, NEW g \in todo, First(g), NEW c \in Content,
               dir' = [dir EXCEPT ![1] = Put(@, g, c)]
        PROVE  f \in DOMAIN dir'[1] /\ dir'[1][f] = dir[1][f]
    <3>1. f # g /\ g \in Files
      BY <2>2, Turn
    <3>2. f \in Present' /\ File(f)' = File(f)
      BY <2>2, <3>1, Placed
    <3> QED BY <3>2 DEF Present, File
  <2>3. ASSUME \/ \E g, c : dir' = Receive(g, c)
               \/ \E g, c, got, part : dir' = ReceivePart(g, c, got, part)
        PROVE  f \in DOMAIN dir'[1] /\ dir'[1][f] = dir[1][f]
    <3>1. \A g, c : dir' = Receive(g, c) => dir'[1] = dir[1]
      BY Numbers DEF Receive
    <3>2. \A g, c, got, part : dir' = ReceivePart(g, c, got, part) => dir'[1] = dir[1]
      BY Numbers DEF ReceivePart
    <3>3. dir'[1] = dir[1]
      BY <2>3, <3>1, <3>2
    <3> QED BY <3>3 DEF Present
  <2>4. CASE UNCHANGED dir
    BY <2>4 DEF Present
  <2>5. CASE Clean
    BY <2>1, <2>5 DEF Clean, IInv, TypeOK
  <2>6. CASE Write
    <3> PICK g \in todo : First(g) /\ dir' = [dir EXCEPT ![1] = Put(@, g, New(g))]
      BY <2>6 DEF Write
    <3>1. phase = "write" /\ Readable /\ New(g) \in Content
      BY <2>6, Turn DEF Write
    <3> QED BY <2>2, <3>1
  <2>7. CASE Send
    BY <2>3, <2>7 DEF Send
  <2>8. CASE CutShort
    <3>1. Interrupted /\ call' = call
      BY <2>8 DEF CutShort, Stop
    <3>2. ASSUME phase = "write", Readable, NEW g \in todo, First(g),
                 dir' = [dir EXCEPT ![1] = Put(@, g, Part(g))]
          PROVE  f \in DOMAIN dir'[1] /\ dir'[1][f] = dir[1][f]
      <4>1. Part(g) \in Content
        BY <3>2, Turn DEF Part, Content, New
      <4> QED BY <2>2, <3>2, <4>1
    <3> QED BY <2>1, <2>3, <2>4, <3>1, <3>2 DEF Interrupted
  <2>9. CASE \/ \E c \in Confs, reuse \in Reuses : Begin(c, reuse)
             \/ Generated \/ Sent \/ Load \/ Return \/ Unreadable \/ LoadFails \/ Fail \/ Restart
    BY <2>4, <2>9 DEF Begin, Generated, Sent, Load, Return, Unreadable, LoadFails, Fail, Restart
  <2> QED BY <2>5, <2>6, <2>7, <2>8, <2>9 DEF Next
<1> QED BY <1>1, Invariant, PTL DEF Spec, CodeKept

\* What a load reads that may be trusted is the first directory's, whole.
LEMMA TrustedIsFirst ==
    ASSUME IInv, Load, Trusted, NEW n \in Node, NEW f \in Needs(n)
    PROVE  ~half /\ Whole(f) /\ Dir(n)[f] = File(f)
<1>1. /\ phase = "load"
      /\ \A m \in Node : Needs(m) \subseteq DOMAIN Dir(m) /\ \A g \in Data : Dir(m)[g].whole
  BY DEF Load
<1>2. f \in Files /\ f \in Needed /\ (f \in Data \/ f = Code(n)) /\ Config \in Needed
  BY Numbers DEF Needs, Data, Needed
<1>3. /\ call.reuse = "override" => ~half /\ unsent = {} /\ \A g \in Files : Whole(g)
      /\ ConfigMatches(call.conf) /\ Python \cup KeptTrace \subseteq Present
  BY <1>1 DEF IInv, Loading
<1>4. ~half /\ unsent \cap Needed = {}
  BY <1>3 DEF Trusted
<1>5. CASE ~own
  <2>1. Dir(n) = dir[1] /\ f \in DOMAIN Dir(n)
    BY <1>1, <1>5 DEF Dir
  <2>2. Dir(n)[f].whole
    <3>1. CASE f \in Data
      BY <1>1, <3>1
    <3>2. CASE f = Code(n) /\ call.reuse = "override"
      BY <1>2, <1>3, <2>1, <3>2 DEF Whole
    <3>3. CASE f = Code(n) /\ call.reuse # "override"
      BY <3>3 DEF Trusted
    <3> QED BY <1>2, <3>1, <3>2, <3>3
  <2> QED BY <1>4, <2>1, <2>2 DEF Whole, Present, File
<1>6. CASE own
  <2>1. Whole(f)
    <3>1. CASE f \in Data
      <4>1. 1 \in Node /\ f \in Needs(1) /\ Dir(1) = dir[1]
        BY <1>6, <3>1, Numbers DEF Needs, Dir
      <4> QED BY <1>1, <3>1, <4>1 DEF Whole, Present
    <3>2. CASE f = Code(n)
      <4>1. f \in Python \cap Present
        BY <1>3, <3>2, Numbers
      <4>2. Config \notin unsent
        BY <1>2, <1>4
      <4> QED BY <1>6, <4>1, <4>2 DEF IInv, Cut
    <3> QED BY <1>2, <3>1, <3>2
  <2>2. f \in Present \ unsent
    BY <1>2, <1>4, <2>1 DEF Whole
  <2>3. dir[n][f] = File(f)
    BY <1>6, <2>1, <2>2 DEF IInv, Synced
  <2> QED BY <1>4, <1>6, <2>1, <2>3 DEF Dir
<1> QED BY <1>5, <1>6

\* The programs and the data that all ranks load belong together and to the config
\* of the call, whatever calls came before, however they ended.
THEOREM LoadsTogether == Spec => LoadedTogether
<1>1. IInv /\ [Next]_vars => [Load /\ Trusted => Together']_vars
  <2> SUFFICES ASSUME IInv, Load, Trusted PROVE Together'
    OBVIOUS
  <2>1. /\ phase = "load" /\ loaded' = [n \in Node |-> Read(n)] /\ call' = call
    BY DEF Load
  <2>2. \A n \in Node : \A f \in Needs(n) : loaded'[n][f] = File(f) /\ Whole(f) /\ ~half
    BY <2>1, ReadsDir, TrustedIsFirst
  <2>3. Weights \in Needs(1) /\ Config \in Needs(1) /\ 1 \in Node
    BY Numbers DEF Needs, Data
  <2>4. /\ Whole(Config) /\ File(Config).conf = call.conf /\ Fits
        /\ Args \in Present /\ Graph \in Present
    BY <2>1, <2>2, <2>3 DEF IInv, Loading, ConfigMatches, File, KeptTrace
  <2>5. \A f \in TraceFiles : File(f).trace = File(Args).trace
    BY <2>4 DEF Fits
  <2>6. ASSUME NEW n \in Node, NEW f \in Needs(n)
        PROVE  /\ loaded'[n][f].whole /\ loaded'[n][f].conf.graph = call.conf.graph
               /\ f \in {Config, Code(n)} => loaded'[n][f].conf = call.conf
               /\ f # Config => loaded'[n][f].trace = loaded'[1][Weights].trace
    <3>1. loaded'[n][f] = File(f) /\ Whole(f) /\ loaded'[1][Weights] = File(Weights)
      BY <2>2, <2>3
    <3>2. f \in {Config, Meta, Weights, Map} \cup Python
      BY Numbers DEF Needs, Data
    <3>3. File(f).whole /\ f \in Present
      BY <3>1 DEF Whole, File
    <3>4. File(f).conf.graph = call.conf.graph
      BY <2>4, <3>3 DEF Fits
    <3>5. f \in {Config, Code(n)} => File(f).conf = call.conf
      BY <2>4, <3>3, Numbers DEF Fits
    <3>6. f # Config => File(f).trace = File(Weights).trace
      <4>1. f \in TraceFiles => File(f).trace = File(Weights).trace
        BY <2>5, Numbers
      <4>2. f \in Python => File(f).trace = File(Graph).trace
        BY <2>4, <3>3 DEF Fits
      <4> QED BY <2>5, <3>2, <4>1, <4>2, Numbers
    <3> QED BY <3>1, <3>3, <3>4, <3>5, <3>6
  <2>7. \A n \in Node : Config \in Needs(n) /\ Code(n) \in Needs(n) /\ Needs(n)' = Needs(n)
    BY DEF Needs, Data
  <2> QED BY <2>1, <2>6, <2>7 DEF Together
<1> QED BY <1>1, Invariant, PTL DEF Spec, LoadedTogether
=============================================================================
