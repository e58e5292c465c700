--------------------------- MODULE LifecycleProofs ----------------------------
(***************************************************************************)
(* Theorems about Lifecycle, for any number of slots and requests.         *)
(***************************************************************************)
EXTENDS Lifecycle, TLAPS

-----------------------------------------------------------------------------
(***************************************************************************)
(* The inductive invariant.                                                *)
(***************************************************************************)
BeforeConfig == {"init log", "inited", "config"}
Loading == {"open data", "count", "item", "close data", "con", "pool"}
InPool == {"close socket", "free buf", "free pool", "forget pool"}
InConfig == {"free con", "free item", "free data", "forget config"}

Datums(d) == <<"datum", d>>

\* What the variables name at each point, whatever the signals do.
Control ==
    /\ pc \in BeforeConfig => known \subseteq {Log}
    /\ pc \in Loading => Config \in known
    /\ pc \in Loading \cup InConfig \cup {"clear"} => Pool \notin known
    /\ pc \in InPool \cup {"slot", "buf"} => Pool \in known
    /\ pc \in InConfig => Config \in known
    /\ pc = "free data" => Array \in known
    /\ Pool \in known => Config \in known
    /\ Buf \in known => Pool \in known
    /\ after \in {"clean", "close epoll"}

\* What is named is held, unless a clean-up is about to forget it.
Sound ==
    /\ pc # "undefined"
    /\ Pool \in known \ held => pc = "forget pool"
    /\ Buf \in known \ held => pc \in {"free pool", "forget pool"}
    /\ Config \in known =>
          /\ Con \in known \ held => pc \in InConfig \ {"free con"}
          /\ Array \in known \ held => pc = "forget config"
          /\ \A d \in Datum : Datums(d) \in known \ held =>
                \/ pc \in {"free data", "forget config"}
                \/ pc = "free item" /\ d < i

\* An initialised log is open until it is about to be forgotten.
LogOpen ==
    /\ pc = "inited" => Log \in held \cap known
    /\ binited = 1 /\ pc \notin {"forget log", "exit", "exited"} =>
          Log \in held \cap known

\* Only the loop that initialises the slots takes 0 for a descriptor of theirs.
Descriptors ==
    /\ zero # {} => pc = "slot" \/ "slot" \in cut
    /\ pc = "slot" => zero \subseteq i..Slots
    /\ Stdin \notin known
    /\ "slot" \notin cut => Stdin \in held

\* The loops over the requests stay within them.
Counter == i \in Nat /\ (pc \in {"item", "free item"} => i \in Datum)

LInv ==
    /\ Counter
    /\ Control
    /\ Descriptors
    /\ binited \in {0, 1}
    /\ cut \cap Fragile = {} => Sound /\ LogOpen

-----------------------------------------------------------------------------
\* Every resource is another one.
LEMMA Distinct ==
    /\ \A o \in {Stdin, Log, File, Array, Con, Pool, Buf, Epoll} :
          /\ o # Config
          /\ \A n : o # <<"socket", n>> /\ o # Datums(n)
    /\ \A n : Config # <<"socket", n>> /\ Config # Datums(n)
    /\ \A m, n : <<"socket", m>> # Datums(n)
    /\ \A m, n : Datums(m) = Datums(n) => m = n
    /\ Stdin \notin {Log, File, Array, Con, Pool, Buf, Epoll}
    /\ Log \notin {File, Array, Con, Pool, Buf, Epoll}
    /\ File \notin {Array, Con, Pool, Buf, Epoll}
    /\ Array \notin {Con, Pool, Buf, Epoll}
    /\ Con \notin {Pool, Buf, Epoll}
    /\ Pool \notin {Buf, Epoll}
    /\ Buf # Epoll
    /\ \A s \in Sockets : s = <<"socket", s[2]>>
BY DEF Stdin, Log, File, Array, Con, Pool, Buf, Epoll, Config, Datums, Sockets,
       Slot

LEMMA InitLInv == Init => LInv
<1> SUFFICES ASSUME Init PROVE LInv
  OBVIOUS
<1>1. Counter /\ Control /\ Sound
  BY DEF Init, Counter, Control, Sound, BeforeConfig, Loading, InPool, InConfig
<1>2. Descriptors
  BY DEF Init, Descriptors
<1>3. binited \in {0, 1} /\ LogOpen
  <2>1. pc # "inited"
    BY DEF Init
  <2>2. binited = 0
    BY DEF Init
  <2>3. binited \in {0, 1} /\ binited # 1
    BY <2>2
  <2>4. QED
    BY <2>1, <2>3 DEF LogOpen
<1>4. QED
  BY <1>1, <1>2, <1>3 DEF LInv

\* A step outside the clean-up of the pool and the configuration keeps Sound if
\* nothing of theirs becomes named without being held.
LEMMA SoundKept ==
    ASSUME Sound, pc \notin InPool \cup InConfig, pc' # "undefined",
           Config \in known' => Config \in known,
           \A o \in known' \ held' : o \in {Log, File, Epoll} \/ o \in known \ held
    PROVE  Sound'
<1>1. Pool \notin known' \ held' /\ Buf \notin known' \ held'
  BY Distinct DEF Sound, InPool
<1>2. Config \in known' =>
         /\ Con \notin known' \ held' /\ Array \notin known' \ held'
         /\ \A d \in Datum : Datums(d) \notin known' \ held'
  BY Distinct DEF Sound, InConfig
<1>3. QED
  BY <1>1, <1>2 DEF Sound, Datum, Datums

LEMMA NextLInv == LInv /\ [Next]_lifeVars => LInv'
<1> SUFFICES ASSUME LInv, [Next]_lifeVars PROVE LInv'
  OBVIOUS
<1>a. i \in Nat
  BY DEF LInv, Counter
<1>b. pc \in {"item", "free item"} => i \in Datum
  BY DEF LInv, Counter
<1>1. CASE OpenLog
  <2>1. Counter'
    BY <1>1, SizeAssumption
       DEF OpenLog, LInv, Counter, Control, Step, Go, Free, Rest, Datum
  <2>2. Control'
    BY <1>1, Distinct
       DEF OpenLog, LInv, Control, Step, Go, Free, Rest, BeforeConfig, Loading,
           InPool, InConfig, Datums
  <2>3. Descriptors'
    BY <1>1, SizeAssumption, Distinct
       DEF OpenLog, LInv, Descriptors, Step, Go, Free, Rest, Datums, Slot
  <2>4. cut' \cap Fragile = {} => Sound'
    <3>1. /\ pc \notin InPool \cup InConfig /\ pc' # "undefined" /\ cut' = cut
          /\ Config \in known' => Config \in known
      BY <1>1, Distinct DEF OpenLog, Step, Go, InPool, InConfig
    <3>2. \A o \in known' \ held' : o \in {Log, File, Epoll} \/ o \in known \ held
      BY <1>1 DEF OpenLog, Step, Go
    <3>3. QED
      BY <3>1, <3>2, SoundKept DEF LInv
  <2>5. binited' \in {0, 1} /\ (cut' \cap Fragile = {} => LogOpen')
    BY <1>1, Distinct
       DEF OpenLog, LInv, LogOpen, Step, Go, Free, Rest, Fragile, Datums
  <2>6. QED
    BY <2>1, <2>2, <2>3, <2>4, <2>5 DEF LInv
<1>2. CASE LogInited
  <2>1. Counter'
    BY <1>2, SizeAssumption
       DEF LogInited, LInv, Counter, Control, Step, Go, Free, Rest, Datum
  <2>2. Control'
    BY <1>2, Distinct
       DEF LogInited, LInv, Control, Step, Go, Free, Rest, BeforeConfig, Loading,
           InPool, InConfig, Datums
  <2>3. Descriptors'
    BY <1>2, SizeAssumption, Distinct
       DEF LogInited, LInv, Descriptors, Step, Go, Free, Rest, Datums, Slot
  <2>4. cut' \cap Fragile = {} => Sound'
    BY <1>2, SizeAssumption, Distinct
       DEF LogInited, LInv, Control, Sound, Step, Go, Free, Rest, BeforeConfig,
           Loading, InPool, InConfig, Fragile, Datums, Datum
  <2>5. binited' \in {0, 1} /\ (cut' \cap Fragile = {} => LogOpen')
    BY <1>2, Distinct
       DEF LogInited, LInv, LogOpen, Step, Go, Free, Rest, Fragile, Datums
  <2>6. QED
    BY <2>1, <2>2, <2>3, <2>4, <2>5 DEF LInv
<1>3. CASE SetConfig
  <2>1. Counter'
    BY <1>3, SizeAssumption
       DEF SetConfig, LInv, Counter, Control, Step, Go, Free, Rest, Datum
  <2>2. Control'
    BY <1>3, Distinct
       DEF SetConfig, LInv, Control, Step, Go, Free, Rest, BeforeConfig, Loading,
           InPool, InConfig, Datums
  <2>3. Descriptors'
    BY <1>3, SizeAssumption, Distinct
       DEF SetConfig, LInv, Descriptors, Step, Go, Free, Rest, Datums, Slot
  <2>4. cut' \cap Fragile = {} => Sound'
    BY <1>3, SizeAssumption, Distinct
       DEF SetConfig, LInv, Control, Sound, Step, Go, Free, Rest, BeforeConfig,
           Loading, InPool, InConfig, Fragile, Datums, Datum
  <2>5. binited' \in {0, 1} /\ (cut' \cap Fragile = {} => LogOpen')
    BY <1>3, Distinct
       DEF SetConfig, LInv, LogOpen, Step, Go, Free, Rest, Fragile, Datums
  <2>6. QED
    BY <2>1, <2>2, <2>3, <2>4, <2>5 DEF LInv
<1>4. CASE OpenData
  <2>1. Counter'
    BY <1>4, SizeAssumption
       DEF OpenData, LoadFails, LInv, Counter, Control, Step, Go, Free, Rest, Datum
  <2>2. Control'
    BY <1>4, Distinct
       DEF OpenData, LoadFails, LInv, Control, Step, Go, Free, Rest, BeforeConfig,
           Loading, InPool, InConfig, Datums
  <2>3. Descriptors'
    BY <1>4, SizeAssumption, Distinct
       DEF OpenData, LoadFails, LInv, Descriptors, Step, Go, Free, Rest, Datums, Slot
  <2>4. cut' \cap Fragile = {} => Sound'
    <3>1. /\ pc \notin InPool \cup InConfig /\ pc' # "undefined" /\ cut' = cut
          /\ Config \in known' => Config \in known
      BY <1>4, Distinct DEF OpenData, LoadFails, Step, Go, InPool, InConfig
    <3>2. \A o \in known' \ held' : o \in {Log, File, Epoll} \/ o \in known \ held
      BY <1>4 DEF OpenData, LoadFails, Step, Go
    <3>3. QED
      BY <3>1, <3>2, SoundKept DEF LInv
  <2>5. binited' \in {0, 1} /\ (cut' \cap Fragile = {} => LogOpen')
    BY <1>4, Distinct
       DEF OpenData, LoadFails, LInv, LogOpen, Step, Go, Free, Rest, Fragile, Datums
  <2>6. QED
    BY <2>1, <2>2, <2>3, <2>4, <2>5 DEF LInv
<1>5. CASE ReadCount
  <2>1. Counter'
    <3>1. i' \in {i, 1}
      BY <1>5 DEF ReadCount, LoadFails
    <3>2. (pc' = "item" => i' = 1) /\ pc' # "free item"
      BY <1>5 DEF ReadCount, LoadFails, Step
    <3>3. 1 \in Datum
      BY SizeAssumption DEF Datum
    <3>4. i' \in Nat
      BY <3>1, <1>a
    <3>5. QED
      BY <3>2, <3>3, <3>4 DEF Counter
  <2>2. Control'
    BY <1>5, Distinct
       DEF ReadCount, LoadFails, LInv, Control, Step, Go, Free, Rest, BeforeConfig,
           Loading, InPool, InConfig, Datums
  <2>3. Descriptors'
    BY <1>5, SizeAssumption, Distinct
       DEF ReadCount, LoadFails, LInv, Descriptors, Step, Go, Free, Rest, Datums, Slot
  <2>4. cut' \cap Fragile = {} => Sound'
    <3>1. /\ pc \notin InPool \cup InConfig /\ pc' # "undefined" /\ cut' = cut
          /\ Config \in known' => Config \in known
      BY <1>5, Distinct DEF ReadCount, LoadFails, Step, Go, InPool, InConfig
    <3>2. \A o \in known' \ held' : o \in {Log, File, Epoll} \/ o \in known \ held
      BY <1>5 DEF ReadCount, LoadFails, Step, Go
    <3>3. QED
      BY <3>1, <3>2, SoundKept DEF LInv
  <2>5. binited' \in {0, 1} /\ (cut' \cap Fragile = {} => LogOpen')
    BY <1>5, Distinct
       DEF ReadCount, LoadFails, LInv, LogOpen, Step, Go, Free, Rest, Fragile, Datums
  <2>6. QED
    BY <2>1, <2>2, <2>3, <2>4, <2>5 DEF LInv
<1>6. CASE ReadItem
  <2>1. Counter'
    <3>1. /\ pc = "item" /\ i' \in {i, i + 1} /\ pc' # "free item"
          /\ pc' = "item" => i # Data /\ i' = i + 1
      BY <1>6 DEF ReadItem, LoadFails, Step
    <3>2. i \in Datum
      BY <3>1, <1>b
    <3>3. i + 1 \in Nat /\ (i # Data => i + 1 \in Datum)
      BY <3>2, SizeAssumption DEF Datum
    <3>4. i' \in Nat
      BY <3>1, <3>3, <1>a
    <3>5. pc' = "item" \/ pc' = "free item" => i' \in Datum
      BY <3>1, <3>3
    <3>6. QED
      BY <3>4, <3>5 DEF Counter
  <2>2. Control'
    BY <1>6, Distinct
       DEF ReadItem, LoadFails, LInv, Control, Step, Go, Free, Rest, BeforeConfig,
           Loading, InPool, InConfig, Datums
  <2>3. Descriptors'
    BY <1>6, SizeAssumption, Distinct
       DEF ReadItem, LoadFails, LInv, Descriptors, Step, Go, Free, Rest, Datums, Slot
  <2>4. cut' \cap Fragile = {} => Sound'
    <3>1. /\ pc \notin InPool \cup InConfig /\ pc' # "undefined" /\ cut' = cut
          /\ Config \in known' => Config \in known
      BY <1>6, Distinct DEF ReadItem, LoadFails, Step, Go, InPool, InConfig, Datums
    <3>2. \A o \in known' \ held' : o \in {Log, File, Epoll} \/ o \in known \ held
      BY <1>6 DEF ReadItem, LoadFails, Step, Go
    <3>3. QED
      BY <3>1, <3>2, SoundKept DEF LInv
  <2>5. binited' \in {0, 1} /\ (cut' \cap Fragile = {} => LogOpen')
    BY <1>6, Distinct
       DEF ReadItem, LoadFails, LInv, LogOpen, Step, Go, Free, Rest, Fragile, Datums
  <2>6. QED
    BY <2>1, <2>2, <2>3, <2>4, <2>5 DEF LInv
<1>7. CASE CloseData
  <2>1. Counter'
    BY <1>7, SizeAssumption
       DEF CloseData, LInv, Counter, Control, Step, Go, Free, Rest, Datum
  <2>2. Control'
    BY <1>7, Distinct
       DEF CloseData, LInv, Control, Step, Go, Free, Rest, BeforeConfig, Loading,
           InPool, InConfig, Datums
  <2>3. Descriptors'
    BY <1>7, SizeAssumption, Distinct
       DEF CloseData, LInv, Descriptors, Step, Go, Free, Rest, Datums, Slot
  <2>4. cut' \cap Fragile = {} => Sound'
    BY <1>7, SizeAssumption, Distinct
       DEF CloseData, LInv, Control, Sound, Step, Go, Free, Rest, BeforeConfig,
           Loading, InPool, InConfig, Fragile, Datums, Datum
  <2>5. binited' \in {0, 1} /\ (cut' \cap Fragile = {} => LogOpen')
    BY <1>7, Distinct
       DEF CloseData, LInv, LogOpen, Step, Go, Free, Rest, Fragile, Datums
  <2>6. QED
    BY <2>1, <2>2, <2>3, <2>4, <2>5 DEF LInv
<1>8. CASE MakeCon
  <2>1. Counter'
    BY <1>8, SizeAssumption
       DEF MakeCon, LInv, Counter, Control, Step, Go, Free, Rest, Datum
  <2>2. Control'
    BY <1>8, Distinct
       DEF MakeCon, LInv, Control, Step, Go, Free, Rest, BeforeConfig, Loading,
           InPool, InConfig, Datums
  <2>3. Descriptors'
    BY <1>8, SizeAssumption, Distinct
       DEF MakeCon, LInv, Descriptors, Step, Go, Free, Rest, Datums, Slot
  <2>4. cut' \cap Fragile = {} => Sound'
    BY <1>8, SizeAssumption, Distinct
       DEF MakeCon, LInv, Control, Sound, Step, Go, Free, Rest, BeforeConfig,
           Loading, InPool, InConfig, Fragile, Datums, Datum
  <2>5. binited' \in {0, 1} /\ (cut' \cap Fragile = {} => LogOpen')
    BY <1>8, Distinct
       DEF MakeCon, LInv, LogOpen, Step, Go, Free, Rest, Fragile, Datums
  <2>6. QED
    BY <2>1, <2>2, <2>3, <2>4, <2>5 DEF LInv
<1>9. CASE MakePool
  <2>1. Counter'
    BY <1>9, SizeAssumption
       DEF MakePool, LInv, Counter, Control, Step, Go, Free, Rest, Datum
  <2>2. Control'
    BY <1>9, Distinct
       DEF MakePool, LInv, Control, Step, Go, Free, Rest, BeforeConfig, Loading,
           InPool, InConfig, Datums
  <2>3. Descriptors'
    BY <1>9, SizeAssumption, Distinct
       DEF MakePool, LInv, Descriptors, Step, Go, Free, Rest, Datums, Slot
  <2>4. cut' \cap Fragile = {} => Sound'
    BY <1>9, SizeAssumption, Distinct
       DEF MakePool, LInv, Control, Sound, Step, Go, Free, Rest, BeforeConfig,
           Loading, InPool, InConfig, Fragile, Datums, Datum
  <2>5. binited' \in {0, 1} /\ (cut' \cap Fragile = {} => LogOpen')
    BY <1>9, Distinct
       DEF MakePool, LInv, LogOpen, Step, Go, Free, Rest, Fragile, Datums
  <2>6. QED
    BY <2>1, <2>2, <2>3, <2>4, <2>5 DEF LInv
<1>10. CASE InitSlot
  <2>1. Counter'
    <3>1. i' = i + 1
      BY <1>10 DEF InitSlot
    <3>2. pc' \notin {"item", "free item"}
      BY <1>10 DEF InitSlot, Step, Go
    <3>3. i' \in Nat
      BY <3>1, <1>a
    <3>4. QED
      BY <3>2, <3>3 DEF Counter
  <2>2. Control'
    BY <1>10, Distinct
       DEF InitSlot, LInv, Control, Step, Go, Free, Rest, BeforeConfig, Loading,
           InPool, InConfig, Datums
  <2>3. Descriptors'
    <3>1. /\ pc = "slot" /\ i' = i + 1 /\ zero' = zero \ {i}
          /\ pc' = IF i = Slots THEN "buf" ELSE "slot"
          /\ UNCHANGED <<held, known, cut>>
      BY <1>10 DEF InitSlot, Step, Go
    <3>2. zero \subseteq i..Slots
      BY <3>1 DEF LInv, Descriptors
    <3>3. zero \ {i} \subseteq (i + 1)..Slots
      BY <3>2, <1>a, SizeAssumption
    <3>4. i = Slots => (i + 1)..Slots = {}
      BY SizeAssumption
    <3>5. zero' # {} => pc' = "slot"
      BY <3>1, <3>3, <3>4
    <3>6. QED
      BY <3>1, <3>3, <3>5 DEF LInv, Descriptors
  <2>4. cut' \cap Fragile = {} => Sound'
    BY <1>10, SizeAssumption, Distinct
       DEF InitSlot, LInv, Control, Sound, Step, Go, Free, Rest, BeforeConfig,
           Loading, InPool, InConfig, Fragile, Datums, Datum
  <2>5. binited' \in {0, 1} /\ (cut' \cap Fragile = {} => LogOpen')
    BY <1>10, Distinct
       DEF InitSlot, LInv, LogOpen, Step, Go, Free, Rest, Fragile, Datums
  <2>6. QED
    BY <2>1, <2>2, <2>3, <2>4, <2>5 DEF LInv
<1>11. CASE MakeBuf
  <2>1. Counter'
    BY <1>11, SizeAssumption
       DEF MakeBuf, LInv, Counter, Control, Step, Go, Free, Rest, Datum
  <2>2. Control'
    <3>1. /\ pc = "buf" /\ pc' = "epoll" /\ after' = after
          /\ known' = known \cup {Buf}
      BY <1>11 DEF MakeBuf, Step, Rest
    <3>2. \A o \in {Config, Pool, Array} : o \in known' <=> o \in known
      BY <3>1, Distinct
    <3>3. QED
      BY <3>1, <3>2 DEF LInv, Control, BeforeConfig, Loading, InPool, InConfig
  <2>3. Descriptors'
    BY <1>11, SizeAssumption, Distinct
       DEF MakeBuf, LInv, Descriptors, Step, Go, Free, Rest, Datums, Slot
  <2>4. cut' \cap Fragile = {} => Sound'
    BY <1>11, SizeAssumption, Distinct
       DEF MakeBuf, LInv, Control, Sound, Step, Go, Free, Rest, BeforeConfig,
           Loading, InPool, InConfig, Fragile, Datums, Datum
  <2>5. binited' \in {0, 1} /\ (cut' \cap Fragile = {} => LogOpen')
    BY <1>11, Distinct
       DEF MakeBuf, LInv, LogOpen, Step, Go, Free, Rest, Fragile, Datums
  <2>6. QED
    BY <2>1, <2>2, <2>3, <2>4, <2>5 DEF LInv
<1>12. CASE MakeEpoll
  <2>1. Counter'
    BY <1>12, SizeAssumption
       DEF MakeEpoll, LInv, Counter, Control, Step, Go, Free, Rest, Datum
  <2>2. Control'
    BY <1>12, Distinct
       DEF MakeEpoll, LInv, Control, Step, Go, Free, Rest, BeforeConfig, Loading,
           InPool, InConfig, Datums
  <2>3. Descriptors'
    BY <1>12, SizeAssumption, Distinct
       DEF MakeEpoll, LInv, Descriptors, Step, Go, Free, Rest, Datums, Slot
  <2>4. cut' \cap Fragile = {} => Sound'
    <3>1. /\ pc \notin InPool \cup InConfig /\ pc' # "undefined" /\ cut' = cut
          /\ Config \in known' => Config \in known
      BY <1>12, Distinct DEF MakeEpoll, Step, Go, InPool, InConfig
    <3>2. \A o \in known' \ held' : o \in {Log, File, Epoll} \/ o \in known \ held
      BY <1>12 DEF MakeEpoll, Step, Go
    <3>3. QED
      BY <3>1, <3>2, SoundKept DEF LInv
  <2>5. binited' \in {0, 1} /\ (cut' \cap Fragile = {} => LogOpen')
    BY <1>12, Distinct
       DEF MakeEpoll, LInv, LogOpen, Step, Go, Free, Rest, Fragile, Datums
  <2>6. QED
    BY <2>1, <2>2, <2>3, <2>4, <2>5 DEF LInv
<1>13. CASE DialDone
  <2>0. /\ <<"socket", i>> \notin {Config, Pool, Buf, Con, Array, Log, Stdin}
        /\ \A d : <<"socket", i>> # Datums(d)
    BY Distinct
  <2>1. Counter'
    BY <1>13, SizeAssumption
       DEF DialDone, LInv, Counter, Control, Step, Go, Free, Rest, Datum
  <2>2. Control'
    BY <1>13, <2>0, Distinct
       DEF DialDone, LInv, Control, Step, Go, Free, Rest, BeforeConfig, Loading,
           InPool, InConfig, Datums
  <2>3. Descriptors'
    BY <1>13, <2>0, SizeAssumption, Distinct
       DEF DialDone, LInv, Descriptors, Step, Go, Free, Rest, Datums, Slot
  <2>4. cut' \cap Fragile = {} => Sound'
    <3> SUFFICES ASSUME cut' \cap Fragile = {} PROVE Sound'
      OBVIOUS
    <3>1. /\ pc = "dialled" /\ pc' = "loop" /\ cut' = cut /\ i' = i
          /\ \/ held' = held /\ known' = known \cup {<<"socket", i>>}
             \/ /\ held' = held \ {<<"socket", i>>}
                /\ known' \in {known, known \cup {<<"socket", i>>}}
      BY <1>13 DEF DialDone, Step, Rest
    <3>2. Sound
      BY <3>1 DEF LInv
    <3>3. \A o \in {Config, Pool, Buf, Con, Array} :
            (o \in known' <=> o \in known) /\ (o \in held' <=> o \in held)
      BY <3>1, <2>0
    <3>4. \A d : /\ Datums(d) \in known' <=> Datums(d) \in known
                 /\ Datums(d) \in held' <=> Datums(d) \in held
      BY <3>1, <2>0
    <3>5. QED
      BY <3>1, <3>2, <3>3, <3>4 DEF Sound, InConfig
  <2>5. binited' \in {0, 1} /\ (cut' \cap Fragile = {} => LogOpen')
    BY <1>13, <2>0, Distinct
       DEF DialDone, LInv, LogOpen, Step, Go, Free, Rest, Fragile, Datums
  <2>6. QED
    BY <2>1, <2>2, <2>3, <2>4, <2>5 DEF LInv
<1>14. CASE HangupDone
  <2>0. /\ <<"socket", i>> \notin {Config, Pool, Buf, Con, Array, Log, Stdin}
        /\ \A d : <<"socket", i>> # Datums(d)
    BY Distinct
  <2>1. Counter'
    BY <1>14, SizeAssumption
       DEF HangupDone, LInv, Counter, Control, Step, Go, Free, Rest, Datum
  <2>2. Control'
    BY <1>14, <2>0, Distinct
       DEF HangupDone, LInv, Control, Step, Go, Free, Rest, BeforeConfig, Loading,
           InPool, InConfig, Datums
  <2>3. Descriptors'
    BY <1>14, <2>0, SizeAssumption, Distinct
       DEF HangupDone, LInv, Descriptors, Step, Go, Free, Rest, Datums, Slot
  <2>4. cut' \cap Fragile = {} => Sound'
    BY <1>14, <2>0
       DEF HangupDone, LInv, Control, Sound, Step, Go, Free, Rest, BeforeConfig,
           Loading, InPool, InConfig, Fragile, Datums, Datum
  <2>5. binited' \in {0, 1} /\ (cut' \cap Fragile = {} => LogOpen')
    BY <1>14, <2>0, Distinct
       DEF HangupDone, LInv, LogOpen, Step, Go, Free, Rest, Fragile, Datums
  <2>6. QED
    BY <2>1, <2>2, <2>3, <2>4, <2>5 DEF LInv
<1>15. CASE LeaveLoop
  <2>1. Counter'
    BY <1>15, SizeAssumption
       DEF LeaveLoop, LInv, Counter, Control, Step, Go, Free, Rest, Datum
  <2>2. Control'
    BY <1>15, Distinct
       DEF LeaveLoop, LInv, Control, Step, Go, Free, Rest, BeforeConfig, Loading,
           InPool, InConfig, Datums
  <2>3. Descriptors'
    BY <1>15, SizeAssumption, Distinct
       DEF LeaveLoop, LInv, Descriptors, Step, Go, Free, Rest, Datums, Slot
  <2>4. cut' \cap Fragile = {} => Sound'
    BY <1>15, SizeAssumption, Distinct
       DEF LeaveLoop, LInv, Control, Sound, Step, Go, Free, Rest, BeforeConfig,
           Loading, InPool, InConfig, Fragile, Datums, Datum
  <2>5. binited' \in {0, 1} /\ (cut' \cap Fragile = {} => LogOpen')
    BY <1>15, Distinct
       DEF LeaveLoop, LInv, LogOpen, Step, Go, Free, Rest, Fragile, Datums
  <2>6. QED
    BY <2>1, <2>2, <2>3, <2>4, <2>5 DEF LInv
<1>16. CASE Done
  <2>1. Counter'
    BY <1>16, SizeAssumption
       DEF Done, LInv, Counter, Control, Step, Go, Free, Rest, Datum
  <2>2. Control'
    BY <1>16, Distinct
       DEF Done, LInv, Control, Step, Go, Free, Rest, BeforeConfig, Loading,
           InPool, InConfig, Datums
  <2>3. Descriptors'
    BY <1>16, SizeAssumption, Distinct
       DEF Done, LInv, Descriptors, Step, Go, Free, Rest, Datums, Slot
  <2>4. cut' \cap Fragile = {} => Sound'
    BY <1>16, SizeAssumption, Distinct
       DEF Done, LInv, Control, Sound, Step, Go, Free, Rest, BeforeConfig,
           Loading, InPool, InConfig, Fragile, Datums, Datum
  <2>5. binited' \in {0, 1} /\ (cut' \cap Fragile = {} => LogOpen')
    BY <1>16, Distinct
       DEF Done, LInv, LogOpen, Step, Go, Free, Rest, Fragile, Datums
  <2>6. QED
    BY <2>1, <2>2, <2>3, <2>4, <2>5 DEF LInv
<1>17. CASE Clean
  <2>1. Counter'
    BY <1>17, SizeAssumption
       DEF Clean, LInv, Counter, Control, Step, Go, Free, Rest, Datum
  <2>2. Control'
    BY <1>17, Distinct
       DEF Clean, LInv, Control, Step, Go, Free, Rest, BeforeConfig, Loading,
           InPool, InConfig, Datums
  <2>3. Descriptors'
    BY <1>17, SizeAssumption, Distinct
       DEF Clean, LInv, Descriptors, Step, Go, Free, Rest, Datums, Slot
  <2>4. cut' \cap Fragile = {} => Sound'
    BY <1>17, SizeAssumption, Distinct
       DEF Clean, LInv, Control, Sound, Step, Go, Free, Rest, BeforeConfig,
           Loading, InPool, InConfig, Fragile, Datums, Datum
  <2>5. binited' \in {0, 1} /\ (cut' \cap Fragile = {} => LogOpen')
    BY <1>17, Distinct
       DEF Clean, LInv, LogOpen, Step, Go, Free, Rest, Fragile, Datums
  <2>6. QED
    BY <2>1, <2>2, <2>3, <2>4, <2>5 DEF LInv
<1>18. CASE CloseSocket
  <2>1. Counter'
    <3>1. i' = i + 1
      BY <1>18 DEF CloseSocket
    <3>2. pc' \notin {"item", "free item"}
      BY <1>18 DEF CloseSocket, Step, Go
    <3>3. i' \in Nat
      BY <3>1, <1>a
    <3>4. QED
      BY <3>2, <3>3 DEF Counter
  <2>2. Control'
    BY <1>18, Distinct
       DEF CloseSocket, LInv, Control, Step, Go, Free, Rest, BeforeConfig, Loading,
           InPool, InConfig, Datums
  <2>3. Descriptors'
    BY <1>18, SizeAssumption, Distinct
       DEF CloseSocket, LInv, Descriptors, Step, Go, Free, Rest, Datums, Slot
  <2>4. cut' \cap Fragile = {} => Sound'
    BY <1>18, SizeAssumption, Distinct
       DEF CloseSocket, LInv, Control, Sound, Step, Go, Free, Rest, BeforeConfig,
           Loading, InPool, InConfig, Fragile, Datums, Datum
  <2>5. binited' \in {0, 1} /\ (cut' \cap Fragile = {} => LogOpen')
    BY <1>18, Distinct
       DEF CloseSocket, LInv, LogOpen, Step, Go, Free, Rest, Fragile, Datums
  <2>6. QED
    BY <2>1, <2>2, <2>3, <2>4, <2>5 DEF LInv
<1>19. CASE FreeBuf
  <2>1. Counter'
    BY <1>19, SizeAssumption
       DEF FreeBuf, LInv, Counter, Control, Step, Go, Free, Rest, Datum
  <2>2. Control'
    BY <1>19, Distinct
       DEF FreeBuf, LInv, Control, Step, Go, Free, Rest, BeforeConfig, Loading,
           InPool, InConfig, Datums
  <2>3. Descriptors'
    BY <1>19, SizeAssumption, Distinct
       DEF FreeBuf, LInv, Descriptors, Step, Go, Free, Rest, Datums, Slot
  <2>4. cut' \cap Fragile = {} => Sound'
    <3>1. SUFFICES ASSUME Sound PROVE Sound'
      BY <1>19 DEF LInv, FreeBuf, Step, Go, Free
    <3>2. pc = "free buf" /\ Pool \in known
      BY <1>19 DEF LInv, Control, InPool, FreeBuf, Step, Go, Free
    <3>3. Pool \in held /\ (Buf \in known => Buf \in held)
      BY <3>1, <3>2 DEF Sound
    <3>4. /\ pc' = "free pool" /\ known' = known
          /\ \A o \in held : o = Buf \/ o \in held'
      BY <1>19, <3>3 DEF FreeBuf, Step, Go, Free
    <3>5. QED
      BY <3>1, <3>2, <3>3, <3>4, Distinct DEF Sound, InConfig, Datum
  <2>5. binited' \in {0, 1} /\ (cut' \cap Fragile = {} => LogOpen')
    BY <1>19, Distinct
       DEF FreeBuf, LInv, LogOpen, Step, Go, Free, Rest, Fragile, Datums
  <2>6. QED
    BY <2>1, <2>2, <2>3, <2>4, <2>5 DEF LInv
<1>20. CASE FreePool
  <2>1. Counter'
    BY <1>20, SizeAssumption
       DEF FreePool, LInv, Counter, Control, Step, Go, Free, Rest, Datum
  <2>2. Control'
    BY <1>20, Distinct
       DEF FreePool, LInv, Control, Step, Go, Free, Rest, BeforeConfig, Loading,
           InPool, InConfig, Datums
  <2>3. Descriptors'
    BY <1>20, SizeAssumption, Distinct
       DEF FreePool, LInv, Descriptors, Step, Go, Free, Rest, Datums, Slot
  <2>4. cut' \cap Fragile = {} => Sound'
    BY <1>20, SizeAssumption, Distinct
       DEF FreePool, LInv, Control, Sound, Step, Go, Free, Rest, BeforeConfig,
           Loading, InPool, InConfig, Fragile, Datums, Datum
  <2>5. binited' \in {0, 1} /\ (cut' \cap Fragile = {} => LogOpen')
    BY <1>20, Distinct
       DEF FreePool, LInv, LogOpen, Step, Go, Free, Rest, Fragile, Datums
  <2>6. QED
    BY <2>1, <2>2, <2>3, <2>4, <2>5 DEF LInv
<1>21. CASE ForgetPool
  <2>1. Counter'
    BY <1>21, SizeAssumption
       DEF ForgetPool, LInv, Counter, Control, Step, Go, Free, Rest, Datum
  <2>2. Control'
    BY <1>21, Distinct
       DEF ForgetPool, LInv, Control, Step, Go, Free, Rest, BeforeConfig, Loading,
           InPool, InConfig, Datums
  <2>3. Descriptors'
    BY <1>21, SizeAssumption, Distinct
       DEF ForgetPool, LInv, Descriptors, Step, Go, Free, Rest, Datums, Slot
  <2>4. cut' \cap Fragile = {} => Sound'
    BY <1>21, SizeAssumption, Distinct
       DEF ForgetPool, LInv, Control, Sound, Step, Go, Free, Rest, BeforeConfig,
           Loading, InPool, InConfig, Fragile, Datums, Datum
  <2>5. binited' \in {0, 1} /\ (cut' \cap Fragile = {} => LogOpen')
    BY <1>21, Distinct
       DEF ForgetPool, LInv, LogOpen, Step, Go, Free, Rest, Fragile, Datums
  <2>6. QED
    BY <2>1, <2>2, <2>3, <2>4, <2>5 DEF LInv
<1>22. CASE Clear
  <2>1. Counter'
    BY <1>22, SizeAssumption
       DEF Clear, LInv, Counter, Control, Step, Go, Free, Rest, Datum
  <2>2. Control'
    BY <1>22, Distinct
       DEF Clear, LInv, Control, Step, Go, Free, Rest, BeforeConfig, Loading,
           InPool, InConfig, Datums
  <2>3. Descriptors'
    BY <1>22, SizeAssumption, Distinct
       DEF Clear, LInv, Control, Descriptors, Step, Go, Free, Rest, Datums, Slot
  <2>4. cut' \cap Fragile = {} => Sound'
    BY <1>22, SizeAssumption, Distinct
       DEF Clear, LInv, Control, Sound, Step, Go, Free, Rest, BeforeConfig,
           Loading, InPool, InConfig, Fragile, Datums, Datum
  <2>5. binited' \in {0, 1} /\ (cut' \cap Fragile = {} => LogOpen')
    BY <1>22, Distinct
       DEF Clear, LInv, Control, LogOpen, Step, Go, Free, Rest, Fragile, Datums
  <2>6. QED
    BY <2>1, <2>2, <2>3, <2>4, <2>5 DEF LInv
<1>23. CASE FreeCon
  <2>1. Counter'
    <3>1. i' = 1
      BY <1>23 DEF FreeCon
    <3>2. 1 \in Datum
      BY SizeAssumption DEF Datum
    <3>3. QED
      BY <3>1, <3>2 DEF Counter
  <2>2. Control'
    BY <1>23, Distinct
       DEF FreeCon, LInv, Control, Step, Go, Free, Rest, BeforeConfig, Loading,
           InPool, InConfig, Datums
  <2>3. Descriptors'
    BY <1>23, SizeAssumption, Distinct
       DEF FreeCon, LInv, Descriptors, Step, Go, Free, Rest, Datums, Slot
  <2>4. cut' \cap Fragile = {} => Sound'
    <3>1. SUFFICES ASSUME Sound PROVE Sound'
      BY <1>23 DEF LInv, FreeCon, Step, Go, Free
    <3>2. pc = "free con" /\ Config \in known
      BY <1>23 DEF LInv, Control, InConfig, FreeCon, Step, Go, Free
    <3>3. Con \in known => Con \in held
      BY <3>1, <3>2 DEF Sound, InConfig
    <3>4. /\ pc' = "free item" /\ known' = known
          /\ \A o \in held : o = Con \/ o \in held'
      BY <1>23, <3>3 DEF FreeCon, Step, Go, Free
    <3>5. QED
      BY <3>1, <3>2, <3>4, Distinct DEF Sound, InConfig, Datum
  <2>5. binited' \in {0, 1} /\ (cut' \cap Fragile = {} => LogOpen')
    BY <1>23, Distinct
       DEF FreeCon, LInv, LogOpen, Step, Go, Free, Rest, Fragile, Datums
  <2>6. QED
    BY <2>1, <2>2, <2>3, <2>4, <2>5 DEF LInv
<1>24. CASE FreeItem
  <2>1. Counter'
    <3>1. /\ pc = "free item" /\ i' = i + 1 /\ pc' # "item"
          /\ pc' = "free item" => i # Data
      BY <1>24 DEF FreeItem, Step, Go, Free
    <3>2. i \in Datum
      BY <3>1, <1>b
    <3>3. i + 1 \in Nat /\ (i # Data => i + 1 \in Datum)
      BY <3>2, SizeAssumption DEF Datum
    <3>4. i' \in Nat
      BY <3>1, <3>3, <1>a
    <3>5. pc' = "item" \/ pc' = "free item" => i' \in Datum
      BY <3>1, <3>3
    <3>6. QED
      BY <3>4, <3>5 DEF Counter
  <2>2. Control'
    BY <1>24, Distinct
       DEF FreeItem, LInv, Control, Step, Go, Free, Rest, BeforeConfig, Loading,
           InPool, InConfig, Datums
  <2>3. Descriptors'
    BY <1>24, SizeAssumption, Distinct
       DEF FreeItem, LInv, Descriptors, Step, Go, Free, Rest, Datums, Slot
  <2>4. cut' \cap Fragile = {} => Sound'
    <3> SUFFICES ASSUME cut' \cap Fragile = {} PROVE Sound'
      OBVIOUS
    <3>1. pc = "free item" /\ UNCHANGED known /\ cut' = cut
      BY <1>24 DEF FreeItem, Step, Go, Free
    <3>2. Sound /\ Config \in known /\ Pool \notin known /\ Buf \notin known
      BY <3>1 DEF LInv, Control, InConfig
    <3>3. CASE Array \notin known
      <4>1. pc' = "forget config" /\ held' = held
        BY <1>24, <3>3 DEF FreeItem, Step, Go
      <4>2. QED
        BY <3>1, <3>2, <3>3, <4>1 DEF Sound, InConfig
    <3>4. CASE Array \in known
      <4>1. Array \in held
        BY <3>1, <3>2, <3>4 DEF Sound
      <4>2. i \in Datum
        BY <3>1, <1>b
      <4>3. /\ i' = i + 1
            /\ held' = IF Datums(i) \in known THEN held \ {Datums(i)} ELSE held
        BY <1>24, <3>4, <4>1 DEF FreeItem, Step, Go, Free, Datums
      <4>4. pc' = IF i = Data THEN "free data" ELSE "free item"
        <5>0. ~(i < i)
          BY <1>a
        <5>1. Datums(i) \in known => Datums(i) \in held
          BY <3>1, <3>2, <4>2, <5>0 DEF Sound
        <5>2. QED
          BY <1>24, <3>4, <4>1, <5>1 DEF FreeItem, Step, Go, Free, Datums
      <4>5. \A o \in {Pool, Buf, Con, Array} : o \in held => o \in held'
        BY <4>3, Distinct
      <4>6. \A d \in Datum : Datums(d) \in known \ held' => d < i \/ d = i
        <5>1. SUFFICES ASSUME NEW d \in Datum, Datums(d) \in known \ held', d # i
                       PROVE  d < i
          OBVIOUS
        <5>2. Datums(d) \notin held
          BY <4>3, <5>1, Distinct
        <5>3. QED
          BY <3>1, <3>2, <5>1, <5>2 DEF Sound
      <4>7. \A d \in Datum : Datums(d) \in known' \ held' =>
              \/ pc' \in {"free data", "forget config"}
              \/ pc' = "free item" /\ d < i'
        <5>1. \A d \in Datum : d < i \/ d = i => d < i + 1
          BY <4>2 DEF Datum
        <5>2. QED
          BY <3>1, <4>3, <4>4, <4>6, <5>1
      <4>8. QED
        BY <3>1, <3>2, <4>1, <4>4, <4>5, <4>7 DEF Sound, InConfig
    <3>5. QED
      BY <3>3, <3>4
  <2>5. binited' \in {0, 1} /\ (cut' \cap Fragile = {} => LogOpen')
    BY <1>24, Distinct
       DEF FreeItem, LInv, LogOpen, Step, Go, Free, Rest, Fragile, Datums
  <2>6. QED
    BY <2>1, <2>2, <2>3, <2>4, <2>5 DEF LInv
<1>25. CASE FreeData
  <2>1. Counter'
    BY <1>25, SizeAssumption
       DEF FreeData, LInv, Counter, Control, Step, Go, Free, Rest, Datum
  <2>2. Control'
    BY <1>25, Distinct
       DEF FreeData, LInv, Control, Step, Go, Free, Rest, BeforeConfig, Loading,
           InPool, InConfig, Datums
  <2>3. Descriptors'
    BY <1>25, SizeAssumption, Distinct
       DEF FreeData, LInv, Descriptors, Step, Go, Free, Rest, Datums, Slot
  <2>4. cut' \cap Fragile = {} => Sound'
    BY <1>25, SizeAssumption, Distinct
       DEF FreeData, LInv, Control, Sound, Step, Go, Free, Rest, BeforeConfig,
           Loading, InPool, InConfig, Fragile, Datums, Datum
  <2>5. binited' \in {0, 1} /\ (cut' \cap Fragile = {} => LogOpen')
    BY <1>25, Distinct
       DEF FreeData, LInv, LogOpen, Step, Go, Free, Rest, Fragile, Datums
  <2>6. QED
    BY <2>1, <2>2, <2>3, <2>4, <2>5 DEF LInv
<1>26. CASE ForgetConfig
  <2>1. Counter'
    BY <1>26, SizeAssumption
       DEF ForgetConfig, LInv, Counter, Control, Step, Go, Free, Rest, Datum
  <2>2. Control'
    BY <1>26, Distinct
       DEF ForgetConfig, LInv, Control, Step, Go, Free, Rest, BeforeConfig, Loading,
           InPool, InConfig, Datums
  <2>3. Descriptors'
    BY <1>26, SizeAssumption, Distinct
       DEF ForgetConfig, LInv, Control, Descriptors, Step, Go, Free, Rest, Datums,
           Slot
  <2>4. cut' \cap Fragile = {} => Sound'
    BY <1>26, SizeAssumption, Distinct
       DEF ForgetConfig, LInv, Control, Sound, Step, Go, Free, Rest, BeforeConfig,
           Loading, InPool, InConfig, Fragile, Datums, Datum
  <2>5. binited' \in {0, 1} /\ (cut' \cap Fragile = {} => LogOpen')
    BY <1>26, Distinct
       DEF ForgetConfig, LInv, Control, LogOpen, Step, Go, Free, Rest, Fragile, Datums
  <2>6. QED
    BY <2>1, <2>2, <2>3, <2>4, <2>5 DEF LInv
<1>27. CASE CloseEpoll
  <2>1. Counter'
    BY <1>27, SizeAssumption
       DEF CloseEpoll, LInv, Counter, Control, Step, Go, Free, Rest, Datum
  <2>2. Control'
    BY <1>27, Distinct
       DEF CloseEpoll, LInv, Control, Step, Go, Free, Rest, BeforeConfig, Loading,
           InPool, InConfig, Datums
  <2>3. Descriptors'
    BY <1>27, SizeAssumption, Distinct
       DEF CloseEpoll, LInv, Descriptors, Step, Go, Free, Rest, Datums, Slot
  <2>4. cut' \cap Fragile = {} => Sound'
    <3>1. /\ pc \notin InPool \cup InConfig /\ pc' # "undefined" /\ cut' = cut
          /\ Config \in known' => Config \in known
      BY <1>27, Distinct DEF CloseEpoll, Step, Go, InPool, InConfig
    <3>2. \A o \in known' \ held' : o \in {Log, File, Epoll} \/ o \in known \ held
      BY <1>27 DEF CloseEpoll, Step, Go
    <3>3. QED
      BY <3>1, <3>2, SoundKept DEF LInv
  <2>5. binited' \in {0, 1} /\ (cut' \cap Fragile = {} => LogOpen')
    BY <1>27, Distinct
       DEF CloseEpoll, LInv, LogOpen, Step, Go, Free, Rest, Fragile, Datums
  <2>6. QED
    BY <2>1, <2>2, <2>3, <2>4, <2>5 DEF LInv
<1>28. CASE ForgetEpoll
  <2>1. Counter'
    BY <1>28, SizeAssumption
       DEF ForgetEpoll, LInv, Counter, Control, Step, Go, Free, Rest, Datum
  <2>2. Control'
    BY <1>28, Distinct
       DEF ForgetEpoll, LInv, Control, Step, Go, Free, Rest, BeforeConfig, Loading,
           InPool, InConfig, Datums
  <2>3. Descriptors'
    BY <1>28, SizeAssumption, Distinct
       DEF ForgetEpoll, LInv, Descriptors, Step, Go, Free, Rest, Datums, Slot
  <2>4. cut' \cap Fragile = {} => Sound'
    BY <1>28, SizeAssumption, Distinct
       DEF ForgetEpoll, LInv, Control, Sound, Step, Go, Free, Rest, BeforeConfig,
           Loading, InPool, InConfig, Fragile, Datums, Datum
  <2>5. binited' \in {0, 1} /\ (cut' \cap Fragile = {} => LogOpen')
    BY <1>28, Distinct
       DEF ForgetEpoll, LInv, LogOpen, Step, Go, Free, Rest, Fragile, Datums
  <2>6. QED
    BY <2>1, <2>2, <2>3, <2>4, <2>5 DEF LInv
<1>29. CASE Report
  <2>1. Counter'
    BY <1>29, SizeAssumption
       DEF Report, LInv, Counter, Control, Step, Go, Free, Rest, Datum
  <2>2. Control'
    BY <1>29, Distinct
       DEF Report, LInv, Control, Step, Go, Free, Rest, BeforeConfig, Loading,
           InPool, InConfig, Datums
  <2>3. Descriptors'
    BY <1>29, SizeAssumption, Distinct
       DEF Report, LInv, Descriptors, Step, Go, Free, Rest, Datums, Slot
  <2>4. cut' \cap Fragile = {} => Sound'
    BY <1>29, SizeAssumption, Distinct
       DEF Report, LogUsable, LInv, Control, Sound, LogOpen, Step, Go, Free, Rest,
           BeforeConfig,
           Loading, InPool, InConfig, Fragile, Datums, Datum
  <2>5. binited' \in {0, 1} /\ (cut' \cap Fragile = {} => LogOpen')
    BY <1>29, Distinct
       DEF Report, LInv, LogOpen, Step, Go, Free, Rest, Fragile, Datums
  <2>6. QED
    BY <2>1, <2>2, <2>3, <2>4, <2>5 DEF LInv
<1>30. CASE CloseLog
  <2>1. Counter'
    BY <1>30, SizeAssumption
       DEF CloseLog, LInv, Counter, Control, Step, Go, Free, Rest, Datum
  <2>2. Control'
    BY <1>30, Distinct
       DEF CloseLog, LInv, Control, Step, Go, Free, Rest, BeforeConfig, Loading,
           InPool, InConfig, Datums
  <2>3. Descriptors'
    BY <1>30, SizeAssumption, Distinct
       DEF CloseLog, LInv, Descriptors, Step, Go, Free, Rest, Datums, Slot
  <2>4. cut' \cap Fragile = {} => Sound'
    <3>1. pc = "close log" /\ known' = known /\ cut' = cut
      BY <1>30 DEF CloseLog, Step, Go, Free
    <3>2. \A o \in known' \ held' : o \in {Log, File, Epoll} \/ o \in known \ held
      BY <1>30 DEF CloseLog, Step, Go, Free
    <3>3. LogOpen => LogUsable /\ (binited = 1 => Log \in held)
      BY <3>1 DEF LogOpen, LogUsable, LInv
    <3>4. LogOpen => pc' # "undefined"
      BY <1>30, <3>3 DEF CloseLog, Step, Go, Free
    <3>5. QED
      BY <3>1, <3>2, <3>4, SoundKept DEF LInv, InPool, InConfig
  <2>5. binited' \in {0, 1} /\ (cut' \cap Fragile = {} => LogOpen')
    BY <1>30, Distinct
       DEF CloseLog, LogUsable, LInv, LogOpen, Step, Go, Free, Rest, Fragile, Datums
  <2>6. QED
    BY <2>1, <2>2, <2>3, <2>4, <2>5 DEF LInv
<1>31. CASE ForgetLog
  <2>1. Counter'
    BY <1>31, SizeAssumption
       DEF ForgetLog, LInv, Counter, Control, Step, Go, Free, Rest, Datum
  <2>2. Control'
    BY <1>31, Distinct
       DEF ForgetLog, LInv, Control, Step, Go, Free, Rest, BeforeConfig, Loading,
           InPool, InConfig, Datums
  <2>3. Descriptors'
    BY <1>31, SizeAssumption, Distinct
       DEF ForgetLog, LInv, Descriptors, Step, Go, Free, Rest, Datums, Slot
  <2>4. cut' \cap Fragile = {} => Sound'
    BY <1>31, SizeAssumption, Distinct
       DEF ForgetLog, LInv, Control, Sound, Step, Go, Free, Rest, BeforeConfig,
           Loading, InPool, InConfig, Fragile, Datums, Datum
  <2>5. binited' \in {0, 1} /\ (cut' \cap Fragile = {} => LogOpen')
    BY <1>31, Distinct
       DEF ForgetLog, LInv, LogOpen, Step, Go, Free, Rest, Fragile, Datums
  <2>6. QED
    BY <2>1, <2>2, <2>3, <2>4, <2>5 DEF LInv
<1>31a. CASE Exit
  <2>1. Counter'
    BY <1>31a, SizeAssumption
       DEF Exit, LInv, Counter, Control, Step, Go, Free, Rest, Datum
  <2>2. Control'
    BY <1>31a, Distinct
       DEF Exit, LInv, Control, Step, Go, Free, Rest, BeforeConfig, Loading,
           InPool, InConfig, Datums
  <2>3. Descriptors'
    BY <1>31a, SizeAssumption, Distinct
       DEF Exit, LInv, Descriptors, Step, Go, Free, Rest, Datums, Slot
  <2>4. cut' \cap Fragile = {} => Sound'
    BY <1>31a, SizeAssumption, Distinct
       DEF Exit, LInv, Control, Sound, Step, Go, Free, Rest, BeforeConfig,
           Loading, InPool, InConfig, Fragile, Datums, Datum
  <2>5. binited' \in {0, 1} /\ (cut' \cap Fragile = {} => LogOpen')
    BY <1>31a, Distinct
       DEF Exit, LInv, LogOpen, Step, Go, Free, Rest, Fragile, Datums
  <2>6. QED
    BY <2>1, <2>2, <2>3, <2>4, <2>5 DEF LInv
<1>32. ASSUME NEW s \in Sockets, Dial(s) PROVE LInv'
  <2>0. /\ s \notin {Config, Pool, Buf, Con, Array, Log, Stdin}
        /\ \A d : s # Datums(d)
    BY Distinct
  <2>1. Counter'
    <3>1. i' = s[2]
      BY <1>32 DEF Dial
    <3>2. pc' \notin {"item", "free item"}
      BY <1>32 DEF Dial, Step, Go
    <3>3. i' \in Nat
      BY <3>1 DEF Sockets, Slot
    <3>4. QED
      BY <3>2, <3>3 DEF Counter
  <2>2. Control'
    BY <1>32, <2>0, Distinct
       DEF Dial, LInv, Control, Step, Go, Free, Rest, BeforeConfig, Loading,
           InPool, InConfig, Datums
  <2>3. Descriptors'
    BY <1>32, <2>0, SizeAssumption, Distinct
       DEF Dial, LInv, Descriptors, Step, Go, Free, Rest, Datums, Slot
  <2>4. cut' \cap Fragile = {} => Sound'
    BY <1>32, <2>0
       DEF Dial, LInv, Control, Sound, Step, Go, Free, Rest, BeforeConfig,
           Loading, InPool, InConfig, Fragile, Datums, Datum
  <2>5. binited' \in {0, 1} /\ (cut' \cap Fragile = {} => LogOpen')
    BY <1>32, <2>0, Distinct
       DEF Dial, LInv, LogOpen, Step, Go, Free, Rest, Fragile, Datums
  <2>6. QED
    BY <2>1, <2>2, <2>3, <2>4, <2>5 DEF LInv
<1>33. ASSUME NEW s \in Sockets, Hangup(s) PROVE LInv'
  <2>0. /\ s \notin {Config, Pool, Buf, Con, Array, Log, Stdin}
        /\ \A d : s # Datums(d)
    BY Distinct
  <2>1. Counter'
    <3>1. i' = s[2]
      BY <1>33 DEF Hangup
    <3>2. pc' \notin {"item", "free item"}
      BY <1>33 DEF Hangup, Step, Go
    <3>3. i' \in Nat
      BY <3>1 DEF Sockets, Slot
    <3>4. QED
      BY <3>2, <3>3 DEF Counter
  <2>2. Control'
    BY <1>33, <2>0, Distinct
       DEF Hangup, LInv, Control, Step, Go, Free, Rest, BeforeConfig, Loading,
           InPool, InConfig, Datums
  <2>3. Descriptors'
    BY <1>33, <2>0, SizeAssumption, Distinct
       DEF Hangup, LInv, Descriptors, Step, Go, Free, Rest, Datums, Slot
  <2>4. cut' \cap Fragile = {} => Sound'
    BY <1>33, <2>0
       DEF Hangup, LInv, Control, Sound, Step, Go, Free, Rest, BeforeConfig,
           Loading, InPool, InConfig, Fragile, Datums, Datum
  <2>5. binited' \in {0, 1} /\ (cut' \cap Fragile = {} => LogOpen')
    BY <1>33, <2>0, Distinct
       DEF Hangup, LInv, LogOpen, Step, Go, Free, Rest, Fragile, Datums
  <2>6. QED
    BY <2>1, <2>2, <2>3, <2>4, <2>5 DEF LInv
<1>34. ASSUME NEW sig \in Signal, Handle(sig) PROVE LInv'
  <2>1. Counter'
    BY <1>34, SizeAssumption
       DEF Handle, LInv, Counter, Control, Step, Go, Free, Rest, Datum
  <2>2. Control'
    BY <1>34, Distinct
       DEF Handle, LInv, Control, Step, Go, Free, Rest, BeforeConfig, Loading,
           InPool, InConfig, Datums
  <2>3. Descriptors'
    BY <1>34, SizeAssumption, Distinct
       DEF Handle, LInv, Descriptors, Step, Go, Free, Rest, Datums, Slot
  <2>4. cut' \cap Fragile = {} => Sound'
    BY <1>34, SizeAssumption, Distinct
       DEF Handle, LInv, Control, Sound, Step, Go, Free, Rest, BeforeConfig,
           Loading, InPool, InConfig, Fragile, Datums, Datum
  <2>5. binited' \in {0, 1} /\ (cut' \cap Fragile = {} => LogOpen')
    BY <1>34, Distinct
       DEF Handle, Ended, LInv, LogOpen, Step, Go, Free, Rest, Fragile, Datums
  <2>6. QED
    BY <2>1, <2>2, <2>3, <2>4, <2>5 DEF LInv
<1>35. CASE UNCHANGED lifeVars
  <2>1. Counter'
    BY <1>35, SizeAssumption
       DEF lifeVars, LInv, Counter, Control, Step, Go, Free, Rest, Datum
  <2>2. Control'
    BY <1>35, Distinct
       DEF lifeVars, LInv, Control, Step, Go, Free, Rest, BeforeConfig, Loading,
           InPool, InConfig, Datums
  <2>3. Descriptors'
    BY <1>35, SizeAssumption, Distinct
       DEF lifeVars, LInv, Descriptors, Step, Go, Free, Rest, Datums, Slot
  <2>4. cut' \cap Fragile = {} => Sound'
    BY <1>35, SizeAssumption, Distinct
       DEF lifeVars, LInv, Control, Sound, Step, Go, Free, Rest, BeforeConfig,
           Loading, InPool, InConfig, Fragile, Datums, Datum
  <2>5. binited' \in {0, 1} /\ (cut' \cap Fragile = {} => LogOpen')
    BY <1>35, Distinct
       DEF lifeVars, LInv, LogOpen, Step, Go, Free, Rest, Fragile, Datums
  <2>6. QED
    BY <2>1, <2>2, <2>3, <2>4, <2>5 DEF LInv
<1>36. QED
  BY <1>1, <1>2, <1>3, <1>4, <1>5, <1>6, <1>7, <1>8, <1>9, <1>10, <1>11, <1>12,
     <1>13, <1>14, <1>15, <1>16, <1>17, <1>18, <1>19, <1>20, <1>21, <1>22,
     <1>23, <1>24, <1>25, <1>26, <1>27, <1>28, <1>29, <1>30, <1>31, <1>31a, <1>32,
     <1>33, <1>34, <1>35
  DEF Next, Program

-----------------------------------------------------------------------------
(***************************************************************************)
(* The theorems.                                                           *)
(***************************************************************************)
LEMMA LInvHolds == Spec => []LInv
<1>1. Init => LInv
  BY InitLInv
<1>2. LInv /\ [Next]_lifeVars => LInv'
  BY NextLInv
<1>3. QED
  BY <1>1, <1>2, PTL DEF Spec

\* The order create_connection_pool() and destroy_connection_pool() ask for is
\* kept at every instruction, wherever signals cut into start-up, the loop or a
\* clean-up, for any number of slots and requests.
THEOREM PoolNeedsConfigHolds == Spec => []PoolNeedsConfig
<1>1. LInv => PoolNeedsConfig
  BY DEF LInv, Control, PoolNeedsConfig
<1>2. QED
  BY <1>1, LInvHolds, PTL

\* No block, descriptor or log is released twice or used after its release
\* unless a signal hits one of the six gaps between a release and the assignment
\* that forgets it, and stdin survives unless one hits the loop over the slots.
THEOREM CleansUpOnceHolds == Spec => []CleansUpOnce
<1>1. LInv => CleansUpOnce
  BY DEF LInv, Sound, Descriptors, CleansUpOnce
<1>2. QED
  BY <1>1, LInvHolds, PTL

-----------------------------------------------------------------------------
(***************************************************************************)
(* What the loop runs on.                                                  *)
(***************************************************************************)
\* The stages of start-up, by what is there from then on.
WithEpoll == Looping
WithBuf == {"epoll"} \cup WithEpoll
WithSlots == {"buf"} \cup WithBuf
WithPool == {"slot"} \cup WithSlots
WithCon == {"pool"} \cup WithPool
WithData == {"con"} \cup WithCon
WithItems == {"close data"} \cup WithData
WithArray == {"item"} \cup WithItems
WithLog == {"inited", "config", "open data", "count"} \cup WithArray

Has(o) == o \in held /\ o \in known

\* Start-up has what it has made so far, and the file is closed behind it.
Equipped ==
    /\ pc \in WithLog => Has(Log)
    /\ pc \in WithArray => Has(Array)
    /\ pc = "item" => \A d \in Datum : d < i => Has(Datums(d))
    /\ pc \in WithItems => \A d \in Datum : Has(Datums(d))
    /\ pc \in WithData => File \notin held
    /\ pc \in WithCon => Has(Con)
    /\ pc \in WithPool => Has(Pool)
    /\ pc \in WithSlots => zero = {}
    /\ pc \in WithBuf => Has(Buf)
    /\ pc \in WithEpoll => Has(Epoll)

\* Nothing leads back from a clean-up.
LEMMA NoWayBack ==
    ASSUME LInv,
           \/ LeaveLoop \/ Done \/ Clean \/ CloseSocket \/ FreeBuf \/ FreePool
           \/ ForgetPool \/ Clear \/ FreeCon \/ FreeItem \/ FreeData
           \/ ForgetConfig \/ CloseEpoll \/ ForgetEpoll \/ Report \/ CloseLog
           \/ ForgetLog \/ Exit \/ \E sig \in Signal : Handle(sig)
    PROVE  pc' \notin WithLog
<1>1. after \in {"clean", "close epoll"}
  BY DEF LInv, Control
<1> USE DEF WithLog, WithArray, WithItems, WithData, WithCon, WithPool, WithSlots,
            WithBuf, WithEpoll, Looping
<1>2. CASE LeaveLoop \/ Done \/ Clean \/ FreeBuf \/ FreePool \/ ForgetPool
  BY <1>2 DEF LeaveLoop, Done, Clean, FreeBuf, FreePool, ForgetPool, Go, Free, Step
<1>3. CASE CloseSocket
  BY <1>3 DEF CloseSocket, Step
<1>4. CASE Clear \/ FreeCon \/ FreeData \/ ForgetConfig
  BY <1>1, <1>4 DEF Clear, FreeCon, FreeData, ForgetConfig, Go, Free, Step
<1>5. CASE FreeItem
  BY <1>5 DEF FreeItem, Go, Free, Step
<1>6. CASE CloseEpoll \/ ForgetEpoll \/ Report \/ CloseLog \/ ForgetLog \/ Exit
  BY <1>6 DEF CloseEpoll, ForgetEpoll, Report, CloseLog, ForgetLog, Exit, Go, Free, Step
<1>7. CASE \E sig \in Signal : Handle(sig)
  BY <1>7 DEF Handle
<1>8. QED
  BY <1>2, <1>3, <1>4, <1>5, <1>6, <1>7

LEMMA NextEquipped == LInv /\ Equipped /\ [Next]_lifeVars => Equipped'
<1> SUFFICES ASSUME LInv, Equipped, [Next]_lifeVars PROVE Equipped'
  OBVIOUS
<1>0. CASE pc' \notin WithLog
  BY <1>0 DEF Equipped, WithLog, WithArray, WithItems, WithData, WithCon, WithPool,
              WithSlots, WithBuf, WithEpoll, Looping
<1> USE DEF Has, WithLog, WithArray, WithItems, WithData, WithCon, WithPool,
            WithSlots, WithBuf, WithEpoll, Looping
<1>1. CASE OpenLog \/ LogInited \/ SetConfig \/ OpenData
  BY <1>1, Distinct
     DEF Equipped, OpenLog, LogInited, SetConfig, OpenData, LoadFails, Go, Step, Rest
<1>2. CASE ReadCount
  <2>1. CASE pc' = "clear"
    BY <1>0, <2>1
  <2>2. CASE /\ pc = "count" /\ pc' = "item" /\ i' = 1
             /\ held' = held \cup {Array} /\ known' = known \cup {Array}
    <3>1. \A d \in Datum : ~(d < 1)
      BY SizeAssumption DEF Datum
    <3>2. QED
      BY <2>2, <3>1 DEF Equipped
  <2>3. QED
    BY <1>2, <2>1, <2>2 DEF ReadCount, LoadFails, Step
<1>3. CASE ReadItem
  <2>0. i \in Datum /\ pc = "item"
    BY <1>3 DEF ReadItem, LoadFails, Step, LInv, Counter
  <2>1. CASE pc' = "clear"
    BY <1>0, <2>1
  <2>2. CASE /\ pc' = IF i = Data THEN "close data" ELSE "item"
             /\ held' = held \cup {Datums(i)} /\ known' = known \cup {Datums(i)}
             /\ i' = i + 1
    <3>1. Has(Log)' /\ Has(Array)'
      BY <2>0, <2>2 DEF Equipped
    <3>2. \A d \in Datum : d < i + 1 => Has(Datums(d))'
      <4>1. SUFFICES ASSUME NEW d \in Datum, d < i + 1 PROVE Has(Datums(d))'
        OBVIOUS
      <4>2. d < i \/ d = i
        BY <2>0, <4>1 DEF Datum
      <4>3. QED
        BY <2>0, <2>2, <4>1, <4>2 DEF Equipped
    <3>3. i = Data => \A d \in Datum : d < i + 1
      BY <2>0, SizeAssumption DEF Datum
    <3>4. QED
      BY <2>0, <2>2, <3>1, <3>2, <3>3 DEF Equipped
  <2>3. QED
    BY <1>3, <2>1, <2>2 DEF ReadItem, LoadFails, Step, Datums
<1>4. CASE CloseData \/ MakeCon
  BY <1>4, Distinct
     DEF Equipped, CloseData, MakeCon, Step, Rest
<1>5. CASE MakePool
  BY <1>5, Distinct
     DEF Equipped, MakePool, Step
<1>6. CASE InitSlot
  <2>1. pc = "slot" /\ zero \subseteq i..Slots
    BY <1>6 DEF InitSlot, Go, Step, LInv, Descriptors
  <2>2. i = Slots => zero' = {}
    BY <1>6, <2>1, SizeAssumption DEF InitSlot
  <2>3. pc' = IF i = Slots THEN "buf" ELSE "slot"
    BY <1>6 DEF InitSlot, Go, Step
  <2>4. UNCHANGED <<held, known>>
    BY <1>6 DEF InitSlot, Go, Step
  <2>5. QED
    BY <2>1, <2>2, <2>3, <2>4 DEF Equipped
<1>7. CASE MakeBuf \/ MakeEpoll
  BY <1>7, Distinct
     DEF Equipped, MakeBuf, MakeEpoll, Go, Step, Rest
<1>8. ASSUME NEW s \in Sockets, Dial(s) \/ Hangup(s) PROVE Equipped'
  <2>1. s # File /\ s \notin {Log, Array, Con, Pool, Buf, Epoll} /\ \A d : s # Datums(d)
    BY Distinct
  <2>2. /\ pc = "loop" /\ pc' \in {"dialled", "hung up"}
        /\ held' \in {held \cup {s}, held \ {s}} /\ UNCHANGED <<known, zero>>
    BY <1>8 DEF Dial, Hangup, Step
  <2>3. QED
    BY <2>1, <2>2 DEF Equipped
<1>9. CASE DialDone \/ HangupDone
  <2> DEFINE s == <<"socket", i>>
  <2>1. s # File /\ s \notin {Log, Array, Con, Pool, Buf, Epoll} /\ \A d : s # Datums(d)
    BY Distinct
  <2>2. /\ pc \in {"dialled", "hung up"} /\ pc' = "loop" /\ zero' = zero
        /\ held' \in {held, held \ {s}}
        /\ known' \in {known, known \cup {s}, known \ {s}}
    BY <1>9 DEF DialDone, HangupDone, Step, Rest
  <2> HIDE DEF s
  <2>3. QED
    BY <2>1, <2>2 DEF Equipped
<1>10. CASE UNCHANGED lifeVars
  BY <1>10 DEF Equipped, lifeVars
<1>11. QED
  BY <1>0, <1>1, <1>2, <1>3, <1>4, <1>5, <1>6, <1>7, <1>8, <1>9, <1>10, NoWayBack
     DEF Next, Program

\* The loop runs only on complete data and with everything its handlers use, for
\* any number of slots and requests.
THEOREM LoopIsEquippedHolds == Spec => []LoopIsEquipped
<1>1. Init => Equipped
  BY DEF Init, Equipped, WithLog, WithArray, WithItems, WithData, WithCon, WithPool,
         WithSlots, WithBuf, WithEpoll, Looping
<1>2. LInv /\ Equipped => LoopIsEquipped
  <2> SUFFICES ASSUME LInv, Equipped, pc \in Looping
               PROVE  /\ Blocks \cup {Array, Con, Pool, Buf, Epoll, Log}
                               \subseteq held \cap known
                      /\ Config \in known /\ File \notin held
                      /\ zero = {}
    BY DEF LoopIsEquipped
  <2>1. /\ Has(Log) /\ Has(Array) /\ Has(Con) /\ Has(Pool) /\ Has(Buf) /\ Has(Epoll)
        /\ \A d \in Datum : Has(Datums(d))
        /\ File \notin held /\ zero = {}
    BY DEF Equipped, WithLog, WithArray, WithItems, WithData, WithCon, WithPool,
           WithSlots, WithBuf, WithEpoll
  <2>2. Config \in known
    BY <2>1 DEF LInv, Control, Has
  <2>3. \A o \in Blocks : \E d \in Datum : o = Datums(d)
    BY DEF Blocks, Datums
  <2>4. QED
    BY <2>1, <2>2, <2>3 DEF Has
<1>3. QED
  BY <1>1, <1>2, LInvHolds, NextEquipped, PTL DEF Spec

-----------------------------------------------------------------------------
(***************************************************************************)
(* What is left at the exit.                                               *)
(***************************************************************************)
Socket(n) == <<"socket", n>>

Nameable == {Log, Array, Con, Pool, Buf, Epoll, Config}

Leaving == {"close epoll", "forget epoll", "report", "close log", "forget log"}

\* Whatever is held is named, but for the data file, stdin, and the socket that
\* is being dialled; and what is named can be reached.
Named ==
    /\ pc = "dialled" => i \in Slot
    /\ \A o \in known : o \in Nameable \cup Sockets \cup Blocks
    /\ \A o \in held : \/ o \in known \/ o \in {Stdin, File}
                       \/ pc = "dialled" /\ o = Socket(i)
    /\ Config \notin held
    /\ \A s \in Sockets : s \in held \/ s \in known => Pool \in known /\ zero = {}
    /\ \A b \in Blocks : b \in known => Array \in known
    /\ Config \notin known => Con \notin held /\ Array \notin held

\* What a clean-up has behind it is released.
Behind ==
    /\ pc = "hung up" => Socket(i) \notin held
    /\ pc = "close socket" => \A n \in Slot : n < i => Socket(n) \notin held
    /\ pc \in InPool \ {"close socket"} => \A s \in Sockets : s \notin held
    /\ pc \in {"free pool", "forget pool"} => Buf \notin held
    /\ pc = "forget pool" => Pool \notin held
    /\ pc \in InConfig \ {"free con"} => Con \notin held
    /\ pc = "free item" => \A d \in Datum : d < i => Datums(d) \notin held
    /\ pc \in {"free data", "forget config"} => \A b \in Blocks : b \notin held
    /\ pc = "forget config" => Array \notin held
    /\ Config \notin known => \A b \in Blocks : b \notin held
    /\ pc \in Leaving => Pool \notin known /\ Config \notin known
    /\ pc \in Leaving \ {"close epoll"} => Epoll \notin held

\* The log and the exit itself.
LogBehind ==
    /\ pc = "init log" => held = {Stdin} /\ binited = 0
    /\ binited = 0 => Log \notin held \/ pc = "inited"
    /\ pc = "forget log" => Log \notin held
    /\ pc \in {"exit", "exited"} => held \subseteq {Stdin, File}

Uncut == cut \cap (Fragile \cup Unrecorded) = {}

RInv == Uncut => Named /\ Behind /\ LogBehind

\* Sockets, requests and the rest are different resources.
LEMMA Kinds ==
    /\ \A o \in Nameable \cup {Stdin, File} : o \notin Sockets /\ o \notin Blocks
    /\ \A s \in Sockets : s \notin Blocks /\ s \notin Nameable \cup {Stdin, File}
    /\ \A b \in Blocks : b \notin Nameable \cup {Stdin, File}
    /\ Stdin \notin Nameable /\ File \notin Nameable
    /\ \A n \in Slot : Socket(n) \in Sockets
    /\ \A d \in Datum : Datums(d) \in Blocks
    /\ \A s \in Sockets : \E n \in Slot : s = Socket(n)
    /\ \A b \in Blocks : \E d \in Datum : b = Datums(d)
BY DEF Nameable, Sockets, Blocks, Stdin, Log, File, Array, Con, Pool, Buf, Epoll,
       Config, Socket, Datums

\* Past the epoll descriptor, all that may still be held is the log, stdin and
\* the data file.
LEMMA OnlyLogLeft ==
    ASSUME LInv, Named, Behind, pc \in Leaving \ {"close epoll"}
    PROVE  held \subseteq {Stdin, File, Log}
<1>1. /\ Pool \notin known /\ Config \notin known /\ Epoll \notin held
      /\ Buf \notin known /\ pc # "dialled"
  BY DEF Behind, Leaving, LInv, Control
<1>2. /\ Con \notin held /\ Array \notin held /\ Config \notin held
      /\ \A s \in Sockets : s \notin held
      /\ \A b \in Blocks : b \notin held
  BY <1>1 DEF Named, Behind
<1>3. \A o \in held : o \in Nameable \cup {Stdin, File} /\ o \notin {Pool, Buf}
  BY <1>1, <1>2, Distinct DEF Named
<1>4. QED
  BY <1>1, <1>2, <1>3 DEF Nameable

LEMMA CountsUp ==
    \A m, k \in Nat : /\ \A n \in 1..m : n < k + 1 => n < k \/ n = k
                      /\ k = m => \A n \in 1..m : n < k + 1
OBVIOUS

\* A signal that has hit a gap is not forgotten.
LEMMA UncutBefore == [Next]_lifeVars /\ Uncut' => Uncut
<1> SUFFICES ASSUME [Next]_lifeVars PROVE cut \subseteq cut'
  BY DEF Uncut
<1>1. CASE UNCHANGED lifeVars
  BY <1>1 DEF lifeVars
<1>2. CASE \E sig \in Signal : Handle(sig)
  BY <1>2 DEF Handle
<1>3. CASE Program
  <2> USE DEF Step, Go, Free, LoadFails
  <2>1. CASE \/ OpenLog \/ LogInited \/ SetConfig \/ OpenData \/ ReadCount \/ ReadItem
             \/ CloseData \/ MakeCon \/ MakePool \/ InitSlot \/ MakeBuf \/ MakeEpoll
    BY <2>1 DEF OpenLog, LogInited, SetConfig, OpenData, ReadCount, ReadItem,
       CloseData,
                MakeCon, MakePool, InitSlot, MakeBuf, MakeEpoll
  <2>2. CASE \/ \E s \in Sockets : Dial(s) \/ Hangup(s)
             \/ DialDone \/ HangupDone \/ LeaveLoop \/ Done
    BY <2>2 DEF Dial, Hangup, DialDone, HangupDone, LeaveLoop, Done
  <2>3. CASE \/ Clean \/ CloseSocket \/ FreeBuf \/ FreePool \/ ForgetPool \/ Clear
             \/ FreeCon \/ FreeItem \/ FreeData \/ ForgetConfig
    BY <2>3 DEF Clean, CloseSocket, FreeBuf, FreePool, ForgetPool, Clear, FreeCon,
                FreeItem, FreeData, ForgetConfig
  <2>4. CASE CloseEpoll \/ ForgetEpoll \/ Report \/ CloseLog \/ ForgetLog \/ Exit
    BY <2>4 DEF CloseEpoll, ForgetEpoll, Report, CloseLog, ForgetLog,
                Exit
  <2>5. QED
    BY <1>3, <2>1, <2>2, <2>3, <2>4 DEF Program
<1>4. QED
  BY <1>1, <1>2, <1>3 DEF Next

LEMMA NextRInv == LInv /\ Equipped /\ RInv /\ [Next]_lifeVars => RInv'
<1> SUFFICES ASSUME LInv, Equipped, RInv, [Next]_lifeVars, Uncut'
             PROVE  Named' /\ Behind' /\ LogBehind'
  BY DEF RInv
<1>0. Named /\ Behind /\ LogBehind
  BY UncutBefore DEF RInv
<1>1. CASE OpenLog
  <2>1. Named'
    BY <1>0, <1>1, Distinct, Kinds
       DEF Named, Nameable, OpenLog, Step, Go, Rest, LInv, Control, Loading
  <2>2. Behind'
    BY <1>0, <1>1, Distinct, Kinds
       DEF Behind, Named, Nameable, OpenLog, Step, Go, Rest, InPool, InConfig,
           Leaving, LInv, Control
  <2>3. LogBehind'
    BY <1>0, <1>1, Distinct, Kinds
       DEF LogBehind, Named, Nameable, Behind, Leaving, OpenLog, Step, Go, Rest,
           LInv, Control
  <2>4. QED
    BY <2>1, <2>2, <2>3
<1>2. CASE LogInited
  <2>1. Named'
    BY <1>0, <1>2, Distinct, Kinds
       DEF Named, Nameable, LogInited, Rest, LInv, Control, Loading
  <2>2. Behind'
    BY <1>0, <1>2, Distinct, Kinds
       DEF Behind, Named, Nameable, LogInited, Rest, InPool, InConfig, Leaving,
           LInv, Control
  <2>3. LogBehind'
    <3>1. pc' = "config" /\ binited' = 1
      BY <1>2 DEF LogInited
    <3>2. binited' # 0
      BY <3>1
    <3>3. QED
      BY <3>1, <3>2 DEF LogBehind
  <2>4. QED
    BY <2>1, <2>2, <2>3
<1>3. CASE SetConfig
  <2>1. Named'
    BY <1>0, <1>3, Distinct, Kinds
       DEF Named, Nameable, SetConfig, Step, Rest, LInv, Control, Loading
  <2>2. Behind'
    BY <1>0, <1>3, Distinct, Kinds
       DEF Behind, Named, Nameable, SetConfig, Step, Rest, InPool, InConfig,
           Leaving, LInv, Control
  <2>3. LogBehind'
    BY <1>0, <1>3, Distinct, Kinds
       DEF LogBehind, Named, Nameable, Behind, Leaving, SetConfig, Step, Rest,
           LInv, Control
  <2>4. QED
    BY <2>1, <2>2, <2>3
<1>4. CASE OpenData
  <2>1. Named'
    BY <1>0, <1>4, Distinct, Kinds
       DEF Named, Nameable, OpenData, Step, LoadFails, Rest, LInv, Control,
           Loading
  <2>2. Behind'
    BY <1>0, <1>4, Distinct, Kinds
       DEF Behind, Named, Nameable, OpenData, Step, LoadFails, Rest, InPool,
           InConfig, Leaving, LInv, Control
  <2>3. LogBehind'
    BY <1>0, <1>4, Distinct, Kinds
       DEF LogBehind, Named, Nameable, Behind, Leaving, OpenData, Step,
           LoadFails, Rest, LInv, Control
  <2>4. QED
    BY <2>1, <2>2, <2>3
<1>5. CASE ReadCount
  <2>1. Named'
    BY <1>0, <1>5, Distinct, Kinds
       DEF Named, Nameable, ReadCount, Step, LoadFails, LInv, Control, Loading
  <2>2. Behind'
    BY <1>0, <1>5, Distinct, Kinds
       DEF Behind, Named, Nameable, ReadCount, Step, LoadFails, InPool, InConfig,
           Leaving, LInv, Control
  <2>3. LogBehind'
    BY <1>0, <1>5, Distinct, Kinds
       DEF LogBehind, Named, Nameable, Behind, Leaving, ReadCount, Step,
           LoadFails, LInv, Control
  <2>4. QED
    BY <2>1, <2>2, <2>3
<1>6. CASE ReadItem
  <2>0. i \in Datum /\ pc = "item"
    BY <1>6 DEF LInv, Counter, ReadItem, LoadFails, Step
  <2>1. Named'
    <3>1. \/ held' \subseteq held /\ known' = known
          \/ held' \subseteq held \cup {Datums(i)} /\ known' = known \cup {Datums(i)}
      BY <1>6 DEF ReadItem, LoadFails, Step, Datums
    <3>2. pc' # "dialled" /\ zero' = zero
      BY <1>6 DEF ReadItem, LoadFails, Step
    <3>3. Array \in known /\ Config \in known /\ Datums(i) \in Blocks
      BY <2>0, Kinds DEF Equipped, Has, WithArray, LInv, Control, Loading
    <3>4. QED
      BY <1>0, <2>0, <3>1, <3>2, <3>3, Kinds DEF Named, Nameable
  <2>2. Behind'
    BY <1>0, <1>6, <2>0, Distinct, Kinds
       DEF Behind, ReadItem, LoadFails, Step, Datums, Nameable, Named, LInv,
           Control, Loading, InPool, InConfig, Leaving
  <2>3. LogBehind'
    BY <1>0, <1>6, <2>0, Distinct, Kinds
       DEF LogBehind, ReadItem, LoadFails, Step, Datums, Nameable
  <2>4. QED
    BY <2>1, <2>2, <2>3
<1>7. CASE CloseData
  <2>1. Named'
    BY <1>0, <1>7, Distinct, Kinds
       DEF Named, Nameable, CloseData, Step, Rest, LInv, Control, Loading
  <2>2. Behind'
    BY <1>0, <1>7, Distinct, Kinds
       DEF Behind, Named, Nameable, CloseData, Step, Rest, InPool, InConfig,
           Leaving, LInv, Control
  <2>3. LogBehind'
    BY <1>0, <1>7, Distinct, Kinds
       DEF LogBehind, Named, Nameable, Behind, Leaving, CloseData, Step, Rest,
           LInv, Control
  <2>4. QED
    BY <2>1, <2>2, <2>3
<1>8. CASE MakeCon
  <2>1. Named'
    BY <1>0, <1>8, Distinct, Kinds
       DEF Named, Nameable, MakeCon, Step, Rest, LInv, Control, Loading
  <2>2. Behind'
    BY <1>0, <1>8, Distinct, Kinds
       DEF Behind, Named, Nameable, MakeCon, Step, Rest, InPool, InConfig,
           Leaving, LInv, Control
  <2>3. LogBehind'
    BY <1>0, <1>8, Distinct, Kinds
       DEF LogBehind, Named, Nameable, Behind, Leaving, MakeCon, Step, Rest,
           LInv, Control
  <2>4. QED
    BY <2>1, <2>2, <2>3
<1>9. CASE MakePool
  <2>1. Named'
    BY <1>0, <1>9, Distinct, Kinds
       DEF Named, Nameable, MakePool, Step, LInv, Control, Loading
  <2>2. Behind'
    BY <1>0, <1>9, Distinct, Kinds
       DEF Behind, Named, Nameable, MakePool, Step, InPool, InConfig, Leaving,
           LInv, Control
  <2>3. LogBehind'
    BY <1>0, <1>9, Distinct, Kinds
       DEF LogBehind, Named, Nameable, Behind, Leaving, MakePool, Step, LInv,
           Control
  <2>4. QED
    BY <2>1, <2>2, <2>3
<1>10. CASE InitSlot
  <2>1. Named'
    BY <1>0, <1>10, Distinct, Kinds
       DEF Named, Nameable, InitSlot, Step, Go, LInv, Control, Loading
  <2>2. Behind'
    BY <1>0, <1>10, Distinct, Kinds
       DEF Behind, Named, Nameable, InitSlot, Step, Go, InPool, InConfig,
           Leaving, LInv, Control
  <2>3. LogBehind'
    BY <1>0, <1>10, Distinct, Kinds
       DEF LogBehind, Named, Nameable, Behind, Leaving, InitSlot, Step, Go, LInv,
           Control
  <2>4. QED
    BY <2>1, <2>2, <2>3
<1>11. CASE MakeBuf
  <2>1. Named'
    BY <1>0, <1>11, Distinct, Kinds
       DEF Named, Nameable, MakeBuf, Step, Rest, LInv, Control, Loading
  <2>2. Behind'
    BY <1>0, <1>11, Distinct, Kinds
       DEF Behind, Named, Nameable, MakeBuf, Step, Rest, InPool, InConfig,
           Leaving, LInv, Control
  <2>3. LogBehind'
    BY <1>0, <1>11, Distinct, Kinds
       DEF LogBehind, Named, Nameable, Behind, Leaving, MakeBuf, Step, Rest,
           LInv, Control
  <2>4. QED
    BY <2>1, <2>2, <2>3
<1>12. CASE MakeEpoll
  <2>1. Named'
    BY <1>0, <1>12, Distinct, Kinds
       DEF Named, Nameable, MakeEpoll, Step, Go, Rest, LInv, Control, Loading
  <2>2. Behind'
    BY <1>0, <1>12, Distinct, Kinds
       DEF Behind, Named, Nameable, MakeEpoll, Step, Go, Rest, InPool, InConfig,
           Leaving, LInv, Control
  <2>3. LogBehind'
    BY <1>0, <1>12, Distinct, Kinds
       DEF LogBehind, Named, Nameable, Behind, Leaving, MakeEpoll, Step, Go,
           Rest, LInv, Control
  <2>4. QED
    BY <2>1, <2>2, <2>3
<1>13. CASE DialDone
  <2>1. Named'
    <3>1. /\ pc = "dialled" /\ pc' = "loop" /\ UNCHANGED <<i, zero>>
          /\ \/ held' = held /\ known' = known \cup {Socket(i)}
             \/ held' = held \ {Socket(i)} /\ known' \in {known, known \cup {Socket(i)}}
      BY <1>13 DEF DialDone, Step, Rest, Socket
    <3>2. Socket(i) \in Sockets /\ Pool \in known /\ zero = {}
      BY <1>0, <3>1, Kinds DEF Named, Equipped, Has, Looping, WithPool, WithSlots,
         WithBuf, WithEpoll
    <3>3. QED
      BY <1>0, <3>1, <3>2, Kinds DEF Named, Nameable
  <2>2. Behind'
    BY <1>0, <1>13, Distinct, Kinds
       DEF Behind, Named, Nameable, DialDone, Step, Rest, InPool, InConfig,
           Leaving, LInv, Control
  <2>3. LogBehind'
    BY <1>0, <1>13, Distinct, Kinds
       DEF LogBehind, Named, Nameable, Behind, Leaving, DialDone, Step, Rest,
           LInv, Control
  <2>4. QED
    BY <2>1, <2>2, <2>3
<1>14. CASE HangupDone
  <2>1. Named'
    BY <1>0, <1>14, Distinct, Kinds
       DEF Named, Nameable, Equipped, Has, Looping, WithPool, WithSlots, WithBuf,
           WithEpoll, Behind, Socket, HangupDone, Step, Rest
  <2>2. Behind'
    BY <1>0, <1>14, Distinct, Kinds
       DEF Behind, Named, Nameable, HangupDone, Step, Rest, InPool, InConfig,
           Leaving, LInv, Control
  <2>3. LogBehind'
    BY <1>0, <1>14, Distinct, Kinds
       DEF LogBehind, Named, Nameable, Behind, Leaving, HangupDone, Step, Rest,
           LInv, Control
  <2>4. QED
    BY <2>1, <2>2, <2>3
<1>15. CASE LeaveLoop
  <2>1. Named'
    BY <1>0, <1>15, Distinct, Kinds
       DEF Named, Nameable, LeaveLoop, Step, Go, Rest, LInv, Control, Loading
  <2>2. Behind'
    BY <1>0, <1>15, Distinct, Kinds
       DEF Behind, Named, Nameable, LeaveLoop, Step, Go, Rest, InPool, InConfig,
           Leaving, LInv, Control
  <2>3. LogBehind'
    BY <1>0, <1>15, Distinct, Kinds
       DEF LogBehind, Named, Nameable, Behind, Leaving, LeaveLoop, Step, Go,
           Rest, LInv, Control
  <2>4. QED
    BY <2>1, <2>2, <2>3
<1>16. CASE Done
  <2>1. Named'
    BY <1>0, <1>16, Distinct, Kinds
       DEF Named, Nameable, Done, Step, Go, Rest, LInv, Control, Loading
  <2>2. Behind'
    BY <1>0, <1>16, Distinct, Kinds
       DEF Behind, Named, Nameable, Done, Step, Go, Rest, InPool, InConfig,
           Leaving, LInv, Control
  <2>3. LogBehind'
    BY <1>0, <1>16, Distinct, Kinds
       DEF LogBehind, Named, Nameable, Behind, Leaving, Done, Step, Go, Rest,
           LInv, Control
  <2>4. QED
    BY <2>1, <2>2, <2>3
<1>17. CASE Clean
  <2>1. Named'
    BY <1>0, <1>17, Distinct, Kinds
       DEF Named, Nameable, Clean, Step, Go, LInv, Control, Loading
  <2>2. Behind'
    <3>1. \A n \in Slot : ~(n < 1)
      BY SizeAssumption DEF Slot
    <3>2. i' = 1 /\ held' = held /\ known' = known
      BY <1>17 DEF Clean, Go, Step
    <3>3. pc' \in {"close socket", "clear"}
      BY <1>17 DEF Clean, Go, Step
    <3>4. QED
      BY <1>0, <3>1, <3>2, <3>3 DEF Behind, InPool, InConfig, Leaving
  <2>3. LogBehind'
    BY <1>0, <1>17, Distinct, Kinds
       DEF LogBehind, Named, Nameable, Behind, Leaving, Clean, Step, Go, LInv,
           Control
  <2>4. QED
    BY <2>1, <2>2, <2>3
<1>18. CASE CloseSocket
  <2>0. pc = "close socket" /\ i \in Nat
    BY <1>18 DEF LInv, Counter, CloseSocket, Step
  <2>1. Named'
    BY <1>0, <1>18, Distinct, Kinds
       DEF Named, Nameable, CloseSocket, Step, LInv, Control, Loading
  <2>2. Behind'
    <3>1. Socket(i) \notin held' \/ i \notin Slot
      BY <1>0, <1>18, <2>0, Distinct, Kinds DEF Named, Nameable, CloseSocket, Step,
         Socket
    <3>2. /\ held' \subseteq held /\ known' = known /\ i' = i + 1
          /\ pc' \in {"undefined", "free buf", "close socket"}
          /\ pc' = "free buf" => i = Slots
      BY <1>18 DEF CloseSocket, Step
    <3>3. \A n \in Slot : n < i + 1 => Socket(n) \notin held'
      <4>1. SUFFICES ASSUME NEW n \in Slot, n < i + 1 PROVE Socket(n) \notin held'
        OBVIOUS
      <4>2. n < i \/ n = i
        BY <2>0, <4>1, CountsUp, SizeAssumption DEF Slot
      <4>3. CASE n < i
        <5>1. Socket(n) \notin held
          BY <1>0, <2>0, <4>3 DEF Behind
        <5>2. QED
          BY <3>2, <5>1
      <4>4. CASE n = i
        BY <3>1, <4>4
      <4>5. QED
        BY <4>2, <4>3, <4>4
    <3>4. pc' = "free buf" => \A s \in Sockets : s \notin held'
      <4>1. i = Slots => \A n \in Slot : n < i + 1
        BY <2>0, CountsUp, SizeAssumption DEF Slot
      <4>2. pc' = "free buf" => \A n \in Slot : Socket(n) \notin held'
        BY <3>2, <3>3, <4>1
      <4>3. \A s \in Sockets : \E n \in Slot : s = Socket(n)
        BY Kinds
      <4>4. QED
        BY <4>2, <4>3
    <3>5. Pool \in known /\ Config \in known
      BY <2>0 DEF LInv, Control, InPool
    <3>6. QED
      BY <3>2, <3>3, <3>4, <3>5 DEF Behind, InPool, InConfig, Leaving
  <2>3. LogBehind'
    BY <1>0, <1>18, Distinct, Kinds
       DEF LogBehind, Named, Nameable, Behind, Leaving, CloseSocket, Step, LInv,
           Control
  <2>4. QED
    BY <2>1, <2>2, <2>3
<1>19. CASE FreeBuf
  <2>1. Named'
    BY <1>0, <1>19, Distinct, Kinds
       DEF Named, Nameable, FreeBuf, Step, Go, Free, Rest, LInv, Control, Loading
  <2>2. Behind'
    BY <1>0, <1>19, Distinct, Kinds
       DEF Behind, Named, Nameable, FreeBuf, Step, Go, Free, Rest, InPool,
           InConfig, Leaving, LInv, Control
  <2>3. LogBehind'
    BY <1>0, <1>19, Distinct, Kinds
       DEF LogBehind, Named, Nameable, Behind, Leaving, FreeBuf, Step, Go, Free,
           Rest, LInv, Control
  <2>4. QED
    BY <2>1, <2>2, <2>3
<1>20. CASE FreePool
  <2>1. Named'
    BY <1>0, <1>20, Distinct, Kinds
       DEF Named, Nameable, FreePool, Step, Free, Rest, LInv, Control, Loading
  <2>2. Behind'
    BY <1>0, <1>20, Distinct, Kinds
       DEF Behind, Named, Nameable, FreePool, Step, Free, Rest, InPool, InConfig,
           Leaving, LInv, Control
  <2>3. LogBehind'
    BY <1>0, <1>20, Distinct, Kinds
       DEF LogBehind, Named, Nameable, Behind, Leaving, FreePool, Step, Free,
           Rest, LInv, Control
  <2>4. QED
    BY <2>1, <2>2, <2>3
<1>21. CASE ForgetPool
  <2>1. Named'
    BY <1>0, <1>21, Distinct, Kinds
       DEF Named, Nameable, Behind, InPool, ForgetPool, Step
  <2>2. Behind'
    BY <1>0, <1>21, Distinct, Kinds
       DEF Behind, Named, Nameable, ForgetPool, Step, InPool, InConfig, Leaving,
           LInv, Control
  <2>3. LogBehind'
    BY <1>0, <1>21, Distinct, Kinds
       DEF LogBehind, Named, Nameable, Behind, Leaving, ForgetPool, Step, LInv,
           Control
  <2>4. QED
    BY <2>1, <2>2, <2>3
<1>22. CASE Clear
  <2>1. Named'
    BY <1>0, <1>22, Distinct, Kinds
       DEF Named, Nameable, Clear, Step, Go, Rest, LInv, Control, Loading
  <2>2. Behind'
    BY <1>0, <1>22, Distinct, Kinds
       DEF Behind, Named, Nameable, Clear, Step, Go, Rest, InPool, InConfig,
           Leaving, LInv, Control
  <2>3. LogBehind'
    BY <1>0, <1>22, Distinct, Kinds
       DEF LogBehind, Named, Nameable, Behind, Leaving, Clear, Step, Go, Rest,
           LInv, Control
  <2>4. QED
    BY <2>1, <2>2, <2>3
<1>23. CASE FreeCon
  <2>1. Named'
    BY <1>0, <1>23, Distinct, Kinds
       DEF Named, Nameable, FreeCon, Step, Go, Free, LInv, Control, Loading
  <2>2. Behind'
    <3>1. \A d \in Datum : ~(d < 1)
      BY SizeAssumption DEF Datum
    <3>2. i' = 1 /\ known' = known /\ pc' \in {"free item", "undefined"}
      BY <1>23 DEF FreeCon, Go, Free, Step
    <3>3. held' \subseteq held /\ Con \notin held' /\ Config \in known
      BY <1>0, <1>23, Distinct, Kinds
         DEF Named, Nameable, FreeCon, Go, Free, Step, LInv, Control, InConfig
    <3>4. QED
      BY <1>0, <3>1, <3>2, <3>3 DEF Behind, InPool, InConfig, Leaving
  <2>3. LogBehind'
    BY <1>0, <1>23, Distinct, Kinds
       DEF LogBehind, Named, Nameable, Behind, Leaving, FreeCon, Step, Go, Free,
           LInv, Control
  <2>4. QED
    BY <2>1, <2>2, <2>3
<1>24. CASE FreeItem
  <2>0. /\ pc = "free item" /\ i \in Nat /\ i \in Datum /\ Config \in known /\ Con \notin held
        /\ \A d \in Datum : d < i => Datums(d) \notin held
    BY <1>0, <1>24 DEF LInv, Counter, Control, Behind, InConfig, FreeItem, Go, Free,
       Step
  <2>a. /\ held' \in {held, held \ {Datums(i)}} /\ known' = known /\ i' = i + 1
        /\ pc' \in {"free item", "free data", "forget config", "undefined"}
        /\ UNCHANGED <<zero, binited>>
    BY <1>24 DEF FreeItem, Go, Free, Step, Datums
  <2>1. Named'
    BY <1>0, <2>0, <2>a, Kinds DEF Named, Nameable
  <2>2. Behind'
    <3>1. CASE pc' = "forget config"
      <4>1. Array \notin known /\ held' = held
        BY <1>24, <3>1, SizeAssumption DEF FreeItem, Go, Free, Step
      <4>2. Array \notin held /\ \A b \in Blocks : b \notin held
        BY <1>0, <2>0, <4>1, Kinds DEF Named, Nameable
      <4>3. QED
        BY <2>0, <2>a, <3>1, <4>1, <4>2 DEF Behind, InPool, InConfig, Leaving
    <3>2. CASE pc' = "undefined"
      BY <2>0, <2>a, <3>2 DEF Behind, InPool, InConfig, Leaving
    <3>3. CASE pc' \in {"free item", "free data"}
      <4>1. Datums(i) \notin held' /\ (pc' = "free data" => i = Data)
        BY <1>0, <1>24, <2>0, <3>3, Kinds
           DEF Named, Nameable, FreeItem, Go, Free, Step, Datums
      <4>2. \A d \in Datum : d < i + 1 => Datums(d) \notin held'
        <5>1. SUFFICES ASSUME NEW d \in Datum, d < i + 1
                       PROVE  Datums(d) \notin held'
          OBVIOUS
        <5>2. i \in Nat /\ Data \in Nat
          BY <2>0, SizeAssumption
        <5>3. d < i \/ d = i
          BY <5>1, <5>2, CountsUp DEF Datum
        <5>4. QED
          BY <2>0, <2>a, <4>1, <5>1, <5>3
      <4>3. i = Data => \A d \in Datum : d < i + 1
        BY <2>0, CountsUp, SizeAssumption DEF Datum
      <4>4. pc' = "free data" => \A b \in Blocks : b \notin held'
        BY <4>1, <4>2, <4>3, Kinds
      <4>5. QED
        BY <2>0, <2>a, <3>3, <4>2, <4>4 DEF Behind, InPool, InConfig, Leaving
    <3>4. QED
      BY <2>a, <3>1, <3>2, <3>3
  <2>3. LogBehind'
    BY <1>0, <2>0, <2>a, Distinct DEF LogBehind
  <2>4. QED
    BY <2>1, <2>2, <2>3
<1>25. CASE FreeData
  <2>1. Named'
    BY <1>0, <1>25, Distinct, Kinds
       DEF Named, Nameable, FreeData, Step, Free, Rest, LInv, Control, Loading
  <2>2. Behind'
    BY <1>0, <1>25, Distinct, Kinds
       DEF Behind, Named, Nameable, FreeData, Step, Free, Rest, InPool, InConfig,
           Leaving, LInv, Control
  <2>3. LogBehind'
    BY <1>0, <1>25, Distinct, Kinds
       DEF LogBehind, Named, Nameable, Behind, Leaving, FreeData, Step, Free,
           Rest, LInv, Control
  <2>4. QED
    BY <2>1, <2>2, <2>3
<1>26. CASE ForgetConfig
  <2>1. Named'
    <3>1. /\ pc = "forget config" /\ pc' = after /\ after # "dialled"
          /\ known' = known \ {Config} /\ UNCHANGED <<held, zero, i>>
      BY <1>26 DEF ForgetConfig, Step, Rest, LInv, Control
    <3>2. Con \notin held /\ Array \notin held /\ Pool \notin known
      BY <1>0, <3>1 DEF Behind, InConfig, LInv, Control
    <3>3. QED
      BY <1>0, <3>1, <3>2, Distinct, Kinds DEF Named, Nameable
  <2>2. Behind'
    BY <1>0, <1>26, Distinct, Kinds
       DEF Behind, Named, Nameable, ForgetConfig, Step, Rest, InPool, InConfig,
           Leaving, LInv, Control
  <2>3. LogBehind'
    BY <1>0, <1>26, Distinct, Kinds
       DEF LogBehind, Named, Nameable, Behind, Leaving, ForgetConfig, Step, Rest,
           LInv, Control
  <2>4. QED
    BY <2>1, <2>2, <2>3
<1>27. CASE CloseEpoll
  <2>1. Named'
    BY <1>0, <1>27, Distinct, Kinds
       DEF Named, Nameable, CloseEpoll, Step, Go, Rest, LInv, Control, Loading
  <2>2. Behind'
    BY <1>0, <1>27, Distinct, Kinds
       DEF Behind, Named, Nameable, CloseEpoll, Step, Go, Rest, InPool, InConfig,
           Leaving, LInv, Control
  <2>3. LogBehind'
    BY <1>0, <1>27, Distinct, Kinds
       DEF LogBehind, Named, Nameable, Behind, Leaving, CloseEpoll, Step, Go,
           Rest, LInv, Control
  <2>4. QED
    BY <2>1, <2>2, <2>3
<1>28. CASE ForgetEpoll
  <2>1. Named'
    BY <1>0, <1>28, Distinct, Kinds
       DEF Named, Nameable, Behind, Leaving, ForgetEpoll, Step, Rest
  <2>2. Behind'
    BY <1>0, <1>28, Distinct, Kinds
       DEF Behind, Named, Nameable, ForgetEpoll, Step, Rest, InPool, InConfig,
           Leaving, LInv, Control
  <2>3. LogBehind'
    BY <1>0, <1>28, Distinct, Kinds
       DEF LogBehind, Named, Nameable, Behind, Leaving, ForgetEpoll, Step, Rest,
           LInv, Control
  <2>4. QED
    BY <2>1, <2>2, <2>3
<1>29. CASE Report
  <2>1. Named'
    BY <1>0, <1>29, Distinct, Kinds
       DEF Named, Nameable, Report, Step, Go, LogUsable, Rest, LInv, Control,
           Loading
  <2>2. Behind'
    BY <1>0, <1>29, Distinct, Kinds
       DEF Behind, Named, Nameable, Report, Step, Go, LogUsable, Rest, InPool,
           InConfig, Leaving, LInv, Control
  <2>3. LogBehind'
    BY <1>0, <1>29, Distinct, Kinds
       DEF LogBehind, Named, Nameable, Behind, Leaving, Report, Step, Go,
           LogUsable, Rest, LInv, Control
  <2>4. QED
    BY <2>1, <2>2, <2>3
<1>30. CASE CloseLog
  <2>1. Named'
    BY <1>0, <1>30, Distinct, Kinds
       DEF Named, Nameable, CloseLog, Step, Go, Free, LogUsable, Rest, LInv,
           Control, Loading
  <2>2. Behind'
    BY <1>0, <1>30, Distinct, Kinds
       DEF Behind, Named, Nameable, CloseLog, Step, Go, Free, LogUsable, Rest,
           InPool, InConfig, Leaving, LInv, Control
  <2>3. LogBehind'
    <3>1. /\ pc = "close log" /\ held' \subseteq held /\ binited' = binited
          /\ pc' \in {"exit", "forget log", "undefined"}
          /\ pc' = "exit" => binited = 0
          /\ pc' = "forget log" => Log \notin held'
      BY <1>30 DEF CloseLog, Step, Go, Free
    <3>2. held \subseteq {Stdin, File, Log}
      BY <1>0, <3>1, OnlyLogLeft DEF Leaving
    <3>3. QED
      BY <1>0, <3>1, <3>2 DEF LogBehind
  <2>4. QED
    BY <2>1, <2>2, <2>3
<1>31. CASE ForgetLog
  <2>1. Named'
    BY <1>0, <1>31, Distinct, Kinds
       DEF Named, Nameable, LogBehind, ForgetLog, Step, Rest
  <2>2. Behind'
    BY <1>0, <1>31, Distinct, Kinds
       DEF Behind, Named, Nameable, ForgetLog, Step, Rest, InPool, InConfig,
           Leaving, LInv, Control
  <2>3. LogBehind'
    <3>1. /\ pc = "forget log" /\ pc' = "exit" /\ held' = held
          /\ binited' = binited
      BY <1>31 DEF ForgetLog, Step
    <3>2. held \subseteq {Stdin, File, Log} /\ Log \notin held
      BY <1>0, <3>1, OnlyLogLeft DEF Leaving, LogBehind
    <3>3. QED
      BY <3>1, <3>2 DEF LogBehind
  <2>4. QED
    BY <2>1, <2>2, <2>3
<1>31a. CASE Exit
  <2>1. Named'
    BY <1>0, <1>31a, Distinct, Kinds
       DEF Named, Nameable, LogBehind, Exit, Go, Step, Rest
  <2>2. Behind'
    BY <1>0, <1>31a, Distinct, Kinds
       DEF Behind, Named, Nameable, Exit, Go, Step, Rest, InPool, InConfig,
           Leaving, LInv, Control
  <2>3. LogBehind'
    <3>1. /\ pc = "exit" /\ pc' = "exited" /\ held' = held
          /\ binited' = binited
      BY <1>31a DEF Exit, Go, Step
    <3>2. held \subseteq {Stdin, File}
      BY <1>0, <3>1 DEF LogBehind
    <3>3. QED
      BY <3>1, <3>2, Distinct DEF LogBehind
  <2>4. QED
    BY <2>1, <2>2, <2>3
<1>32. ASSUME NEW s \in Sockets, Dial(s) \/ Hangup(s)
      PROVE  Named' /\ Behind' /\ LogBehind'
  <2>1. /\ pc = "loop" /\ i' = s[2] /\ s = Socket(s[2]) /\ s[2] \in Slot
        /\ UNCHANGED <<known, zero, binited>>
        /\ \/ pc' = "dialled" /\ held' = held \cup {s}
           \/ pc' = "hung up" /\ held' = held \ {s}
    BY <1>32, Distinct DEF Dial, Hangup, Step, Sockets, Socket
  <2>2. Pool \in known /\ Config \in known /\ zero = {}
    BY <2>1 DEF LInv, Control, Equipped, Has, Looping, WithPool, WithSlots, WithBuf,
       WithEpoll
  <2>3. Named'
    BY <1>0, <2>1, <2>2, Kinds DEF Named, Nameable
  <2>4. Behind'
    BY <1>0, <2>1, <2>2, Kinds DEF Behind, InPool, InConfig, Leaving
  <2>5. LogBehind'
    BY <1>0, <2>1, Kinds DEF LogBehind, Nameable
  <2>6. QED
    BY <2>3, <2>4, <2>5
<1>33. ASSUME NEW sig \in Signal, Handle(sig)
      PROVE  Named' /\ Behind' /\ LogBehind'
  <2>1. /\ pc' = "clean" /\ pc \notin Unrecorded
        /\ UNCHANGED <<i, held, known, zero, binited>>
    BY <1>33 DEF Handle, Uncut
  <2>2. QED
    BY <1>0, <2>1
       DEF Named, Nameable, Behind, InPool, InConfig, Leaving, LogBehind, Unrecorded
<1>34. CASE UNCHANGED lifeVars
  <2>1. UNCHANGED <<pc, i, held, known, zero, binited>>
    BY <1>34 DEF lifeVars
  <2>2. Named'
    BY <1>0, <2>1 DEF Named, Nameable
  <2>3. Behind'
    BY <1>0, <2>1 DEF Behind, InPool, InConfig, Leaving
  <2>4. LogBehind'
    BY <1>0, <2>1 DEF LogBehind
  <2>5. QED
    BY <2>2, <2>3, <2>4
<1>35. QED
  BY <1>1, <1>2, <1>3, <1>4, <1>5, <1>6, <1>7, <1>8, <1>9, <1>10, <1>11, <1>12,
     <1>13, <1>14, <1>15, <1>16, <1>17, <1>18, <1>19, <1>20, <1>21, <1>22, <1>23,
     <1>24, <1>25, <1>26, <1>27, <1>28, <1>29, <1>30, <1>31, <1>31a, <1>32, <1>33, <1>34
  DEF Next, Program

\* A process that exits, by itself or by signals that hit no gap, has released
\* all it held but the data file that a short read leaves open.
THEOREM AllReleasedHolds == Spec => []AllReleased
<1>1. Init => Equipped /\ RInv
  BY Kinds
     DEF Init, Equipped, WithLog, WithArray, WithItems, WithData, WithCon, WithPool,
         WithSlots, WithBuf, WithEpoll, Looping, RInv, Named, Nameable, Behind,
             InPool,
         InConfig, Leaving, LogBehind
<1>2. RInv => AllReleased
  BY DEF RInv, Uncut, LogBehind, AllReleased
<1>3. QED
  BY <1>1, <1>2, LInvHolds, NextEquipped, NextRInv, PTL DEF Spec
=============================================================================
