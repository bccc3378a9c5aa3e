------------------------- MODULE SerialSystemProofs -------------------------
(***************************************************************************)
(* Theorems about SerialSystem for any devices, ports and bounds.          *)
(***************************************************************************)
EXTENDS SerialSystem, TLAPS

(* The types of the port's variables and of the monitor's. *)

LEMMA ToSetTyped ==
  ASSUME NEW S, NEW s \in Seq(S)
  PROVE  Port!ToSet(s) \subseteq S
  BY DEF Port!ToSet

LEMMA PortTypeInit == Port!Init => Port!TypeOK
<1> SUFFICES ASSUME Port!Init PROVE Port!TypeOK
  OBVIOUS
<1>1. <<>> \in Seq(Port!Bytes) /\ count \in 0..MaxBytes /\ depth \in 0..MaxWrites
  BY BoundAssumption DEF Port!Init
<1> QED  BY <1>1 DEF Port!Init, Port!TypeOK, Port!Past

LEMMA PortTypeStep ==
  ASSUME Port!TypeOK, Port!Next
  PROVE  Port!TypeOK'
<1>0. <<>> \in Seq(Port!Bytes)
  OBVIOUS
<1>1. Port!ToSet(driver) \subseteq Port!Bytes /\ Port!ToSet(m_yReadData) \subseteq Port!Bytes
  BY ToSetTyped DEF Port!TypeOK
<1> USE BoundAssumption DEF Port!TypeOK, Port!Past, Port!portVars, Port!dataVars, Port!delayVars,
        Port!ownerVars, Port!historyVars, Port!AtRest, Port!Runs
<1>2. CASE \E name \in Ports : Port!SetSerialPortName(name)
  BY <1>2 DEF Port!SetSerialPortName
<1>3. CASE Port!OpenSerial
  BY <1>0, <1>1, <1>3 DEF Port!OpenSerial
<1>4. CASE Port!Close \/ Port!ErrorOccurred \/ Port!DeleteSerial \/ Port!Destroy
  BY <1>0, <1>1, <1>4 DEF Port!Close, Port!ErrorOccurred, Port!DeleteSerial, Port!Destroy, Port!ClosePort
<1>5. CASE Port!Clear
  BY <1>0, <1>1, <1>5 DEF Port!Clear
<1>6. CASE Port!Arrives
  BY <1>6 DEF Port!Arrives, Port!Bytes
<1>7. CASE Port!ReadyRead \/ Port!Starts
  <2>1. CASE Port!ReadyRead
    <3>1. met' \in BOOLEAN
      BY <2>1 DEF Port!ReadyRead
    <3>2. pc' \in {"rest", "waiting", "start", "append"}
      BY <2>1 DEF Port!ReadyRead
    <3> QED  BY <2>1, <3>1, <3>2 DEF Port!ReadyRead
  <2>2. CASE Port!Starts
    BY <2>2 DEF Port!Starts
  <2> QED  BY <1>7, <2>1, <2>2
<1>8. CASE Port!Appends
  <2>1. m_yReadData \o driver \in Seq(Port!Bytes)
    OBVIOUS
  <2>2. late' \subseteq Port!Bytes
    BY <1>1, <1>8 DEF Port!Appends
  <2> QED  BY <1>0, <1>8, <2>1, <2>2 DEF Port!Appends
<1>9. CASE Port!WriteSerialPortSlot \/ Port!WriteGoesOn
  BY <1>9 DEF Port!WriteSerialPortSlot, Port!WriteGoesOn
<1>10. CASE Port!Delay
  <2>1. crashed' \in BOOLEAN
    BY <1>10 DEF Port!Delay, Port!Reports
  <2>2. met' \in BOOLEAN
    BY <1>10 DEF Port!Delay
  <2>3. m_yReadData' \in Seq(Port!Bytes) /\ reported' \in Seq(Port!Bytes)
    <3>1. reported \o m_yReadData \in Seq(Port!Bytes)
      OBVIOUS
    <3>2. m_yReadData' \in {m_yReadData, <<>>} /\ reported' \in {reported, reported \o m_yReadData}
      BY <1>10 DEF Port!Delay, Port!Reports, Port!ClearsReported
    <3> QED  BY <1>0, <3>1, <3>2
  <2>4. delay' \in {"idle", "started", "sleeping"} \cup Port!Past /\ m_bWork' \in BOOLEAN
    BY <1>10 DEF Port!Delay, Port!Sleeps, Port!Reports
  <2> QED  BY <1>10, <2>1, <2>2, <2>3, <2>4 DEF Port!Delay
<1>11. CASE Port!RaceOnBuffer \/ Port!Destroyed
  BY <1>11 DEF Port!RaceOnBuffer, Port!Destroyed
<1> QED
  BY <1>2, <1>3, <1>4, <1>5, <1>6, <1>7, <1>8, <1>9, <1>10, <1>11 DEF Port!Next

LEMMA MonitorTypeInit == Monitor!Init => Monitor!TypeOK
<1> SUFFICES ASSUME Monitor!Init PROVE Monitor!TypeOK
  OBVIOUS
<1>1. DOMAIN m_pSerials = {} /\ Monitor!Range(m_pSerials) = {}
  BY DEF Monitor!Init, Monitor!Range
<1>2. notes \in Seq([pid : Monitor!Pids, arrival : BOOLEAN]) /\ deletions \in Seq(Monitor!Names)
  BY DEF Monitor!Init
<1>3. twins \subseteq Monitor!Pids /\ plugs \in 0..MaxPlugs
  BY BoundAssumption DEF Monitor!Init, Monitor!Sharing
<1> QED  BY <1>1, <1>2, <1>3 DEF Monitor!Init, Monitor!TypeOK

NoteType == [pid : Monitor!Pids, arrival : BOOLEAN]

LEMMA NoteTyped ==
  ASSUME NEW d \in Devices, NEW arrival \in BOOLEAN
  PROVE  Monitor!Note(d, arrival) \in NoteType /\ PidOf[d] \in Monitor!Pids
  BY DEF Monitor!Note, NoteType, Monitor!Pids

LEMMA ShortSequences ==
  ASSUME NEW S, NEW x \in S
  PROVE  <<x>> \in Seq(S) /\ <<x, x>> \in Seq(S)
  OBVIOUS

LEMMA SendsTyped ==
  ASSUME notes \in Seq(NoteType), NEW messages \in Seq(NoteType), Monitor!Sends(messages)
  PROVE  notes' \in Seq(NoteType)
  BY DEF Monitor!Sends

LEMMA MonitorTypeStep ==
  ASSUME Monitor!TypeOK, Monitor!Next
  PROVE  Monitor!TypeOK'
<1> USE BoundAssumption DEF Monitor!TypeOK, Monitor!worldVars, Monitor!monitorVars
<1>0. notes \in Seq(NoteType)
  BY DEF NoteType
<1>1. CASE \E d \in Devices : Monitor!Plug(d)
  <2>1. PICK d \in Devices : Monitor!Plug(d)
    BY <1>1
  <2>2. notes' \in Seq(NoteType)
    <3>1. <<Monitor!Note(d, TRUE)>> \in Seq(NoteType)
      BY NoteTyped, ShortSequences
    <3> QED  BY <1>0, <2>1, <3>1, SendsTyped DEF Monitor!Plug
  <2>3. twins' \subseteq Monitor!Pids
    BY <2>1 DEF Monitor!Plug, Monitor!Sharing
  <2>4. plugged' \subseteq Devices /\ named' \subseteq plugged' /\ heard' \subseteq plugged'
    BY <2>1 DEF Monitor!Plug, Monitor!Hears
  <2>5. plugs' \in 0..MaxPlugs
    BY <2>1 DEF Monitor!Plug
  <2> QED  BY <2>1, <2>2, <2>3, <2>4, <2>5 DEF Monitor!Plug, NoteType
<1>2. CASE \E d \in Devices : Monitor!NamePort(d)
  <2>1. PICK d \in Devices : Monitor!NamePort(d)
    BY <1>2
  <2>2. notes' \in Seq(NoteType)
    <3>1. <<Monitor!Note(d, TRUE)>> \in Seq(NoteType)
      BY NoteTyped, ShortSequences
    <3> QED  BY <1>0, <2>1, <3>1, SendsTyped DEF Monitor!NamePort
  <2>3. named' \subseteq plugged' /\ heard' \subseteq plugged'
    BY <2>1 DEF Monitor!NamePort, Monitor!Hears
  <2> QED  BY <2>1, <2>2, <2>3 DEF Monitor!NamePort, NoteType
<1>3. CASE \E d \in Devices : Monitor!Unplug(d)
  <2>1. PICK d \in Devices : Monitor!Unplug(d)
    BY <1>3
  <2>2. notes' \in Seq(NoteType)
    <3>1. Monitor!Note(d, FALSE) \in NoteType
      BY NoteTyped
    <3>2. /\ <<Monitor!Note(d, FALSE)>> \in Seq(NoteType)
          /\ <<Monitor!Note(d, FALSE), Monitor!Note(d, FALSE)>> \in Seq(NoteType)
      BY <3>1, ShortSequences
    <3> QED  BY <1>0, <2>1, <3>2, SendsTyped DEF Monitor!Unplug
  <2>3. named' \subseteq plugged' /\ heard' \subseteq plugged' /\ plugged' \subseteq Devices
    BY <2>1 DEF Monitor!Unplug
  <2>4. twins' \subseteq Monitor!Pids
    BY <2>1 DEF Monitor!Unplug
  <2> QED  BY <2>1, <2>2, <2>3, <2>4 DEF Monitor!Unplug, NoteType
<1>4. CASE Monitor!Instance \/ Monitor!Registers
  BY <1>4 DEF Monitor!Instance, Monitor!Registers
<1>5. CASE Monitor!UpdateDevice
  <2>1. /\ Head(notes) \in NoteType /\ Head(notes).pid \in Monitor!Pids
        /\ notes' \in Seq(NoteType)
    <3>1. notes # <<>> /\ notes' = Tail(notes)
      BY <1>5 DEF Monitor!UpdateDevice
    <3>2. Head(notes) \in NoteType /\ Tail(notes) \in Seq(NoteType)
      BY <1>0, <3>1
    <3> QED  BY <3>1, <3>2 DEF NoteType
  <2>2. ASSUME NEW pid \in Monitor!Pids, Monitor!Adds(pid)
        PROVE  /\ DOMAIN m_pSerials' \subseteq Monitor!Pids
               /\ Monitor!Range(m_pSerials') \subseteq Monitor!Names
               /\ deletions' \in Seq(Monitor!Names)
    <3>1. PICK name \in Monitor!WhoAllVidPid(pid) :
            m_pSerials' = [p \in DOMAIN m_pSerials \cup {pid} |->
                              IF p \in DOMAIN m_pSerials THEN m_pSerials[p] ELSE name]
      BY <2>2 DEF Monitor!Adds
    <3>2. name \in Monitor!Names
      BY DEF Monitor!WhoAllVidPid, Monitor!Names
    <3>3. \A p \in DOMAIN m_pSerials' : m_pSerials'[p] \in Monitor!Names
      BY <3>1, <3>2 DEF Monitor!Range
    <3> QED  BY <2>2, <3>1, <3>3 DEF Monitor!Adds, Monitor!Range
  <2>3. ASSUME NEW pid \in Monitor!Pids, Monitor!Removes(pid)
        PROVE  /\ DOMAIN m_pSerials' \subseteq Monitor!Pids
               /\ Monitor!Range(m_pSerials') \subseteq Monitor!Names
               /\ deletions' \in Seq(Monitor!Names)
    <3>1. CASE pid \in DOMAIN m_pSerials
      <4>1. m_pSerials[pid] \in Monitor!Names
        BY <3>1 DEF Monitor!Range
      <4>2. DOMAIN m_pSerials' \subseteq DOMAIN m_pSerials
            /\ \A p \in DOMAIN m_pSerials' : m_pSerials'[p] = m_pSerials[p]
        BY <2>3, <3>1 DEF Monitor!Removes, Monitor!Forgets, Monitor!Restrict
      <4>3. deletions' \in Seq(Monitor!Names)
        BY <2>3, <3>1, <4>1 DEF Monitor!Removes
      <4> QED  BY <4>2, <4>3 DEF Monitor!Range
    <3>2. CASE pid \notin DOMAIN m_pSerials
      BY <2>3, <3>2 DEF Monitor!Removes
    <3> QED  BY <3>1, <3>2
  <2> QED  BY <1>5, <2>1, <2>2, <2>3 DEF Monitor!UpdateDevice, NoteType
<1>6. CASE Monitor!TakesExit \/ Monitor!Deleted
  BY <1>6 DEF Monitor!TakesExit, Monitor!Deleted
<1>7. CASE Monitor!Delete
  <2>1. exiting' \in BOOLEAN /\ exitLost' \in BOOLEAN
    BY <1>7 DEF Monitor!Delete, Monitor!PostsExit
  <2> QED  BY <1>7, <2>1 DEF Monitor!Delete
<1> QED
  BY <1>1, <1>2, <1>3, <1>4, <1>5, <1>6, <1>7 DEF Monitor!Next, Monitor!Thread

LEMMA DeletionsTyped ==
  ASSUME Monitor!TypeOK, Port!Next
  PROVE  deletions' \in Seq(Monitor!Names)
<1>1. deletions \in Seq(Monitor!Names)
  BY DEF Monitor!TypeOK
<1>2. CASE Port!DeleteSerial
  BY <1>1, <1>2 DEF Port!DeleteSerial
<1>3. CASE Port!Delay
  BY <1>1, <1>3 DEF Port!Delay
<1> QED
  BY <1>1, <1>2, <1>3 DEF Port!Next, Port!SetSerialPortName, Port!OpenSerial, Port!Close,
     Port!ErrorOccurred, Port!Clear, Port!Arrives, Port!ReadyRead, Port!Starts,
     Port!Appends, Port!WriteSerialPortSlot, Port!WriteGoesOn, Port!RaceOnBuffer,
     Port!Destroy, Port!Destroyed

LEMMA PortLosesDevice ==
  ASSUME Port!TypeOK, NEW name, Port!DeviceLost(name)
  PROVE  Port!TypeOK'
  BY DEF Port!TypeOK, Port!DeviceLost, Port!dataVars, Port!delayVars, Port!ownerVars,
     Port!historyVars

LEMMA TypeInit == Init => TypeOK
  BY PortTypeInit, MonitorTypeInit DEF Init, TypeOK

LEMMA TypeStep ==
  ASSUME TypeOK, [Next]_vars
  PROVE  TypeOK'
<1>1. CASE \E d \in Devices : Unplug(d)
  <2>1. PICK d \in Devices : Monitor!Unplug(d) /\ Port!DeviceLost(PortOf[d])
    BY <1>1 DEF Unplug
  <2>2. Monitor!TypeOK'
    BY <2>1, MonitorTypeStep DEF TypeOK, Monitor!Next
  <2>3. Port!TypeOK'
    BY <2>1, PortLosesDevice DEF TypeOK
  <2> QED  BY <2>2, <2>3 DEF TypeOK
<1>2. CASE Monitor!Next /\ UNCHANGED portVars
  <2>1. Monitor!TypeOK'
    BY <1>2, MonitorTypeStep DEF TypeOK
  <2>2. Port!TypeOK'
    BY <1>2 DEF portVars, TypeOK, Port!TypeOK
  <2> QED  BY <2>1, <2>2 DEF TypeOK
<1>3. CASE Port!Next /\ UNCHANGED monitorVars
  <2>1. Port!TypeOK'
    BY <1>3, PortTypeStep DEF TypeOK
  <2>2. Monitor!TypeOK'
    BY <1>3, DeletionsTyped DEF monitorVars, TypeOK, Monitor!TypeOK
  <2> QED  BY <2>1, <2>2 DEF TypeOK
<1>4. CASE UNCHANGED vars
  BY <1>4 DEF vars, monitorVars, portVars, TypeOK, Port!TypeOK, Monitor!TypeOK
<1> QED  BY <1>1, <1>2, <1>3, <1>4 DEF Next, World, Monitor!Next

-----------------------------------------------------------------------------
(* What arrives is reported once and in order: it moves from the driver through m_yReadData  *)
(* to the reports, which overlap with m_yReadData only between a report and its clearing.    *)

Rises(s) == \A i, j \in DOMAIN s : i < j => s[i] < s[j]
Below(s, t) == \A i \in DOMAIN s, j \in DOMAIN t : s[i] < t[j]
Arrived(s) == \A i \in DOMAIN s : s[i] <= count

OrderInv ==
    /\ Rises(reported) /\ Rises(m_yReadData) /\ Rises(driver)
    /\ Below(reported, driver) /\ Below(m_yReadData, driver)
    /\ delay # "clears" => Below(reported, m_yReadData)
    /\ Arrived(reported) /\ Arrived(m_yReadData) /\ Arrived(driver)

LEMMA JoinRises ==
  ASSUME NEW s \in Seq(Nat), NEW t \in Seq(Nat), Rises(s), Rises(t), Below(s, t)
  PROVE  Rises(s \o t)
  BY DEF Rises, Below

LEMMA JoinBelow ==
  ASSUME NEW s \in Seq(Nat), NEW t \in Seq(Nat), NEW r \in Seq(Nat)
  PROVE  /\ Below(s, r) /\ Below(t, r) => Below(s \o t, r)
         /\ Below(r, s) /\ Below(r, t) => Below(r, s \o t)
<1>1. ASSUME NEW i \in DOMAIN (s \o t)
      PROVE  \/ i \in DOMAIN s /\ (s \o t)[i] = s[i]
             \/ \E j \in DOMAIN t : (s \o t)[i] = t[j]
  <2>1. CASE i <= Len(s)
    BY <2>1
  <2>2. CASE i > Len(s)
    <3>1. i - Len(s) \in DOMAIN t /\ (s \o t)[i] = t[i - Len(s)]
      BY <2>2
    <3> QED  BY <3>1
  <2> QED  BY <2>1, <2>2
<1> QED  BY <1>1 DEF Below

LEMMA JoinArrived ==
  ASSUME NEW s \in Seq(Nat), NEW t \in Seq(Nat), Arrived(s), Arrived(t)
  PROVE  Arrived(s \o t)
  BY DEF Arrived

LEMMA Empty ==
  ASSUME NEW s
  PROVE  Rises(<<>>) /\ Below(s, <<>>) /\ Below(<<>>, s) /\ Arrived(<<>>)
  BY DEF Rises, Below, Arrived

LEMMA OrderInit == Init => OrderInv
  BY Empty DEF Init, Port!Init, OrderInv

LEMMA OrderKept ==
  ASSUME OrderInv, UNCHANGED <<reported, driver, count, delay>>, m_yReadData' \in {m_yReadData, <<>>}
  PROVE  OrderInv'
  BY Empty DEF OrderInv, Rises, Below, Arrived

LEMMA OrderDropped ==
  ASSUME OrderInv, UNCHANGED <<reported, m_yReadData, count, delay>>, driver' \in {driver, <<>>}
  PROVE  OrderInv'
  BY Empty DEF OrderInv, Rises, Below, Arrived

LEMMA OrderStep ==
  ASSUME TypeOK, OrderInv, Port!Next
  PROVE  OrderInv'
<1>1. /\ reported \in Seq(Nat) /\ m_yReadData \in Seq(Nat) /\ driver \in Seq(Nat)
      /\ count \in Nat
  BY BoundAssumption DEF TypeOK, Port!TypeOK, Port!Bytes
<1>2. CASE Port!Arrives
  <2>1. Below(reported, <<count + 1>>) /\ Below(m_yReadData, <<count + 1>>)
        /\ Below(driver, <<count + 1>>)
    BY <1>1 DEF OrderInv, Arrived, Below
  <2>2. driver' = driver \o <<count + 1>> /\ count' = count + 1
        /\ UNCHANGED <<reported, m_yReadData, delay>>
    BY <1>1, <1>2 DEF Port!Arrives, Port!delayVars, Port!historyVars
  <2>3. <<count + 1>> \in Seq(Nat) /\ Rises(<<count + 1>>)
    BY <1>1 DEF Rises
  <2>4. Rises(driver') /\ Below(reported, driver') /\ Below(m_yReadData, driver')
    BY <1>1, <2>1, <2>2, <2>3, JoinRises, JoinBelow DEF OrderInv
  <2>5. Arrived(reported)' /\ Arrived(m_yReadData)' /\ Arrived(driver)'
    BY <1>1, <2>2 DEF OrderInv, Arrived
  <2> QED  BY <2>2, <2>4, <2>5 DEF OrderInv, Below, Rises
<1>3. CASE Port!Appends
  <2>1. m_yReadData' = m_yReadData \o driver /\ driver' = <<>>
        /\ UNCHANGED <<reported, count, delay>>
    BY <1>3 DEF Port!Appends, Port!delayVars
  <2>2. Rises(m_yReadData') /\ (delay # "clears" => Below(reported, m_yReadData'))
    BY <1>1, <2>1, JoinRises, JoinBelow DEF OrderInv
  <2>3. Arrived(m_yReadData \o driver)
    BY <1>1, JoinArrived DEF OrderInv
  <2>4. Arrived(m_yReadData)'
    BY <2>1, <2>3 DEF Arrived
  <2> QED  BY <2>1, <2>2, <2>4, Empty DEF OrderInv, Rises, Below, Arrived
<1>4. CASE Port!Delay
  <2>1. UNCHANGED <<driver, count>>
    BY <1>4 DEF Port!Delay
  <2>2. CASE delay = "tests"
    <3>1. /\ reported' = reported \o m_yReadData /\ m_yReadData' = m_yReadData
          /\ delay' = IF m_yReadData = <<>> THEN "returning" ELSE "clears"
      BY <1>4, <2>2 DEF Port!Delay, Port!Reports, Port!Sleeps
    <3>2. Rises(reported') /\ Below(reported', driver)
      BY <1>1, <2>2, <3>1, JoinRises, JoinBelow DEF OrderInv
    <3>3. Arrived(reported \o m_yReadData)
      BY <1>1, JoinArrived DEF OrderInv
    <3>4. Arrived(reported)'
      BY <2>1, <3>1, <3>3 DEF Arrived
    <3>5. delay' # "clears" => Below(reported', m_yReadData)
      BY <3>1, Empty
    <3> QED  BY <2>1, <3>1, <3>2, <3>4, <3>5 DEF OrderInv, Rises, Below, Arrived
  <2>3. CASE delay = "clears"
    <3>1. m_yReadData' = <<>> /\ reported' = reported
      BY <1>4, <2>3 DEF Port!Delay, Port!Reports, Port!Sleeps, Port!ClearsReported
    <3> QED  BY <2>1, <3>1, Empty DEF OrderInv, Rises, Below, Arrived
  <2>4. CASE delay \notin {"tests", "clears"}
    <3>1. delay' # "clears" /\ UNCHANGED <<reported, m_yReadData>>
      BY <1>4, <2>4 DEF Port!Delay, Port!Reports, Port!Sleeps
    <3> QED  BY <2>1, <2>4, <3>1 DEF OrderInv, Rises, Below, Arrived
  <2> QED  BY <2>2, <2>3, <2>4
<1>5. CASE Port!OpenSerial \/ Port!Close \/ Port!ErrorOccurred \/ Port!DeleteSerial \/ Port!Destroy
  BY <1>5, OrderDropped
  DEF Port!OpenSerial, Port!Close, Port!ErrorOccurred, Port!DeleteSerial, Port!Destroy,
      Port!ClosePort, Port!delayVars
<1>6. CASE Port!Clear
  BY <1>6, OrderKept DEF Port!Clear, Port!delayVars
<1>7. CASE \/ \E name \in Ports : Port!SetSerialPortName(name)
           \/ Port!ReadyRead \/ Port!WriteSerialPortSlot \/ Port!WriteGoesOn
           \/ Port!RaceOnBuffer \/ Port!Destroyed
  BY <1>7, OrderKept
  DEF Port!SetSerialPortName, Port!ReadyRead, Port!WriteSerialPortSlot, Port!WriteGoesOn,
      Port!RaceOnBuffer, Port!Destroyed, Port!dataVars, Port!delayVars, Port!historyVars
<1>8. CASE Port!Starts
  <2>1. UNCHANGED <<reported, m_yReadData, driver, count>>
        /\ (delay' = delay \/ (delay # "clears" /\ delay' # "clears"))
    BY <1>8 DEF Port!Starts, Port!dataVars, Port!historyVars
  <2> QED  BY <2>1 DEF OrderInv, Rises, Below, Arrived
<1> QED  BY <1>2, <1>3, <1>4, <1>5, <1>6, <1>7, <1>8 DEF Port!Next

-----------------------------------------------------------------------------
(* The notifications that are still to be handled tell the table what was heard: of each     *)
(* product id the last one, or the table itself if there is none.                            *)

PidsOf(devices) == {PidOf[d] : d \in devices}

Last(i) == \A j \in DOMAIN notes : j > i => notes[j].pid # notes[i].pid

Tells == \A pid \in Monitor!Pids \ twins :
    /\ (\A i \in DOMAIN notes : notes[i].pid # pid) =>
           (pid \in DOMAIN m_pSerials <=> pid \in PidsOf(heard))
    /\ \A i \in DOMAIN notes :
           notes[i].pid = pid /\ Last(i) => (notes[i].arrival <=> pid \in PidsOf(heard))

NotesInv ==
    /\ \A d, e \in plugged : PidOf[d] = PidOf[e] /\ PidOf[d] \notin twins => d = e
    /\ twins \subseteq PidsOf(plugged)
    /\ thread \in {"none", "begun"} => notes = <<>> /\ heard = {} /\ DOMAIN m_pSerials = {}
    /\ thread = "looping" => Tells

LEMMA NotesInit == Init => NotesInv
  BY DEF Init, Monitor!Init, NotesInv, Monitor!Sharing, Monitor!Pids, PidsOf

(* A message about one product id, behind those there are. *)
LEMMA OneMore ==
  ASSUME TypeOK, Tells, NEW d \in Devices, NEW arrival \in BOOLEAN,
         NEW n \in Nat \ {0},
         Len(notes') = Len(notes) + n, notes' \in Seq(NoteType),
         \A i \in DOMAIN notes : notes'[i] = notes[i],
         \A i \in DOMAIN notes' \ DOMAIN notes : notes'[i] = Monitor!Note(d, arrival),
         UNCHANGED m_pSerials,
         \A pid \in (Monitor!Pids \ twins') \ {PidOf[d]} :
             pid \notin twins /\ (pid \in PidsOf(heard') <=> pid \in PidsOf(heard)),
         PidOf[d] \notin twins' => (arrival <=> PidOf[d] \in PidsOf(heard'))
  PROVE  Tells'
<1>1. notes \in Seq(NoteType) /\ DOMAIN notes = 1..Len(notes) /\ DOMAIN notes' = 1..Len(notes')
      /\ Len(notes) \in Nat
  BY DEF TypeOK, Monitor!TypeOK, NoteType
<1>2. \A i \in DOMAIN notes' \ DOMAIN notes : notes'[i].pid = PidOf[d] /\ notes'[i].arrival = arrival
  BY DEF Monitor!Note
<1>3. Len(notes') \in DOMAIN notes' \ DOMAIN notes
  BY <1>1
<1>4. ASSUME NEW pid \in Monitor!Pids \ twins', pid # PidOf[d]
      PROVE  /\ (\A i \in DOMAIN notes' : notes'[i].pid # pid) =>
                    (pid \in DOMAIN m_pSerials' <=> pid \in PidsOf(heard'))
             /\ \A i \in DOMAIN notes' :
                    notes'[i].pid = pid /\ Last(i)' =>
                        (notes'[i].arrival <=> pid \in PidsOf(heard'))
  <2>1. pid \notin twins /\ (pid \in PidsOf(heard') <=> pid \in PidsOf(heard))
    BY <1>4
  <2>2. (\A i \in DOMAIN notes' : notes'[i].pid # pid) => \A i \in DOMAIN notes : notes[i].pid # pid
    BY <1>1
  <2>3. ASSUME NEW i \in DOMAIN notes', notes'[i].pid = pid, Last(i)'
        PROVE  notes'[i].arrival <=> pid \in PidsOf(heard')
    <3>1. i \in DOMAIN notes /\ notes'[i] = notes[i]
      BY <1>2, <1>4, <2>3
    <3>2. Last(i)
      BY <1>1, <2>3, <3>1 DEF Last
    <3> QED  BY <2>1, <2>3, <3>1, <3>2 DEF Tells
  <2> QED  BY <2>1, <2>2, <2>3 DEF Tells
<1>5. ASSUME PidOf[d] \notin twins', NEW i \in DOMAIN notes', notes'[i].pid = PidOf[d], Last(i)'
      PROVE  notes'[i].arrival <=> PidOf[d] \in PidsOf(heard')
  <2>1. i \notin DOMAIN notes
    BY <1>1, <1>2, <1>3, <1>5 DEF Last
  <2> QED  BY <1>2, <1>5, <2>1
<1> QED  BY <1>2, <1>3, <1>4, <1>5 DEF Tells

LEMMA Appended ==
  ASSUME notes \in Seq(NoteType), NEW note \in NoteType, notes' = notes \o <<note>>
  PROVE  /\ Len(notes') = Len(notes) + 1 /\ notes' \in Seq(NoteType)
         /\ \A i \in DOMAIN notes : notes'[i] = notes[i]
         /\ \A i \in DOMAIN notes' \ DOMAIN notes : notes'[i] = note
  OBVIOUS

LEMMA NotesPlug ==
  ASSUME TypeOK, NotesInv, NEW d \in Devices, Monitor!Plug(d)
  PROVE  NotesInv'
<1>1. /\ plugged' = plugged \cup {d} /\ d \notin plugged
      /\ twins' = twins \cup Monitor!Sharing(plugged')
      /\ UNCHANGED <<m_pSerials, thread>>
  BY DEF Monitor!Plug, Monitor!monitorVars
<1>2. \A a, b \in plugged' : PidOf[a] = PidOf[b] /\ PidOf[a] \notin twins' => a = b
  BY <1>1 DEF TypeOK, Monitor!TypeOK, Monitor!Sharing, Monitor!Pids
<1>3. twins' \subseteq PidsOf(plugged')
  BY <1>1 DEF NotesInv, PidsOf, Monitor!Sharing
<1>4. thread' \in {"none", "begun"} => notes' = <<>> /\ heard' = {} /\ DOMAIN m_pSerials' = {}
  BY <1>1 DEF NotesInv, Monitor!Plug, Monitor!Sends, Monitor!Hears
<1>5. CASE thread = "looping"
  <2>1. notes' = notes \o <<Monitor!Note(d, TRUE)>> /\ heard' = heard \cup {d}
    BY <1>5 DEF Monitor!Plug, Monitor!Sends, Monitor!Hears
  <2>2. notes \in Seq(NoteType) /\ Monitor!Note(d, TRUE) \in NoteType
    BY NoteTyped DEF TypeOK, Monitor!TypeOK, NoteType
  <2>3. /\ Len(notes') = Len(notes) + 1 /\ notes' \in Seq(NoteType)
        /\ \A i \in DOMAIN notes : notes'[i] = notes[i]
        /\ \A i \in DOMAIN notes' \ DOMAIN notes : notes'[i] = Monitor!Note(d, TRUE)
    BY <2>1, <2>2, Appended
  <2>4. \A pid : pid # PidOf[d] => (pid \in PidsOf(heard') <=> pid \in PidsOf(heard))
    BY <2>1 DEF PidsOf
  <2>5. PidOf[d] \in PidsOf(heard') /\ twins \subseteq twins'
    BY <1>1, <2>1 DEF PidsOf
  <2>6. Tells'
    <3>1. PidOf[d] \notin twins' => (TRUE <=> PidOf[d] \in PidsOf(heard'))
      BY <2>5
    <3>2. \A pid \in (Monitor!Pids \ twins') \ {PidOf[d]} :
              pid \notin twins /\ (pid \in PidsOf(heard') <=> pid \in PidsOf(heard))
      BY <1>1, <2>4, <2>5
    <3>3. Tells /\ UNCHANGED m_pSerials /\ 1 \in Nat \ {0} /\ TRUE \in BOOLEAN
      BY <1>1, <1>5 DEF NotesInv
    <3> QED  BY <2>3, <3>1, <3>2, <3>3, OneMore
  <2> QED  BY <1>2, <1>3, <1>4, <2>6 DEF NotesInv
<1> QED  BY <1>1, <1>2, <1>3, <1>4, <1>5 DEF NotesInv

LEMMA NotesName ==
  ASSUME TypeOK, NotesInv, NEW d \in Devices, Monitor!NamePort(d)
  PROVE  NotesInv'
<1>1. UNCHANGED <<plugged, twins, m_pSerials, thread>>
  BY DEF Monitor!NamePort, Monitor!monitorVars
<1>2. thread' \in {"none", "begun"} => notes' = <<>> /\ heard' = {}
  BY <1>1 DEF NotesInv, Monitor!NamePort, Monitor!Sends, Monitor!Hears
<1>3. CASE thread = "looping"
  <2>1. notes' = notes \o <<Monitor!Note(d, TRUE)>> /\ heard' = heard \cup {d}
    BY <1>3 DEF Monitor!NamePort, Monitor!Sends, Monitor!Hears
  <2>2. notes \in Seq(NoteType) /\ Monitor!Note(d, TRUE) \in NoteType
    BY NoteTyped DEF TypeOK, Monitor!TypeOK, NoteType
  <2>3. /\ Len(notes') = Len(notes) + 1 /\ notes' \in Seq(NoteType)
        /\ \A i \in DOMAIN notes : notes'[i] = notes[i]
        /\ \A i \in DOMAIN notes' \ DOMAIN notes : notes'[i] = Monitor!Note(d, TRUE)
    BY <2>1, <2>2, Appended
  <2>4. \A pid : pid # PidOf[d] => (pid \in PidsOf(heard') <=> pid \in PidsOf(heard))
    BY <2>1 DEF PidsOf
  <2>5. PidOf[d] \in PidsOf(heard')
    BY <2>1 DEF PidsOf
  <2>6. Tells'
    <3>1. PidOf[d] \notin twins' => (TRUE <=> PidOf[d] \in PidsOf(heard'))
      BY <2>5
    <3>2. \A pid \in (Monitor!Pids \ twins') \ {PidOf[d]} :
              pid \notin twins /\ (pid \in PidsOf(heard') <=> pid \in PidsOf(heard))
      BY <1>1, <2>4
    <3>3. Tells /\ UNCHANGED m_pSerials /\ 1 \in Nat \ {0} /\ TRUE \in BOOLEAN
      BY <1>1, <1>3 DEF NotesInv
    <3> QED  BY <2>3, <3>1, <3>2, <3>3, OneMore
  <2> QED  BY <1>1, <1>2, <1>3, <2>6 DEF NotesInv, PidsOf
<1> QED  BY <1>1, <1>2, <1>3 DEF NotesInv, PidsOf

LEMMA NotesUnplug ==
  ASSUME TypeOK, NotesInv, NEW d \in Devices, Monitor!Unplug(d)
  PROVE  NotesInv'
<1>1. /\ d \in plugged /\ plugged' = plugged \ {d} /\ heard' = heard \ {d}
      /\ twins' = twins \cap PidsOf(plugged')
      /\ UNCHANGED <<m_pSerials, thread>>
  BY DEF Monitor!Unplug, Monitor!monitorVars, PidsOf
<1>2. heard \subseteq plugged
  BY DEF TypeOK, Monitor!TypeOK
<1>3. ASSUME NEW a \in plugged', NEW b \in plugged', PidOf[a] = PidOf[b], PidOf[a] \notin twins'
      PROVE  a = b
  <2>1. PidOf[a] \in PidsOf(plugged')
    BY DEF PidsOf
  <2> QED  BY <1>1, <1>3, <2>1 DEF NotesInv
<1>4. thread' \in {"none", "begun"} => notes' = <<>> /\ heard' = {} /\ DOMAIN m_pSerials' = {}
  BY <1>1 DEF NotesInv, Monitor!Unplug, Monitor!Sends
<1>5. CASE thread = "looping"
  <2> DEFINE note == Monitor!Note(d, FALSE)
  <2>1. notes \in Seq(NoteType) /\ note \in NoteType
    BY NoteTyped DEF TypeOK, Monitor!TypeOK, NoteType
  <2>2. notes' = notes \o <<note>> \/ notes' = notes \o <<note, note>>
    BY <1>5 DEF Monitor!Unplug, Monitor!Sends
  <2> HIDE DEF note
  <2>3. \E n \in Nat \ {0} :
          /\ Len(notes') = Len(notes) + n /\ notes' \in Seq(NoteType)
          /\ \A i \in DOMAIN notes : notes'[i] = notes[i]
          /\ \A i \in DOMAIN notes' \ DOMAIN notes : notes'[i] = note
    <3>1. CASE notes' = notes \o <<note>>
      BY <2>1, <3>1
    <3>2. CASE notes' = notes \o <<note, note>>
      <4>1. /\ Len(notes') = Len(notes) + 2 /\ notes' \in Seq(NoteType)
            /\ \A i \in DOMAIN notes : notes'[i] = notes[i]
            /\ \A i \in DOMAIN notes' \ DOMAIN notes : notes'[i] = note
        BY <2>1, <3>2
      <4> QED  BY <4>1
    <3> QED  BY <2>2, <3>1, <3>2
  <2>4. ASSUME NEW pid \in Monitor!Pids \ twins', pid # PidOf[d]
        PROVE  pid \notin twins /\ (pid \in PidsOf(heard') <=> pid \in PidsOf(heard))
    <3>1. pid \in PidsOf(plugged) => pid \in PidsOf(plugged')
      BY <1>1, <2>4 DEF PidsOf
    <3>2. pid \in PidsOf(heard') <=> pid \in PidsOf(heard)
      BY <1>1, <2>4 DEF PidsOf
    <3> QED  BY <1>1, <2>4, <3>1, <3>2 DEF NotesInv
  <2>5. ASSUME PidOf[d] \notin twins'
        PROVE  PidOf[d] \notin PidsOf(heard')
    <3>1. SUFFICES ASSUME NEW e \in heard', PidOf[e] = PidOf[d] PROVE FALSE
      BY DEF PidsOf
    <3>2. e \in plugged' /\ e # d /\ PidOf[e] \in PidsOf(plugged')
      BY <1>1, <1>2 DEF PidsOf
    <3> QED  BY <1>1, <2>5, <3>1, <3>2 DEF NotesInv
  <2>6. PICK n \in Nat \ {0} :
          /\ Len(notes') = Len(notes) + n /\ notes' \in Seq(NoteType)
          /\ \A i \in DOMAIN notes : notes'[i] = notes[i]
          /\ \A i \in DOMAIN notes' \ DOMAIN notes : notes'[i] = Monitor!Note(d, FALSE)
    BY <2>3 DEF note
  <2>7. Tells'
    BY <1>1, <1>5, <2>4, <2>5, <2>6, OneMore DEF NotesInv
  <2> QED  BY <1>1, <1>3, <1>4, <2>7 DEF NotesInv
<1> QED  BY <1>1, <1>3, <1>4, <1>5 DEF NotesInv

LEMMA NotesUpdate ==
  ASSUME TypeOK, NotesInv, Monitor!UpdateDevice
  PROVE  NotesInv'
<1> DEFINE head == Head(notes)
<1>1. /\ thread = "looping" /\ notes # <<>> /\ notes' = Tail(notes)
      /\ UNCHANGED <<plugged, twins, heard, thread>>
  BY DEF Monitor!UpdateDevice, Monitor!worldVars
<1>2. /\ notes \in Seq(NoteType) /\ head \in NoteType /\ head = notes[1]
      /\ 1 \in DOMAIN notes /\ DOMAIN notes = 1..Len(notes)
      /\ DOMAIN notes' = 1..(Len(notes) - 1) /\ Len(notes) \in Nat
      /\ \A i \in DOMAIN notes' : i + 1 \in DOMAIN notes /\ notes'[i] = notes[i + 1]
  <2>1. notes \in Seq(NoteType)
    BY DEF TypeOK, Monitor!TypeOK, NoteType
  <2>2. head \in NoteType /\ head = notes[1] /\ Len(notes) \in Nat \ {0}
    BY <1>1, <2>1
  <2> QED  BY <1>1, <2>1, <2>2
<1>3. /\ head.arrival => head.pid \in DOMAIN m_pSerials'
      /\ ~head.arrival => head.pid \notin DOMAIN m_pSerials'
      /\ \A pid \in Monitor!Pids : pid # head.pid =>
             (pid \in DOMAIN m_pSerials' <=> pid \in DOMAIN m_pSerials)
  <2>1. CASE head.arrival
    BY <1>2, <2>1 DEF Monitor!UpdateDevice, Monitor!Adds
  <2>2. CASE ~head.arrival
    <3>1. Monitor!Removes(head.pid)
      BY <2>2 DEF Monitor!UpdateDevice
    <3>2. CASE head.pid \in DOMAIN m_pSerials
      <4>1. DOMAIN m_pSerials' = DOMAIN m_pSerials \ {head.pid}
        BY <3>1, <3>2 DEF Monitor!Removes, Monitor!Forgets, Monitor!Restrict
      <4> QED  BY <2>2, <4>1
    <3>3. CASE head.pid \notin DOMAIN m_pSerials
      BY <2>2, <3>1, <3>3 DEF Monitor!Removes
    <3> QED  BY <3>2, <3>3
  <2> QED  BY <2>1, <2>2
<1>4. ASSUME NEW pid \in Monitor!Pids \ twins', \A i \in DOMAIN notes' : notes'[i].pid # pid
      PROVE  pid \in DOMAIN m_pSerials' <=> pid \in PidsOf(heard')
  <2>1. \A i \in DOMAIN notes : i # 1 => notes[i].pid # pid
    <3>1. \A i \in DOMAIN notes : i # 1 => i - 1 \in DOMAIN notes' /\ notes'[i - 1] = notes[i]
      BY <1>2
    <3> QED  BY <1>4, <3>1
  <2>2. CASE head.pid = pid
    <3>1. Last(1)
      BY <1>2, <2>1, <2>2 DEF Last
    <3>2. head.arrival <=> pid \in PidsOf(heard)
      BY <1>1, <1>2, <1>4, <2>2, <3>1 DEF NotesInv, Tells
    <3> QED  BY <1>1, <1>3, <2>2, <3>2 DEF PidsOf
  <2>3. CASE head.pid # pid
    <3>1. \A i \in DOMAIN notes : notes[i].pid # pid
      BY <1>2, <2>1, <2>3
    <3>2. pid \in DOMAIN m_pSerials <=> pid \in PidsOf(heard)
      BY <1>1, <1>4, <3>1 DEF NotesInv, Tells
    <3> QED  BY <1>1, <1>3, <1>4, <2>3, <3>2 DEF PidsOf
  <2> QED  BY <2>2, <2>3
<1>5. ASSUME NEW pid \in Monitor!Pids \ twins', NEW i \in DOMAIN notes', notes'[i].pid = pid, Last(i)'
      PROVE  notes'[i].arrival <=> pid \in PidsOf(heard')
  <2>1. Last(i + 1)
    <3>1. SUFFICES ASSUME NEW j \in DOMAIN notes, j > i + 1 PROVE notes[j].pid # notes[i + 1].pid
      BY DEF Last
    <3>2. j - 1 \in DOMAIN notes' /\ j - 1 > i /\ notes'[j - 1] = notes[j]
      BY <1>2, <3>1
    <3> QED  BY <1>2, <1>5, <3>2 DEF Last
  <2>2. notes[i + 1].arrival <=> pid \in PidsOf(heard)
    BY <1>1, <1>2, <1>5, <2>1 DEF NotesInv, Tells
  <2> QED  BY <1>1, <1>2, <2>2 DEF PidsOf
<1>6. Tells'
  BY <1>4, <1>5 DEF Tells
<1> QED  BY <1>1, <1>6 DEF NotesInv, PidsOf

LEMMA NotesKept ==
  ASSUME NotesInv, UNCHANGED <<plugged, twins, heard, notes, m_pSerials>>,
         thread' = thread \/ thread' = "ended" \/ (thread = "none" /\ thread' = "begun")
           \/ (thread = "begun" /\ thread' = "looping")
  PROVE  NotesInv'
<1>1. thread = "begun" => Tells
  BY DEF NotesInv, Tells, PidsOf
<1> QED  BY <1>1 DEF NotesInv, Tells, Last, PidsOf

LEMMA NotesStep ==
  ASSUME TypeOK, NotesInv, Monitor!Next, instance = "none" => thread = "none"
  PROVE  NotesInv'
<1>1. CASE Monitor!Instance \/ Monitor!Registers \/ Monitor!TakesExit
  BY <1>1, NotesKept DEF Monitor!Instance, Monitor!Registers, Monitor!TakesExit, Monitor!worldVars
<1>2. CASE Monitor!Delete \/ Monitor!Deleted
  BY <1>2, NotesKept DEF Monitor!Delete, Monitor!Deleted, Monitor!worldVars
<1> QED
  BY <1>1, <1>2, NotesPlug, NotesName, NotesUnplug, NotesUpdate DEF Monitor!Next, Monitor!Thread

-----------------------------------------------------------------------------

IInv ==
    /\ TypeOK /\ OrderInv /\ NotesInv
    /\ instance = "none" => thread = "none"

LEMMA InitInv == Init => IInv
  BY TypeInit, OrderInit, NotesInit DEF Init, Monitor!Init, IInv

LEMMA InstanceStep ==
  ASSUME instance = "none" => thread = "none", Monitor!Next
  PROVE  instance' = "none" => thread' = "none"
  BY DEF Monitor!Next, Monitor!Plug, Monitor!NamePort, Monitor!Unplug, Monitor!Instance,
     Monitor!Thread, Monitor!Registers, Monitor!UpdateDevice, Monitor!TakesExit, Monitor!Delete,
     Monitor!Deleted, Monitor!monitorVars

LEMMA NextInv ==
  ASSUME IInv, [Next]_vars
  PROVE  IInv'
<1>1. TypeOK'
  BY TypeStep DEF IInv
<1>2. CASE Monitor!Next /\ UNCHANGED <<reported, m_yReadData, driver, count, delay>>
  <2>1. OrderInv'
    BY <1>2, OrderKept DEF IInv
  <2> QED  BY <1>1, <1>2, <2>1, NotesStep, InstanceStep DEF IInv
<1>3. CASE Port!Next /\ UNCHANGED monitorVars
  <2>1. NotesInv' /\ (instance' = "none" => thread' = "none")
    BY <1>3, NotesKept DEF IInv, monitorVars
  <2> QED  BY <1>1, <1>3, <2>1, OrderStep DEF IInv
<1>4. CASE UNCHANGED vars
  BY <1>1, <1>4, OrderKept, NotesKept DEF IInv, vars, monitorVars, portVars
<1>5. ASSUME NEW d \in Devices, Unplug(d)
      PROVE  Monitor!Next /\ UNCHANGED <<reported, m_yReadData, driver, count, delay>>
  BY <1>5 DEF Unplug, Monitor!Next, Port!DeviceLost, Port!dataVars, Port!delayVars,
              Port!historyVars
<1>6. CASE Next
  BY <1>2, <1>3, <1>5, <1>6 DEF Next, World, Monitor!Next, portVars
<1> QED  BY <1>4, <1>6

THEOREM Invariant == Spec => []IInv
<1>1. Init => IInv
  BY InitInv
<1>2. IInv /\ [Next]_vars => IInv'
  BY NextInv
<1> QED  BY <1>1, <1>2, PTL DEF Spec

(* The variables of the port and of the monitor keep their types. *)
THEOREM TypeCorrect == Spec => []TypeOK
<1>1. IInv => TypeOK
  BY DEF IInv
<1> QED  BY <1>1, Invariant, PTL

(* The port reports what arrives at most once and in order, however the slot and the delay   *)
(* thread interleave over m_yReadData, for any number of sessions and pieces.                *)
THEOREM OrderCorrect == Spec => []InOrderOnce
<1>1. IInv => InOrderOnce
  BY DEF IInv, OrderInv, Rises, InOrderOnce, Port!InOrderOnce
<1> QED  BY <1>1, Invariant, PTL

(* When the window has handled its notifications, the monitor's table is of the devices it   *)
(* was told of, for any devices and product ids, but for the ids that devices share.         *)
THEOREM TableCorrect == Spec => []TableSettles
<1>1. IInv => TableSettles
  <2> SUFFICES ASSUME IInv, thread = "looping", notes = <<>>
               PROVE  DOMAIN m_pSerials \ twins = PidsOf(heard) \ twins
    BY DEF TableSettles, Monitor!TableSettles, PidsOf
  <2>1. DOMAIN m_pSerials \subseteq Monitor!Pids /\ PidsOf(heard) \subseteq Monitor!Pids
    BY DEF IInv, TypeOK, Monitor!TypeOK, Monitor!Pids, PidsOf
  <2>2. \A pid \in Monitor!Pids \ twins : pid \in DOMAIN m_pSerials <=> pid \in PidsOf(heard)
    BY DEF IInv, NotesInv, Tells
  <2> QED  BY <2>1, <2>2
<1> QED  BY <1>1, Invariant, PTL
=============================================================================
