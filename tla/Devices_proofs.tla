---------------------------- MODULE Devices_proofs --------------------------
(***************************************************************************)
(* Theorems about who talks to a device, for every list of devices and     *)
(* every number of scans, captures, outages and diagnoses.                 *)
(***************************************************************************)
EXTENDS Devices, SequenceTheorems, WellFoundedInduction, TLAPS

USE DevicesAreListed, BoundsAreNatural

(* What is in a sequence, whatever it is.                                  *)
IsList(s) == s \in Seq({s[i] : i \in DOMAIN s})

(* The fields of the state; a listing is a selection the provers do not    *)
(* look into, so that rows, left and list have no type here.               *)
Shape ==
    /\ attached \subseteq Devices
    /\ button = [udid |-> button.udid, rows |-> button.rows, says |-> button.says,
                 busy |-> button.busy, enabled |-> button.enabled]
    /\ scanner = [phase |-> scanner.phase, skip |-> scanner.skip, left |-> scanner.left,
                  during |-> scanner.during]
    /\ capture = [phase |-> capture.phase, wanted |-> capture.wanted, holds |-> capture.holds,
                  number |-> capture.number, state |-> capture.state, told |-> capture.told]
    /\ \A c \in parked : c = [phase |-> c.phase, wanted |-> c.wanted, holds |-> c.holds,
                               number |-> c.number]
    /\ IsList(signals)
    /\ scanner.during \in Nat /\ capture.number \in Nat

-----------------------------------------------------------------------------
(* The invariant of the capture and the scan.                              *)

(* No choice is made while a capture runs: it can only be lost.            *)
ChoiceIsLocked ==
    IF capture.phase = "off"
    THEN capture.wanted = Nobody /\ button.busy = Nobody /\ button.enabled = TRUE
    ELSE /\ ~button.enabled /\ button.udid \in {capture.wanted, Nobody}
         /\ capture.number > 0

(* A report on its way is of a capture that was started, and that of the   *)
(* one that runs is of the device it asked for.                            *)
ReportsAreOfTheirs ==
    \A i \in DOMAIN signals :
        signals[i].kind = "device" =>
            /\ signals[i].of \in 1 .. capture.number
            /\ (signals[i].of = capture.number /\ capture.wanted # Nobody)
                    => signals[i].at = capture.wanted

(* What a capture holds is what it asked for, and a parked one is not the  *)
(* one that runs.                                                          *)
HoldsItsOwn ==
    /\ capture.wanted # Nobody => capture.holds \in {capture.wanted, Nobody}
    /\ capture.phase = "reading" => capture.holds # Nobody
    /\ \A c \in parked : /\ c.number \in 1 .. capture.number
                         /\ capture.phase # "off" => c.number < capture.number

(* The choice a capture was started with still stands.                     *)
Kept ==
    /\ capture.wanted # Nobody /\ button.udid = capture.wanted
    /\ capture.told \subseteq {capture.number}

(* What a scan is told to leave alone, and what one under way was told.    *)
BusyIsChosen ==
    /\ scanner.during <= capture.number
    /\ scanner.phase = "reading" => Head(scanner.left) # scanner.skip
    /\ Kept => button.busy = capture.wanted
    /\ (Kept /\ Scanning /\ scanner.during = capture.number) => scanner.skip = capture.wanted
    /\ (Scanning /\ scanner.during = 0) => scanner.skip = Nobody

ScanInv == Shape /\ ChoiceIsLocked /\ HoldsItsOwn /\ ReportsAreOfTheirs /\ BusyIsChosen

(* A diagnosis that has found a device: one over USB, and the one that was  *)
(* asked for.                                                              *)
Diagnosis(r) ==
    /\ r = [phase |-> r.phase, wanted |-> r.wanted, checked |-> r.checked, ok |-> r.ok]
    /\ r.ok \in BOOLEAN
    /\ (r.phase \in {"pairing", "reading"} \/ r.ok = TRUE) =>
            /\ r.checked \in Devices \ Network
            /\ r.wanted # Nobody => r.checked = r.wanted

DoctorInv == IsList(doctors) /\ \A i \in DOMAIN doctors : Diagnosis(doctors[i])

-----------------------------------------------------------------------------
(* Lists and the first of some devices.                                    *)

(* What is added is at the end, and the rest stays where it was.           *)
LEMMA AppendList ==
    ASSUME NEW s, IsList(s), NEW m
    PROVE  LET t == Append(s, m)
           IN  /\ IsList(t)
               /\ \A i \in DOMAIN t : t[i] = m \/ (i \in DOMAIN s /\ t[i] = s[i])
<1> DEFINE S == {s[i] : i \in DOMAIN s}
           t == Append(s, m)
<1>1. s \in Seq(S)
  BY DEF IsList
<1> HIDE DEF S
<1>2. /\ Len(s) \in Nat /\ DOMAIN s = 1 .. Len(s)
      /\ s \in Seq(S \cup {m})
  BY <1>1
<1>3. /\ t \in Seq(S \cup {m}) /\ DOMAIN t = 1 .. Len(s) + 1
      /\ \A i \in 1 .. Len(s) : t[i] = s[i]
      /\ t[Len(s) + 1] = m
  BY <1>2
<1>4. \A i \in DOMAIN t : t[i] = m \/ (i \in DOMAIN s /\ t[i] = s[i])
  BY <1>2, <1>3
<1>5. t \in Seq({t[i] : i \in DOMAIN t})
  <2> DEFINE T == {t[i] : i \in DOMAIN t}
  <2>1. \A i \in 1 .. Len(t) : t[i] \in T
    BY <1>2, <1>3
  <2>2. t = [i \in 1 .. Len(t) |-> t[i]]
    BY <1>3, LenProperties
  <2>3. Len(t) \in Nat
    BY <1>3
  <2> HIDE DEF T, t
  <2>4. t \in Seq(T)
    BY <2>1, <2>2, <2>3
  <2> QED
    BY <2>4 DEF T
<1> QED
  BY <1>4, <1>5 DEF IsList

(* What is left when the first is taken was in the list.                   *)
LEMMA TailList ==
    ASSUME NEW s, IsList(s), s # <<>>
    PROVE  LET t == Tail(s)
           IN  /\ IsList(t)
               /\ 1 \in DOMAIN s /\ Head(s) = s[1]
               /\ \A i \in DOMAIN t : i + 1 \in DOMAIN s /\ t[i] = s[i + 1]
<1> DEFINE S == {s[i] : i \in DOMAIN s}
           t == Tail(s)
<1>1. s \in Seq(S)
  BY DEF IsList
<1> HIDE DEF S
<1>2. /\ Len(s) \in Nat \ {0} /\ DOMAIN s = 1 .. Len(s) /\ Head(s) = s[1]
  BY <1>1
<1>3. /\ t \in Seq(S) /\ DOMAIN t = 1 .. Len(s) - 1 /\ Len(t) = Len(s) - 1
      /\ \A i \in 1 .. Len(s) - 1 : t[i] = s[i + 1]
  BY <1>1, <1>2
<1>4. \A i \in DOMAIN t : i + 1 \in DOMAIN s /\ t[i] = s[i + 1]
  BY <1>2, <1>3
<1>5. t \in Seq({t[i] : i \in DOMAIN t})
  <2> DEFINE T == {t[i] : i \in DOMAIN t}
  <2>1. \A i \in 1 .. Len(t) : t[i] \in T
    BY <1>2, <1>3
  <2>2. t = [i \in 1 .. Len(t) |-> t[i]]
    BY <1>3, LenProperties
  <2>3. Len(t) \in Nat
    BY <1>2, <1>3
  <2> HIDE DEF T, t
  <2>4. t \in Seq(T)
    BY <2>1, <2>2, <2>3
  <2> QED
    BY <2>4 DEF T
<1>6. IsList(t)
  BY <1>5 DEF IsList
<1> QED
  BY <1>2, <1>4, <1>6

(* A change of one element leaves the others.                              *)
LEMMA ExceptList ==
    ASSUME NEW s, IsList(s), NEW n, NEW m
    PROVE  LET t == [s EXCEPT ![n] = m]
           IN  /\ IsList(t) /\ DOMAIN t = DOMAIN s
               /\ \A i \in DOMAIN t : t[i] = m \/ t[i] = s[i]
<1> DEFINE S == {s[i] : i \in DOMAIN s}
           t == [s EXCEPT ![n] = m]
<1>1. s \in Seq(S)
  BY DEF IsList
<1> HIDE DEF S
<1>2. Len(s) \in Nat /\ DOMAIN s = 1 .. Len(s) /\ s = [i \in 1 .. Len(s) |-> s[i]]
  BY <1>1, LenProperties
<1>3. t = [i \in 1 .. Len(s) |-> IF i = n THEN m ELSE s[i]]
  BY <1>2
<1>4. \A i \in DOMAIN t : t[i] = m \/ t[i] = s[i]
  BY <1>3
<1>5. t \in Seq({t[i] : i \in DOMAIN t})
  <2> DEFINE T == {t[i] : i \in DOMAIN t}
  <2>1. DOMAIN t = 1 .. Len(s) /\ t = [i \in 1 .. Len(s) |-> t[i]]
    BY <1>3
  <2>2. \A i \in 1 .. Len(s) : t[i] \in T
    BY <2>1
  <2> HIDE DEF T, t
  <2>3. t \in Seq(T)
    BY <1>2, <2>1, <2>2
  <2> QED
    BY <2>3 DEF T
<1> QED
  BY <1>2, <1>3, <1>4, <1>5 DEF IsList

(* Of some numbers there is a least.                                       *)
LEMMA LeastNumber ==
    ASSUME NEW T, T \subseteq Nat, T # {}
    PROVE  Min(T) \in T
<1> DEFINE R == OpToRel(<, Nat)
<1>1. IsWellFoundedOn(R, Nat)
  BY NatLessThanWellFounded
<1>2. \A x, y \in Nat : <<x, y>> \in R <=> x < y
  BY DEF OpToRel
<1> HIDE DEF R
<1>3. PICK n \in T : \A m \in T : ~ (<<m, n>> \in R)
  BY <1>1, WFMin
<1>4. \A m \in T : ~ (m < n)
  BY <1>2, <1>3
<1>5. \A m \in T : n <= m
  BY <1>4
<1>6. QED
  BY <1>5 DEF Min

(* FirstOf: of some devices that are listed it is one.                     *)
LEMMA FirstIsOne ==
    ASSUME NEW devices, devices \subseteq Devices, devices # {}
    PROVE  FirstOf(devices) \in devices
<1> DEFINE T == {i \in DOMAIN Order : Order[i] \in devices}
<1>1. Devices = {Order[i] : i \in DOMAIN Order}
  BY DEF Devices, ToSet
<1>2. DOMAIN Order \subseteq Nat
  OBVIOUS
<1>3. T \subseteq Nat /\ T # {}
  BY <1>1, <1>2
<1>4. Min(T) \in T
  BY <1>3, LeastNumber
<1>5. QED
  BY <1>4 DEF FirstOf

-----------------------------------------------------------------------------
(* The steps.                                                              *)

(* What a thread reports is added to the queue.                            *)
LEMMA Posted ==
    ASSUME Shape, NEW m, signals' = Append(signals, m)
    PROVE  /\ IsList(signals')
           /\ \A i \in DOMAIN signals' :
                signals'[i] = m \/ (i \in DOMAIN signals /\ signals'[i] = signals[i])
BY AppendList DEF Shape

(* What a scan reports is not of a capture.                                *)
LEMMA ScanPosts ==
    ASSUME ScanLists
    PROVE  \E m : m.kind # "device" /\ signals' = Append(signals, m)
<1>1. ASSUME NEW l PROVE [kind |-> "found", list |-> l].kind # "device"
  OBVIOUS
<1>2. QED
  BY <1>1 DEF ScanLists

(* A diagnosis changes nothing but what it reports.                        *)
LEMMA DiagnoseKeeps ==
    ASSUME Diagnose
    PROVE  UNCHANGED <<attached, button, scanner, capture, parked, signals>>
BY DEF Diagnose, ShowDoctor, DoctorLists, DoctorOpens, DoctorReads

(* The last words of a capture are at most a report, and one of its own.   *)
LEMMA LastWordsPosts ==
    ASSUME Shape, NEW c, NEW words \in LastWords(c), signals' = signals \o words
    PROVE  /\ IsList(signals')
           /\ \/ signals' = signals
              \/ \E d : signals' = Append(signals, [kind |-> "device", at |-> d,
                                                   of |-> c.number])
<1> DEFINE S == {signals[i] : i \in DOMAIN signals}
<1>1. signals \in Seq(S)
  BY DEF Shape, IsList
<1> HIDE DEF S
<1>2. CASE words = <<>>
  <2>1. signals' = signals
    BY <1>1, <1>2
  <2>2. QED
    BY <2>1 DEF Shape
<1>3. ASSUME NEW d, words = <<[kind |-> "device", at |-> d, of |-> c.number]>>
      PROVE  /\ IsList(signals')
             /\ signals' = Append(signals, [kind |-> "device", at |-> d, of |-> c.number])
  <2> DEFINE m == [kind |-> "device", at |-> d, of |-> c.number]
  <2>1. signals' = signals \o <<m>>
    BY <1>3
  <2> HIDE DEF m
  <2>2. signals \in Seq(S \cup {m}) /\ m \in S \cup {m}
    BY <1>1
  <2>3. signals \o <<m>> = Append(signals, m)
    BY <2>2, AppendIsConcat
  <2>4. IsList(signals)
    BY DEF Shape
  <2>5. IsList(Append(signals, m))
    BY <2>4, AppendList
  <2> QED
    BY <2>1, <2>3, <2>5 DEF m
<1>4. QED
  BY <1>2, <1>3 DEF LastWords

(* A step keeps the fields of the state.                                   *)
LEMMA ShapeStays ==
    ASSUME Shape, [Next]_vars
    PROVE  Shape'
<1>1. CASE Plug
  BY <1>1 DEF Plug, Shape, SetCapturing
<1>2. CASE Rescan
  BY <1>2 DEF Rescan, Shape, SetCapturing
<1>3. CASE ScanLists
  <2>1. IsList(signals')
    BY <1>3, ScanPosts, Posted DEF Shape
  <2>2. QED
    BY <1>3, <2>1 DEF ScanLists, Shape
<1>4. CASE ScanOpens
  BY <1>4 DEF ScanOpens, Shape, SetCapturing
<1>5. CASE ScanReads
  BY <1>5 DEF ScanReads, Shape, SetCapturing
<1>6. CASE ScanEnds
  BY <1>6 DEF ScanEnds, Shape, SetCapturing
<1>7. CASE OnFound
  <2>1. IsList(signals')
    BY <1>7, TailList DEF OnFound, Heard, Shape
  <2>2. QED
    BY <1>7, <2>1 DEF OnFound, Shape, SetCapturing
<1>8. CASE OnDevice
  <2>1. IsList(signals')
    BY <1>8, TailList DEF OnDevice, Heard, Shape
  <2>2. QED
    BY <1>8, <2>1 DEF OnDevice, Shape, SetCapturing
<1>9. CASE OnState
  <2>1. IsList(signals')
    BY <1>9, TailList DEF OnState, Heard, Shape
  <2>2. QED
    BY <1>9, <2>1 DEF OnState, Shape, SetCapturing
<1>10. CASE Choose
  BY <1>10 DEF Choose, Shape, SetCapturing
<1>11. CASE StartCapture
  <2>1. capture' = [phase |-> "opening", wanted |-> button.udid, holds |-> Nobody,
                    number |-> capture.number + 1, state |-> "starting", told |-> {}]
    BY <1>11 DEF StartCapture
  <2>2. capture' = [phase |-> capture.phase, wanted |-> capture.wanted,
                    holds |-> capture.holds, number |-> capture.number,
                    state |-> capture.state, told |-> capture.told]'
        /\ capture'.number \in Nat
    BY <2>1 DEF Shape
  <2>3. button' = [udid |-> button.udid, rows |-> button.rows, says |-> button.says,
                   busy |-> button.busy, enabled |-> button.enabled]'
    BY <1>11 DEF StartCapture, Shape, SetCapturing
  <2>4. UNCHANGED <<attached, scanner, parked, signals>>
    BY <1>11 DEF StartCapture
  <2>5. QED
    BY <2>2, <2>3, <2>4 DEF Shape
<1>12. CASE Identify
  BY <1>12 DEF Identify, Shape, SetCapturing
<1>13. CASE Identified
  <2>1. IsList(signals')
    BY <1>13, AppendList DEF Identified, Shape
  <2>2. QED
    BY <1>13, <2>1 DEF Identified, Shape
<1>14. CASE Connect
  <2>1. IsList(signals')
    BY <1>14, AppendList DEF Connect, Shape
  <2>2. QED
    BY <1>14, <2>1 DEF Connect, Shape
<1>15. CASE Drop
  <2>1. IsList(signals')
    BY <1>15, AppendList DEF Drop, Shape
  <2>2. QED
    BY <1>15, <2>1 DEF Drop, Shape
<1>16. CASE StopCapture
  <2>1. IsList(signals')
    <3>1. CASE signals' = signals
      BY <3>1 DEF Shape
    <3>2. CASE \E words \in LastWords(capture) : signals' = signals \o words
      BY <3>2, LastWordsPosts
    <3>3. QED
      BY <1>16, <3>1, <3>2 DEF StopCapture
  <2>2. UNCHANGED <<attached, scanner>>
    BY <1>16 DEF StopCapture
  <2>3. button' = [udid |-> button.udid, rows |-> button.rows, says |-> button.says,
                   busy |-> button.busy, enabled |-> button.enabled]'
    BY <1>16 DEF StopCapture, Shape, SetCapturing
  <2>4. capture' = [phase |-> capture.phase, wanted |-> capture.wanted,
                    holds |-> capture.holds, number |-> capture.number,
                    state |-> capture.state, told |-> capture.told]'
        /\ capture'.number \in Nat
    BY <1>16 DEF StopCapture, Shape
  <2>5. \A c \in parked' : c = [phase |-> c.phase, wanted |-> c.wanted,
                                holds |-> c.holds, number |-> c.number]
    BY <1>16 DEF StopCapture, Shape
  <2>6. QED
    BY <2>1, <2>2, <2>3, <2>4, <2>5 DEF Shape
<1>17. CASE ParkedOpens
  <2>1. \A c \in parked' : c = [phase |-> c.phase, wanted |-> c.wanted,
                                holds |-> c.holds, number |-> c.number]
    <3>1. PICK c \in parked :
             \E d : parked' = (parked \ {c}) \cup
                              {[c EXCEPT !.phase = "reading", !.holds = d]}
      BY <1>17 DEF ParkedOpens
    <3>2. PICK d : parked' = (parked \ {c}) \cup
                             {[c EXCEPT !.phase = "reading", !.holds = d]}
      BY <3>1
    <3>3. ASSUME NEW e, e = [c EXCEPT !.phase = "reading", !.holds = d]
          PROVE  e = [phase |-> e.phase, wanted |-> e.wanted, holds |-> e.holds,
                      number |-> e.number]
      BY <3>3 DEF Shape
    <3>4. QED
      BY <3>2, <3>3 DEF Shape
  <2>2. QED
    BY <1>17, <2>1 DEF ParkedOpens, Shape
<1>18. CASE ParkedEnds
  <2>1. IsList(signals')
    BY <1>18, LastWordsPosts DEF ParkedEnds
  <2>2. QED
    BY <1>18, <2>1 DEF ParkedEnds, Shape
<1>19. CASE Diagnose
  BY DiagnoseKeeps, <1>19 DEF Shape, SetCapturing
<1>20. CASE UNCHANGED vars
  BY <1>20 DEF vars, Shape, SetCapturing
<1>21. QED
  BY <1>1, <1>2, <1>3, <1>4, <1>5, <1>6, <1>7, <1>8, <1>9, <1>10, 
     <1>11, <1>12, <1>13, <1>14, <1>15, <1>16, <1>17, <1>18, <1>19, 
     <1>20 DEF Next, Scan, Hear, Capture

(* A step keeps the choice locked.                                         *)
LEMMA ChoiceStays ==
    ASSUME Shape, ChoiceIsLocked, [Next]_vars
    PROVE  ChoiceIsLocked'
<1>1. CASE Plug
  BY <1>1 DEF Plug, Shape, ChoiceIsLocked, SetCapturing
<1>2. CASE Rescan
  BY <1>2 DEF Rescan, Shape, ChoiceIsLocked, SetCapturing
<1>3. CASE ScanLists
  BY <1>3 DEF ScanLists, Shape, ChoiceIsLocked, SetCapturing
<1>4. CASE ScanOpens
  BY <1>4 DEF ScanOpens, Shape, ChoiceIsLocked, SetCapturing
<1>5. CASE ScanReads
  BY <1>5 DEF ScanReads, Shape, ChoiceIsLocked, SetCapturing
<1>6. CASE ScanEnds
  BY <1>6 DEF ScanEnds, Shape, ChoiceIsLocked, SetCapturing
<1>7. CASE OnFound
  BY <1>7 DEF OnFound, Shape, ChoiceIsLocked, SetCapturing
<1>8. CASE OnDevice
  BY <1>8 DEF OnDevice, Shape, ChoiceIsLocked, SetCapturing
<1>9. CASE OnState
  BY <1>9 DEF OnState, Shape, ChoiceIsLocked, SetCapturing
<1>10. CASE Choose
  BY <1>10 DEF Choose, Shape, ChoiceIsLocked, SetCapturing
<1>11. CASE StartCapture
  <2>1. capture'.phase # "off" /\ capture'.wanted = button.udid /\ capture'.number > 0
    BY <1>11 DEF StartCapture, Shape
  <2>2. button'.enabled = FALSE /\ button'.udid = button.udid
    BY <1>11 DEF StartCapture, Shape, SetCapturing
  <2>3. QED
    BY <2>1, <2>2 DEF ChoiceIsLocked
<1>12. CASE Identify
  BY <1>12 DEF Identify, Shape, ChoiceIsLocked, SetCapturing
<1>13. CASE Identified
  BY <1>13 DEF Identified, Shape, ChoiceIsLocked, SetCapturing
<1>14. CASE Connect
  BY <1>14 DEF Connect, Shape, ChoiceIsLocked, SetCapturing
<1>15. CASE Drop
  BY <1>15 DEF Drop, Shape, ChoiceIsLocked, SetCapturing
<1>16. CASE StopCapture
  BY <1>16 DEF StopCapture, Shape, ChoiceIsLocked, SetCapturing
<1>17. CASE ParkedOpens
  BY <1>17 DEF ParkedOpens, Shape, ChoiceIsLocked, SetCapturing
<1>18. CASE ParkedEnds
  BY <1>18 DEF ParkedEnds, Shape, ChoiceIsLocked, SetCapturing
<1>19. CASE Diagnose
  BY DiagnoseKeeps, <1>19 DEF Shape, ChoiceIsLocked, SetCapturing
<1>20. CASE UNCHANGED vars
  BY <1>20 DEF vars, Shape, ChoiceIsLocked, SetCapturing
<1>21. QED
  BY <1>1, <1>2, <1>3, <1>4, <1>5, <1>6, <1>7, <1>8, <1>9, <1>10, 
     <1>11, <1>12, <1>13, <1>14, <1>15, <1>16, <1>17, <1>18, <1>19, 
     <1>20 DEF Next, Scan, Hear, Capture

(* A step keeps what a capture holds that which it asked for.              *)
LEMMA HoldsStay ==
    ASSUME Shape, HoldsItsOwn, ChoiceIsLocked, [Next]_vars
    PROVE  HoldsItsOwn'
<1>1. CASE Plug
  BY <1>1 DEF Plug, Shape, HoldsItsOwn
<1>2. CASE Rescan
  BY <1>2 DEF Rescan, Shape, HoldsItsOwn
<1>3. CASE ScanLists
  BY <1>3 DEF ScanLists, Shape, HoldsItsOwn
<1>4. CASE ScanOpens
  BY <1>4 DEF ScanOpens, Shape, HoldsItsOwn
<1>5. CASE ScanReads
  BY <1>5 DEF ScanReads, Shape, HoldsItsOwn
<1>6. CASE ScanEnds
  BY <1>6 DEF ScanEnds, Shape, HoldsItsOwn
<1>7. CASE OnFound
  BY <1>7 DEF OnFound, Shape, HoldsItsOwn
<1>8. CASE OnDevice
  BY <1>8 DEF OnDevice, Shape, HoldsItsOwn
<1>9. CASE OnState
  BY <1>9 DEF OnState, Shape, HoldsItsOwn
<1>10. CASE Choose
  BY <1>10 DEF Choose, Shape, HoldsItsOwn
<1>11. CASE StartCapture
  BY <1>11 DEF StartCapture, Shape, HoldsItsOwn
<1>12. CASE Identify
  <2>1. PICK d \in Opens(capture.wanted) :
            capture' = [capture EXCEPT !.phase = "reading", !.holds = d]
    BY <1>12 DEF Identify
  <2>2. d # Nobody /\ (capture.wanted # Nobody => d = capture.wanted)
    BY <2>1 DEF Opens, Shape, Devices
  <2>3. QED
    BY <1>12, <2>1, <2>2 DEF Identify, Shape, HoldsItsOwn
<1>13. CASE Identified
  BY <1>13 DEF Identified, Shape, HoldsItsOwn
<1>14. CASE Connect
  <2>1. PICK d \in Opens(capture.wanted) :
            capture' = [capture EXCEPT !.phase = "streaming", !.holds = d]
    BY <1>14 DEF Connect
  <2>2. capture.wanted # Nobody => d = capture.wanted
    BY <2>1 DEF Opens
  <2>3. QED
    BY <1>14, <2>1, <2>2 DEF Connect, Shape, HoldsItsOwn
<1>15. CASE Drop
  BY <1>15 DEF Drop, Shape, HoldsItsOwn
<1>16. CASE StopCapture
  <2>1. /\ capture'.phase = "off" /\ capture'.wanted = Nobody
        /\ capture'.number = capture.number /\ capture.number \in 1 .. capture.number
    BY <1>16 DEF StopCapture, Shape, ChoiceIsLocked
  <2>2. \A c \in parked' : c \in parked \/ c.number = capture.number
    BY <1>16 DEF StopCapture
  <2>3. QED
    BY <2>1, <2>2 DEF HoldsItsOwn
<1>17. CASE ParkedOpens
  <2>1. UNCHANGED capture
    BY <1>17 DEF ParkedOpens
  <2>2. \A c \in parked' : c \in parked \/ \E e \in parked : c.number = e.number
    BY <1>17 DEF ParkedOpens, Shape
  <2>3. QED
    BY <2>1, <2>2 DEF HoldsItsOwn
<1>18. CASE ParkedEnds
  BY <1>18 DEF ParkedEnds, Shape, HoldsItsOwn
<1>19. CASE Diagnose
  BY DiagnoseKeeps, <1>19 DEF Shape, HoldsItsOwn
<1>20. CASE UNCHANGED vars
  BY <1>20 DEF vars, Shape, HoldsItsOwn
<1>21. QED
  BY <1>1, <1>2, <1>3, <1>4, <1>5, <1>6, <1>7, <1>8, <1>9, <1>10, 
     <1>11, <1>12, <1>13, <1>14, <1>15, <1>16, <1>17, <1>18, <1>19, 
     <1>20 DEF Next, Scan, Hear, Capture

(* A report that is of a capture started, and if of the one that runs of   *)
(* the device it asked for, may be added.                                  *)
LEMMA ReportPosted ==
    ASSUME Shape, ReportsAreOfTheirs, NEW d, NEW n \in 1 .. capture.number,
           signals' = Append(signals, [kind |-> "device", at |-> d, of |-> n]),
           capture'.number = capture.number, capture'.wanted \in {capture.wanted, Nobody},
           (n = capture.number /\ capture'.wanted # Nobody) => d = capture'.wanted
    PROVE  ReportsAreOfTheirs'
<1> DEFINE m == [kind |-> "device", at |-> d, of |-> n]
<1>1. m.at = d /\ m.of = n
  OBVIOUS
<1>2. signals' = Append(signals, m)
  OBVIOUS
<1> HIDE DEF m
<1>3. \A i \in DOMAIN signals' :
        signals'[i] = m \/ (i \in DOMAIN signals /\ signals'[i] = signals[i])
  BY <1>2, Posted
<1>4. QED
  BY <1>1, <1>3 DEF ReportsAreOfTheirs

(* What is heard is gone, and the rest stays.                              *)
LEMMA HeardStays ==
    ASSUME Shape, ReportsAreOfTheirs, signals # <<>>, signals' = Tail(signals),
           capture'.number = capture.number, capture'.wanted = capture.wanted
    PROVE  ReportsAreOfTheirs'
<1>1. \A i \in DOMAIN signals' : i + 1 \in DOMAIN signals /\ signals'[i] = signals[i + 1]
  BY TailList DEF Shape
<1>2. QED
  BY <1>1 DEF ReportsAreOfTheirs

(* So may what is not a report.                                            *)
LEMMA OtherPosted ==
    ASSUME Shape, ReportsAreOfTheirs, NEW m, m.kind # "device",
           signals' = Append(signals, m),
           capture'.number = capture.number, capture'.wanted = capture.wanted
    PROVE  ReportsAreOfTheirs'
<1>1. \A i \in DOMAIN signals' :
        signals'[i] = m \/ (i \in DOMAIN signals /\ signals'[i] = signals[i])
  BY Posted
<1>2. QED
  BY <1>1 DEF ReportsAreOfTheirs

(* The last words of a capture that is ending may be added.                *)
LEMMA LastReportPosted ==
    ASSUME Shape, ReportsAreOfTheirs, NEW c, c.number \in 1 .. capture.number,
           NEW words \in LastWords(c), signals' = signals \o words,
           capture'.number = capture.number, capture'.wanted \in {capture.wanted, Nobody},
           c.number = capture.number => capture'.wanted = Nobody
    PROVE  ReportsAreOfTheirs'
<1>1. CASE signals' = signals
  BY <1>1 DEF ReportsAreOfTheirs
<1>2. CASE \E d : signals' = Append(signals, [kind |-> "device", at |-> d, of |-> c.number])
  BY <1>2, ReportPosted
<1>3. QED
  BY <1>1, <1>2, LastWordsPosts

(* A step keeps every report that of its capture.                          *)
LEMMA ReportsStay ==
    ASSUME Shape, ReportsAreOfTheirs, ChoiceIsLocked, HoldsItsOwn, [Next]_vars
    PROVE  ReportsAreOfTheirs'
<1>1. CASE Plug
  BY <1>1 DEF Plug, Shape, ReportsAreOfTheirs
<1>2. CASE Rescan
  BY <1>2 DEF Rescan, Shape, ReportsAreOfTheirs
<1>3. CASE ScanLists
  <2>1. UNCHANGED capture
    BY <1>3 DEF ScanLists
  <2>2. QED
    BY <1>3, <2>1, ScanPosts, OtherPosted
<1>4. CASE ScanOpens
  BY <1>4 DEF ScanOpens, Shape, ReportsAreOfTheirs
<1>5. CASE ScanReads
  BY <1>5 DEF ScanReads, Shape, ReportsAreOfTheirs
<1>6. CASE ScanEnds
  BY <1>6 DEF ScanEnds, Shape, ReportsAreOfTheirs
<1>7. CASE OnFound
  <2>1. signals # <<>> /\ signals' = Tail(signals)
    BY <1>7 DEF OnFound, Heard
  <2>2. UNCHANGED <<capture.number, capture.wanted>>
    BY <1>7 DEF OnFound, Shape
  <2>3. QED
    BY <2>1, <2>2, HeardStays
<1>8. CASE OnDevice
  <2>1. signals # <<>> /\ signals' = Tail(signals)
    BY <1>8 DEF OnDevice, Heard
  <2>2. UNCHANGED <<capture.number, capture.wanted>>
    BY <1>8 DEF OnDevice, Shape
  <2>3. QED
    BY <2>1, <2>2, HeardStays
<1>9. CASE OnState
  <2>1. signals # <<>> /\ signals' = Tail(signals)
    BY <1>9 DEF OnState, Heard
  <2>2. UNCHANGED <<capture.number, capture.wanted>>
    BY <1>9 DEF OnState, Shape
  <2>3. QED
    BY <2>1, <2>2, HeardStays
<1>10. CASE Choose
  BY <1>10 DEF Choose, Shape, ReportsAreOfTheirs
<1>11. CASE StartCapture
  BY <1>11 DEF StartCapture, Shape, ReportsAreOfTheirs
<1>12. CASE Identify
  BY <1>12 DEF Identify, Shape, ReportsAreOfTheirs
<1>13. CASE Identified
  <2>1. /\ capture'.number = capture.number /\ capture'.wanted = capture.wanted
        /\ capture.number \in 1 .. capture.number
    BY <1>13 DEF Identified, Shape, ChoiceIsLocked
  <2>2. capture.wanted # Nobody => capture.holds = capture.wanted
    BY <1>13 DEF Identified, HoldsItsOwn
  <2>3. signals' = Append(signals, [kind |-> "device", at |-> capture.holds,
                                    of |-> capture.number])
    BY <1>13 DEF Identified
  <2>4. QED
    BY <2>1, <2>2, <2>3, ReportPosted
<1>14. CASE Connect
  <2>1. UNCHANGED <<capture.number, capture.wanted>>
    BY <1>14 DEF Connect, Shape
  <2>2. [kind |-> "state", is |-> "streaming"].kind # "device"
    OBVIOUS
  <2>3. QED
    BY <1>14, <2>1, <2>2, OtherPosted DEF Connect
<1>15. CASE Drop
  <2>1. UNCHANGED <<capture.number, capture.wanted>>
    BY <1>15 DEF Drop, Shape
  <2>2. [kind |-> "state", is |-> "reconnecting"].kind # "device"
    OBVIOUS
  <2>3. QED
    BY <1>15, <2>1, <2>2, OtherPosted DEF Drop
<1>16. CASE StopCapture
  <2>1. /\ capture'.number = capture.number /\ capture'.wanted = Nobody
        /\ capture.number \in 1 .. capture.number
    BY <1>16 DEF StopCapture, Shape, ChoiceIsLocked
  <2>2. CASE signals' = signals
    BY <2>1, <2>2 DEF ReportsAreOfTheirs
  <2>3. CASE \E words \in LastWords(capture) : signals' = signals \o words
    BY <2>1, <2>3, LastReportPosted
  <2>4. QED
    BY <1>16, <2>2, <2>3 DEF StopCapture
<1>17. CASE ParkedOpens
  BY <1>17 DEF ParkedOpens, Shape, ReportsAreOfTheirs
<1>18. CASE ParkedEnds
  <2>1. PICK c \in parked : \E words \in LastWords(c) : signals' = signals \o words
    BY <1>18 DEF ParkedEnds
  <2>2. UNCHANGED capture
    BY <1>18 DEF ParkedEnds
  <2>3. c.number \in 1 .. capture.number
    BY DEF HoldsItsOwn
  <2>4. c.number = capture.number => capture.wanted = Nobody
    BY DEF HoldsItsOwn, ChoiceIsLocked, Shape
  <2>5. QED
    BY <2>1, <2>2, <2>3, <2>4, LastReportPosted
<1>19. CASE Diagnose
  BY DiagnoseKeeps, <1>19 DEF Shape, ReportsAreOfTheirs
<1>20. CASE UNCHANGED vars
  BY <1>20 DEF vars, Shape, ReportsAreOfTheirs
<1>21. QED
  BY <1>1, <1>2, <1>3, <1>4, <1>5, <1>6, <1>7, <1>8, <1>9, <1>10, 
     <1>11, <1>12, <1>13, <1>14, <1>15, <1>16, <1>17, <1>18, <1>19, 
     <1>20 DEF Next, Scan, Hear, Capture

(* A step keeps what a scan leaves alone the device that was chosen.       *)
LEMMA BusyStays ==
    ASSUME Shape, BusyIsChosen, ReportsAreOfTheirs, ChoiceIsLocked, [Next]_vars
    PROVE  BusyIsChosen'
<1>1. CASE Plug
  BY <1>1 DEF Plug, Shape, BusyIsChosen, Kept, Scanning, ChoiceIsLocked, SetCapturing
<1>2. CASE Rescan
  BY <1>2 DEF Rescan, Shape, BusyIsChosen, Kept, Scanning, ChoiceIsLocked, SetCapturing
<1>3. CASE ScanLists
  BY <1>3 DEF ScanLists, Shape, BusyIsChosen, Kept, Scanning, ChoiceIsLocked, SetCapturing
<1>4. CASE ScanOpens
  BY <1>4 DEF ScanOpens, Shape, BusyIsChosen, Kept, Scanning, ChoiceIsLocked, SetCapturing
<1>5. CASE ScanReads
  BY <1>5 DEF ScanReads, Shape, BusyIsChosen, Kept, Scanning, ChoiceIsLocked, SetCapturing
<1>6. CASE ScanEnds
  BY <1>6 DEF ScanEnds, Shape, BusyIsChosen, Kept, Scanning, ChoiceIsLocked, SetCapturing
<1>7. CASE OnFound
  BY <1>7 DEF OnFound, Shape, BusyIsChosen, Kept, Scanning, ChoiceIsLocked, SetCapturing
<1>8. CASE OnDevice
  <2>1. 1 \in DOMAIN signals /\ Head(signals) = signals[1] /\ signals[1].kind = "device"
    BY <1>8, TailList DEF OnDevice, Heard, Shape
  <2>2. CASE UNCHANGED <<button, capture>>
    BY <1>8, <2>2 DEF OnDevice, BusyIsChosen, Kept, Scanning
  <2>3. CASE /\ capture.phase # "off"
             /\ button' = [button EXCEPT !.busy = Head(signals).at]
             /\ capture' = [capture EXCEPT !.state = "identified",
                                           !.told = @ \cup {Head(signals).of}]
    <3>1. /\ button'.udid = button.udid /\ button'.busy = signals[1].at
          /\ capture'.wanted = capture.wanted /\ capture'.number = capture.number
          /\ capture'.told = capture.told \cup {signals[1].of}
          /\ UNCHANGED scanner
      BY <1>8, <2>1, <2>3 DEF OnDevice, Shape
    <3>2. Kept' => Kept /\ signals[1].of = capture.number
      BY <3>1 DEF Kept
    <3>3. Kept' => button'.busy = capture.wanted
      BY <2>1, <3>1, <3>2 DEF Kept, ReportsAreOfTheirs
    <3>4. QED
      BY <3>1, <3>2, <3>3 DEF BusyIsChosen, Scanning
  <2>4. QED
    BY <1>8, <2>2, <2>3 DEF OnDevice
<1>9. CASE OnState
  BY <1>9 DEF OnState, Shape, BusyIsChosen, Kept, Scanning, ChoiceIsLocked, SetCapturing
<1>10. CASE Choose
  BY <1>10 DEF Choose, Shape, BusyIsChosen, Kept, Scanning, ChoiceIsLocked, SetCapturing
<1>11. CASE StartCapture
  BY <1>11 DEF StartCapture, Shape, BusyIsChosen, Kept, Scanning, ChoiceIsLocked, SetCapturing
<1>12. CASE Identify
  BY <1>12 DEF Identify, Shape, BusyIsChosen, Kept, Scanning, ChoiceIsLocked, SetCapturing
<1>13. CASE Identified
  BY <1>13 DEF Identified, Shape, BusyIsChosen, Kept, Scanning, ChoiceIsLocked, SetCapturing
<1>14. CASE Connect
  BY <1>14 DEF Connect, Shape, BusyIsChosen, Kept, Scanning, ChoiceIsLocked, SetCapturing
<1>15. CASE Drop
  BY <1>15 DEF Drop, Shape, BusyIsChosen, Kept, Scanning, ChoiceIsLocked, SetCapturing
<1>16. CASE StopCapture
  BY <1>16 DEF StopCapture, Shape, BusyIsChosen, Kept, Scanning, ChoiceIsLocked, SetCapturing
<1>17. CASE ParkedOpens
  BY <1>17 DEF ParkedOpens, Shape, BusyIsChosen, Kept, Scanning, ChoiceIsLocked, SetCapturing
<1>18. CASE ParkedEnds
  BY <1>18 DEF ParkedEnds, Shape, BusyIsChosen, Kept, Scanning, ChoiceIsLocked, SetCapturing
<1>19. CASE Diagnose
  BY DiagnoseKeeps, <1>19 DEF Shape, BusyIsChosen, Kept, Scanning, ChoiceIsLocked, SetCapturing
<1>20. CASE UNCHANGED vars
  BY <1>20 DEF vars, Shape, BusyIsChosen, Kept, Scanning, ChoiceIsLocked, SetCapturing
<1>21. QED
  BY <1>1, <1>2, <1>3, <1>4, <1>5, <1>6, <1>7, <1>8, <1>9, <1>10, 
     <1>11, <1>12, <1>13, <1>14, <1>15, <1>16, <1>17, <1>18, <1>19, 
     <1>20 DEF Next, Scan, Hear, Capture

(* What holds of the capture and the scan holds of every behaviour.        *)
LEMMA ScanInvariance == Spec => []ScanInv
<1>1. Init => ScanInv
  <2>1. SUFFICES ASSUME Init PROVE ScanInv
    OBVIOUS
  <2>2. IsList(<<>>) /\ DOMAIN <<>> = {}
    BY DEF IsList
  <2>3. attached \subseteq Devices
    BY <2>1 DEF Init, Devices
  <2>4. Shape
    BY <2>1, <2>2, <2>3 DEF Init, Shape
  <2>5. ChoiceIsLocked /\ HoldsItsOwn
    BY <2>1 DEF Init, ChoiceIsLocked, HoldsItsOwn
  <2>6. ReportsAreOfTheirs
    BY <2>1, <2>2 DEF Init, ReportsAreOfTheirs
  <2>7. BusyIsChosen
    <3>1. /\ capture.wanted = Nobody /\ capture.number = 0
          /\ scanner.phase = "off" /\ scanner.during = 0
      BY <2>1 DEF Init
    <3>2. QED
      BY <3>1 DEF BusyIsChosen, Kept, Scanning
  <2>8. QED
    BY <2>4, <2>5, <2>6, <2>7 DEF ScanInv
<1>2. ScanInv /\ [Next]_vars => ScanInv'
  BY ShapeStays, ChoiceStays, HoldsStay, ReportsStay, BusyStays DEF ScanInv
<1>3. QED
  BY <1>1, <1>2, PTL DEF Spec

(* ChosenIsLeftAlone, for any number of devices, scans, captures and       *)
(* outages: a scan started while a capture runs does not open the device   *)
(* that capture was asked for.  By ScanInv the scan was told to leave it   *)
(* alone: the choice is locked while a capture runs, so if it stands now   *)
(* it stood when the scan started, and no outage and no report of this     *)
(* capture puts another device in its place.                               *)
THEOREM TheChosenIsLeftAlone == Spec => []ChosenIsLeftAlone
<1>1. ScanInv => ChosenIsLeftAlone
  BY DEF ScanInv, BusyIsChosen, Kept, Scanning, ChosenIsLeftAlone, ScanHolds
<1>2. QED
  BY <1>1, ScanInvariance, PTL

(* BusyIsReleased, for any number of captures, parked ones included: with  *)
(* none running nothing is kept from the choice.  By ScanInv: every way    *)
(* out of a capture goes through _set_capturing, and what is heard after   *)
(* it is of no capture that runs.                                          *)
THEOREM TheBusyIsReleased == Spec => []BusyIsReleased
<1>1. ScanInv => BusyIsReleased
  BY DEF ScanInv, ChoiceIsLocked, BusyIsChosen, BusyIsReleased
<1>2. QED
  BY <1>1, ScanInvariance, PTL

-----------------------------------------------------------------------------
(* The diagnosis.                                                          *)

(* CheckDevices takes a device over USB, and the one that was asked for.   *)
LEMMA CheckedOverUsb ==
    ASSUME NEW devices, devices \subseteq Devices, NEW udid,
           CheckDevices(devices, udid) # Nobody
    PROVE  /\ CheckDevices(devices, udid) \in Devices \ Network
           /\ udid # Nobody => CheckDevices(devices, udid) = udid
<1>1. Usb(devices) # {} /\ Usb(devices) \subseteq Devices
  BY DEF CheckDevices, Usb
<1>2. FirstOf(Usb(devices)) \in Usb(devices)
  BY <1>1, FirstIsOne
<1>3. QED
  BY <1>1, <1>2 DEF CheckDevices, Usb

(* A step of a diagnosis keeps it one.                                     *)
LEMMA DiagnosisStays ==
    ASSUME Shape, DoctorInv, NEW i \in DOMAIN doctors, NEW m, Diagnosis(m),
           doctors' = [doctors EXCEPT ![i] = m]
    PROVE  DoctorInv'
<1>1. /\ IsList(doctors') /\ DOMAIN doctors' = DOMAIN doctors
      /\ \A j \in DOMAIN doctors' : doctors'[j] = m \/ doctors'[j] = doctors[j]
  BY ExceptList DEF DoctorInv
<1>2. QED
  BY <1>1 DEF DoctorInv, Diagnosis

(* One that has found nothing is one.                                      *)
LEMMA AskedIsDiagnosis ==
    ASSUME NEW phase, NEW udid, phase \notin {"pairing", "reading"}
    PROVE  Diagnosis(Asked(phase, udid))
BY DEF Asked, Diagnosis

(* A report of a diagnosis under way keeps it one.                         *)
LEMMA ReportStays ==
    ASSUME Shape, DoctorInv, NEW i \in DOMAIN doctors, NEW ok \in BOOLEAN, Reported(i, ok),
           doctors[i].phase = "reading" \/ ~ok
    PROVE  DoctorInv'
<1> DEFINE r == doctors[i]
           told == [r EXCEPT !.phase = "told", !.ok = TRUE]
           m == IF ok THEN told ELSE Asked("told", Nobody)
<1>1. Diagnosis(r)
  BY DEF DoctorInv
<1>2. ok => Diagnosis(told)
  <2>1. /\ told = [phase |-> told.phase, wanted |-> told.wanted, checked |-> told.checked,
                  ok |-> told.ok]
        /\ told.wanted = r.wanted /\ told.checked = r.checked /\ told.ok = TRUE
    <3>1. ASSUME NEW e, e = told
          PROVE  /\ e = [phase |-> e.phase, wanted |-> e.wanted, checked |-> e.checked,
                         ok |-> e.ok]
                 /\ e.wanted = r.wanted /\ e.checked = r.checked /\ e.ok = TRUE
      BY <1>1, <3>1 DEF Diagnosis
    <3> HIDE DEF told
    <3>2. QED
      BY <3>1
  <2>2. ok => /\ r.checked \in Devices \ Network
              /\ r.wanted # Nobody => r.checked = r.wanted
    BY <1>1 DEF Diagnosis
  <2> HIDE DEF r, told
  <2>3. QED
    BY <2>1, <2>2 DEF Diagnosis
<1>3. Diagnosis(m)
  BY <1>2, AskedIsDiagnosis
<1>4. doctors' = [doctors EXCEPT ![i] = m]
  BY DEF Reported
<1> HIDE DEF m
<1>5. QED
  BY <1>3, <1>4, DiagnosisStays

(* A step keeps every diagnosis of a device it may vouch for.              *)
LEMMA DoctorStays ==
    ASSUME Shape, DoctorInv, [Next]_vars
    PROVE  DoctorInv'
<1>1. CASE ShowDoctor
  <2> DEFINE m == Asked("devices", button.udid)
  <2>1. Diagnosis(m) /\ doctors' = Append(doctors, m)
    BY <1>1, AskedIsDiagnosis DEF ShowDoctor
  <2> HIDE DEF m
  <2>2. /\ IsList(doctors')
        /\ \A i \in DOMAIN doctors' :
              doctors'[i] = m \/ (i \in DOMAIN doctors /\ doctors'[i] = doctors[i])
    BY <2>1, AppendList DEF DoctorInv
  <2>3. QED
    BY <2>1, <2>2 DEF DoctorInv, Diagnosis
<1>2. ASSUME NEW i \in DOMAIN doctors, DoctorLists(i)
      PROVE  DoctorInv'
  <2> DEFINE d == CheckDevices(attached, doctors[i].wanted)
             m == [doctors[i] EXCEPT !.phase = "pairing", !.checked = d]
  <2>1. CASE Reported(i, FALSE)
    BY <2>1, ReportStays
  <2>2. CASE d # Nobody /\ doctors' = [doctors EXCEPT ![i] = m]
    <3>1. d \in Devices \ Network /\ (doctors[i].wanted # Nobody => d = doctors[i].wanted)
      BY <2>2, CheckedOverUsb DEF Shape
    <3>2. Diagnosis(doctors[i])
      BY DEF DoctorInv
    <3>3. ASSUME NEW e, e = m
          PROVE  /\ e = [phase |-> e.phase, wanted |-> e.wanted, checked |-> e.checked,
                         ok |-> e.ok]
                 /\ e.wanted = doctors[i].wanted /\ e.checked = d /\ e.ok = doctors[i].ok
      BY <3>2, <3>3 DEF Diagnosis
    <3>4. doctors[i].ok \in BOOLEAN
      BY <3>2 DEF Diagnosis
    <3> HIDE DEF d, m
    <3>5. Diagnosis(m)
      BY <3>1, <3>3, <3>4 DEF Diagnosis
    <3>6. QED
      BY <2>2, <3>5, DiagnosisStays
  <2>3. QED
    BY <1>2, <2>1, <2>2 DEF DoctorLists
<1>3. ASSUME NEW i \in DOMAIN doctors, DoctorOpens(i)
      PROVE  DoctorInv'
  <2> DEFINE m == [doctors[i] EXCEPT !.phase = "reading"]
  <2>1. CASE Reported(i, FALSE)
    BY <2>1, ReportStays
  <2>2. CASE doctors' = [doctors EXCEPT ![i] = m]
    <3>1. Diagnosis(doctors[i]) /\ doctors[i].phase = "pairing"
      BY <1>3 DEF DoctorInv, DoctorOpens
    <3>2. Diagnosis(m)
      BY <3>1 DEF Diagnosis
    <3> HIDE DEF m
    <3>3. QED
      BY <2>2, <3>2, DiagnosisStays
  <2>3. QED
    BY <1>3, <2>1, <2>2 DEF DoctorOpens
<1>4. ASSUME NEW i \in DOMAIN doctors, DoctorReads(i)
      PROVE  DoctorInv'
  BY <1>4, ReportStays DEF DoctorReads
<1>5. CASE UNCHANGED doctors
  BY <1>5 DEF DoctorInv, Diagnosis
<1>6. QED
  BY <1>1, <1>2, <1>3, <1>4, <1>5 DEF Next, vars, Scan, Hear, Capture, Diagnose, Plug, Rescan,
     ScanLists, ScanOpens, ScanReads, ScanEnds, OnFound, OnDevice, OnState, Choose,
     StartCapture, Identify, Identified, Connect, Drop, StopCapture, ParkedOpens, ParkedEnds

(* DoctorAgrees, for any list of devices and any number of diagnoses at    *)
(* once: one that ends with nothing wrong is of a device over USB, and     *)
(* where one was chosen of the one that a capture asked for in the same    *)
(* way opens.  A diagnosis is of what it was asked for from the moment it  *)
(* has found a device (DoctorInv), and so is what a capture holds, in its  *)
(* first session and after every outage (HoldsItsOwn in ScanInv).          *)
THEOREM TheDoctorAgrees == Spec => []DoctorAgrees
<1>1. Init => DoctorInv
  <2>1. IsList(<<>>) /\ DOMAIN <<>> = {}
    BY DEF IsList
  <2>2. QED
    BY <2>1 DEF Init, DoctorInv
<1>2. ScanInv /\ DoctorInv /\ [Next]_vars => DoctorInv'
  BY DoctorStays DEF ScanInv
<1>3. ScanInv /\ DoctorInv => DoctorAgrees
  <2>1. SUFFICES ASSUME ScanInv, DoctorInv, NEW i \in DOMAIN doctors, doctors[i].ok
                 PROVE  /\ doctors[i].checked \in Devices \ Network
                        /\ doctors[i].wanted # Nobody =>
                                /\ doctors[i].checked = doctors[i].wanted
                                /\ capture.wanted = doctors[i].wanted =>
                                        capture.holds \in {doctors[i].checked, Nobody}
    BY DEF DoctorAgrees
  <2>2. doctors[i].ok \in BOOLEAN /\ Diagnosis(doctors[i])
    BY <2>1 DEF DoctorInv, Diagnosis
  <2>3. doctors[i].ok = TRUE
    BY <2>1, <2>2, Zenon
  <2>4. /\ doctors[i].checked \in Devices \ Network
        /\ doctors[i].wanted # Nobody => doctors[i].checked = doctors[i].wanted
    BY <2>2, <2>3 DEF Diagnosis
  <2>5. QED
    BY <2>1, <2>4 DEF ScanInv, HoldsItsOwn
<1>4. QED
  BY <1>1, <1>2, <1>3, ScanInvariance, PTL DEF Spec
=============================================================================
