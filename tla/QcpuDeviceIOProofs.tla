------------------------- MODULE QcpuDeviceIOProofs -------------------------
(***************************************************************************)
(* The transfer loops of qcpu_device_io.c, for packets, socket buffers,    *)
(* timeouts and clock resolutions of any size and any number of signals:   *)
(* no byte is lost or moved, a stop request and the deadline are kept, and *)
(* the byte loops implement the exchange of whole packets.                 *)
(***************************************************************************)
EXTENDS QcpuDeviceIO, TLAPS

USE SMTT(30), ZenonT(30)

-----------------------------------------------------------------------------
(* The inductive invariant.                                                *)

Labels == {"begin", "loop", "transfer", "wait", "armed", "poll", "done"}

Statuses == {"none", "OK", "ERROR", "TIMEOUT", "STOPPED"}

TypeOK ==
    /\ phase \in 0..(TicksPerMs - 1)
    /\ at \in [Party -> Labels]
    /\ call \in [Party -> Calls \cup {"done"}]
    /\ completed \in [Party -> [Calls -> 0..Size]]
    /\ remaining \in [Party -> 0..Timeout]
    /\ sleep \in [Party -> Nat]
    /\ elapsed \in [Party -> Nat]
    /\ stop_flag \in [Party -> BOOLEAN]
    /\ late \in [Party -> Nat]
    /\ signals \in [Party -> Nat]
    /\ stream \in [Party -> Seq(1..Size)]
    /\ buffer \in [Party -> [1..Size -> 0..Size]]
    /\ up \in BOOLEAN
    /\ result \in [Party -> [Calls -> Statuses]]

\* A party is done when its last call is; a call begins with nothing
\* transferred, and no system call is made for zero bytes.
CallInv ==
    \A p \in Party :
      /\ at[p] = "done" <=> call[p] = "done"
      /\ at[p] = "begin" => completed[p][call[p]] = 0
      /\ at[p] \in {"transfer", "wait", "armed", "poll"} => completed[p][call[p]] < Size
      /\ call[p] = First(p) => completed[p][After(p, First(p))] = 0

\* Byte by byte what NothingLostOrReordered says of whole sequences.
DataInv ==
    \A p \in Party :
      /\ Len(stream[p]) = completed[Peer(p)].write - completed[p].read
      /\ Len(stream[p]) <= Capacity
      /\ \A i \in 1..completed[p].read : buffer[p][i] = i
      /\ \A i \in 1..Len(stream[p]) : stream[p][i] = completed[p].read + i

\* No system call has been made since the flag was set, unless the flag is
\* looked at before the next one.
StopInv ==
    \A p \in Party :
      /\ late[p] <= 1
      /\ ~stop_flag[p] \/ at[p] \in {"transfer", "armed"} => late[p] = 0

Ms(n) == n * TicksPerMs

\* The ticks e that a call has slept and the milliseconds r that its deadline
\* leaves make up its timeout, to within the part ph of a millisecond that the
\* clock hides.
Behind(e, r, ph) ==
    IF r = 0
    THEN e + TicksPerMs > Ms(Timeout)
    ELSE /\ e + Ms(r) <= Ms(Timeout) + ph
         /\ e + Ms(r) + TicksPerMs > Ms(Timeout) + ph

\* The clock of every call that runs, and of every poll it sleeps in.
TimeInv ==
    \A p \in Party :
      /\ at[p] \in {"begin", "done"} => elapsed[p] = 0 /\ remaining[p] = 0
      /\ at[p] \notin {"begin", "done"} => Behind(elapsed[p], remaining[p], phase)
      /\ at[p] = "armed" => remaining[p] > 0
      /\ at[p] = "poll" => /\ elapsed[p] + sleep[p] < Ms(Timeout) + TicksPerMs
                           /\ elapsed[p] + sleep[p] + TicksPerMs > Ms(Timeout)

\* The inductive invariant of the transfer loops.
IOInv ==
    /\ TypeOK
    /\ CallInv
    /\ DataInv
    /\ StopInv
    /\ TimeInv

-----------------------------------------------------------------------------
(* Time and sequences.                                                     *)

\* A millisecond more is TicksPerMs ticks more.
LEMMA MsSuccessor ==
    ASSUME NEW n \in Nat
    PROVE  Ms(n) \in Nat /\ Ms(n + 1) = Ms(n) + TicksPerMs
<1>1. TicksPerMs \in Nat
  BY DeviceIOAssumption
<1> QED BY <1>1 DEF Ms

\* The clock shows a new millisecond exactly when the ticks are used up.
LEMMA PhaseAdvances ==
    ASSUME NEW n \in 0..(TicksPerMs - 1)
    PROVE  (n + 1) % TicksPerMs = IF n + 1 = TicksPerMs THEN 0 ELSE n + 1
<1>1. TicksPerMs \in Nat \ {0}
  BY DeviceIOAssumption
<1> QED BY <1>1

\* A tick shortens what the deadline leaves when the clock shows it.
LEMMA TickBehind ==
    ASSUME NEW e \in Nat, NEW r \in Nat, NEW ph \in 0..(TicksPerMs - 1), Behind(e, r, ph)
    PROVE  LET q == (ph + 1) % TicksPerMs
           IN  Behind(e + 1, IF q = 0 /\ r > 0 THEN r - 1 ELSE r, q)
<1>0. TicksPerMs \in Nat \ {0} /\ Ms(Timeout) \in Nat
  BY DeviceIOAssumption, MsSuccessor
<1>1. CASE r = 0
  BY <1>0, <1>1, PhaseAdvances DEF Behind
<1>2. CASE r > 0
  <2>1. Ms(r) \in Nat /\ Ms(r - 1) \in Nat /\ Ms(r) = Ms(r - 1) + TicksPerMs
    BY <1>2, MsSuccessor
  <2>2. CASE ph + 1 = TicksPerMs
    <3>1. /\ (e + 1) + Ms(r - 1) <= Ms(Timeout)
          /\ (e + 1) + Ms(r - 1) + TicksPerMs > Ms(Timeout)
      BY <1>0, <1>2, <2>1, <2>2 DEF Behind
    <3>2. r - 1 = 0 => Ms(r - 1) = 0
      BY <1>0 DEF Ms
    <3>3. Behind(e + 1, r - 1, 0)
      BY <1>0, <1>2, <2>1, <3>1, <3>2 DEF Behind
    <3>4. (ph + 1) % TicksPerMs = 0
      BY <2>2, PhaseAdvances
    <3> QED BY <1>2, <3>3, <3>4
  <2>3. CASE ph + 1 # TicksPerMs
    <3>1. (ph + 1) % TicksPerMs = ph + 1
      BY <2>3, PhaseAdvances
    <3>2. Behind(e + 1, r, ph + 1)
      BY <1>0, <1>2, <2>1 DEF Behind
    <3> QED BY <3>1, <3>2
  <2> QED BY <2>2, <2>3
<1> QED BY <1>1, <1>2

\* The bytes behind the first n of l.
LEMMA Shifted ==
    ASSUME NEW r \in Nat, NEW l \in Nat, NEW n \in 1..l, NEW i \in 1..(l - n)
    PROVE  n + i \in 1..l /\ r + (n + i) = (r + n) + i
OBVIOUS

\* A read takes the first n bytes of the socket.
LEMMA Dropped ==
    ASSUME NEW S, NEW s \in Seq(S), NEW n \in 1..Len(s)
    PROVE  /\ SubSeq(s, n + 1, Len(s)) \in Seq(S)
           /\ Len(SubSeq(s, n + 1, Len(s))) = Len(s) - n
           /\ \A i \in 1..(Len(s) - n) : SubSeq(s, n + 1, Len(s))[i] = s[n + i]
OBVIOUS

\* A write puts n bytes behind those in the socket.
LEMMA Joined ==
    ASSUME NEW S, NEW s \in Seq(S), NEW u \in Seq(S)
    PROVE  /\ s \o u \in Seq(S)
           /\ Len(s \o u) = Len(s) + Len(u)
           /\ \A i \in 1..Len(s) : (s \o u)[i] = s[i]
           /\ \A i \in 1..Len(u) : (s \o u)[Len(s) + i] = u[i]
OBVIOUS

\* The part of the packet that a write takes.
LEMMA Piece ==
    ASSUME NEW d \in 0..Size, NEW n \in 1..(Size - d)
    PROVE  /\ SubSeq(Packet, d + 1, d + n) \in Seq(1..Size)
           /\ Len(SubSeq(Packet, d + 1, d + n)) = n
           /\ \A i \in 1..n : SubSeq(Packet, d + 1, d + n)[i] = d + i
<1>0. Size \in Nat
  BY DeviceIOAssumption
<1>1. \A i \in (d + 1)..(d + n) : Packet[i] \in 1..Size /\ Packet[i] = i
  BY <1>0 DEF Packet
<1> HIDE DEF Packet
<1> QED BY <1>0, <1>1

-----------------------------------------------------------------------------
(* Types.                                                                  *)

\* The variables that a return of a call assigns.
CallTypes ==
    /\ at \in [Party -> Labels]
    /\ call \in [Party -> Calls \cup {"done"}]
    /\ result \in [Party -> [Calls -> Statuses]]
    /\ up \in BOOLEAN
    /\ phase \in 0..(TicksPerMs - 1)
    /\ remaining \in [Party -> 0..Timeout]
    /\ sleep \in [Party -> Nat]
    /\ elapsed \in [Party -> Nat]

\* The variables that a transfer assigns.
DataTypes ==
    /\ completed \in [Party -> [Calls -> 0..Size]]
    /\ stream \in [Party -> Seq(1..Size)]
    /\ buffer \in [Party -> [1..Size -> 0..Size]]

SignalTypes ==
    /\ stop_flag \in [Party -> BOOLEAN]
    /\ late \in [Party -> Nat]
    /\ signals \in [Party -> Nat]

\* A party that is not done is in one of its two calls.
LEMMA InCall ==
    ASSUME IOInv, NEW p \in Party, at[p] # "done"
    PROVE  call[p] \in Calls /\ completed[p][call[p]] \in 0..Size /\ Peer(p) \in Party
  BY DEF IOInv, TypeOK, CallInv, Party, Peer, Calls

\* A return keeps the types of what it assigns.
LEMMA ReturnType ==
    ASSUME CallTypes, NEW p \in Party, NEW status \in Statuses, call[p] \in Calls,
           Return(p, status)
    PROVE  CallTypes'
<1> DEFINE next == IF status = "OK" THEN After(p, call[p]) ELSE "done"
<1>1. next \in Calls \cup {"done"}
  BY DEF After, Calls
<1>2. /\ result' = [result EXCEPT ![p][call[p]] = status]
      /\ call' = [call EXCEPT ![p] = next]
      /\ at' = [at EXCEPT ![p] = IF next = "done" THEN "done" ELSE "begin"]
      /\ up' \in BOOLEAN
      /\ elapsed' = [elapsed EXCEPT ![p] = 0]
      /\ remaining' = [remaining EXCEPT ![p] = 0]
      /\ sleep' = [sleep EXCEPT ![p] = 0]
      /\ phase' = phase
  BY DEF Return, To, CallTypes
<1> HIDE DEF next
<1>3. 0 \in 0..Timeout
  BY DeviceIOAssumption
<1>4. result' \in [Party -> [Calls -> Statuses]]
  BY <1>2 DEF CallTypes
<1> QED BY <1>1, <1>2, <1>3, <1>4 DEF CallTypes, Labels

\* So does going on to another step of the call.
LEMMA ContinueType ==
    ASSUME CallTypes, NEW p \in Party, NEW label \in Labels, Continue(p, label),
           phase' = phase, remaining' \in [Party -> 0..Timeout], sleep' \in [Party -> Nat],
           elapsed' = elapsed
    PROVE  CallTypes'
  BY ZenonT(30) DEF CallTypes, Continue, To, callVars

\* A system call counts itself once the flag is set.
LEMMA EnteredType ==
    ASSUME SignalTypes, NEW p \in Party, Entered(p), UNCHANGED <<stop_flag, signals>>
    PROVE  SignalTypes'
  BY DEF SignalTypes, Entered

-----------------------------------------------------------------------------
(* The bytes.                                                              *)

\* A read of n bytes keeps every byte in its place.
LEMMA TakeData ==
    ASSUME IOInv, NEW p \in Party, at[p] = "transfer", call[p] = "read",
           NEW n \in 1..Smaller(Left(p), Len(stream[p])), Take(p, n)
    PROVE  DataTypes' /\ DataInv'
<1> DEFINE r == completed[p].read
           s == stream[p]
           c == buffer[p]
           b == [i \in 1..Size |-> IF i \in (r + 1)..(r + n) THEN s[i - r] ELSE c[i]]
           t == SubSeq(s, n + 1, Len(s))
<1>0. /\ Size \in Nat /\ Capacity \in Nat
      /\ r \in 0..Size /\ s \in Seq(1..Size) /\ Len(s) \in Nat /\ c \in [1..Size -> 0..Size]
  BY DeviceIOAssumption DEF IOInv, TypeOK, Calls
<1>1. n \in 1..Len(s) /\ r + n \in 0..Size
  BY <1>0 DEF Smaller, Left
<1>2. /\ buffer' = [buffer EXCEPT ![p] = b]
      /\ stream' = [stream EXCEPT ![p] = t]
      /\ completed' = [completed EXCEPT ![p].read = r + n]
  BY DEF Take
<1>3. /\ \A i \in 1..r : c[i] = i
      /\ \A i \in 1..Len(s) : s[i] = r + i
      /\ Len(s) = completed[Peer(p)].write - r /\ Len(s) <= Capacity
  BY DEF IOInv, DataInv
<1> HIDE DEF r, s, c
<1>4. t \in Seq(1..Size) /\ Len(t) = Len(s) - n /\ \A i \in 1..(Len(s) - n) : t[i] = s[n + i]
  BY <1>0, <1>1, Dropped
<1>5. b \in [1..Size -> 0..Size] /\ \A i \in 1..(r + n) : b[i] = i
  <2>1. ASSUME NEW i \in (r + 1)..(r + n) PROVE s[i - r] = i
    <3>1. i - r \in 1..Len(s)
      BY <1>0, <1>1
    <3>2. s[i - r] = r + (i - r)
      BY <1>3, <3>1
    <3> QED BY <1>0, <1>1, <3>2
  <2>2. ASSUME NEW i \in 1..Size PROVE b[i] \in 0..Size /\ (i <= r + n => b[i] = i)
    <3>1. CASE i \in (r + 1)..(r + n)
      BY <1>0, <2>1, <3>1
    <3>2. CASE i \notin (r + 1)..(r + n)
      <4>1. b[i] = c[i] /\ c[i] \in 0..Size
        BY <1>0, <3>2
      <4>2. i <= r + n => i \in 1..r
        BY <1>0, <1>1, <3>2
      <4> QED BY <1>3, <4>1, <4>2
    <3> QED BY <3>1, <3>2
  <2>3. b = [i \in 1..Size |-> b[i]]
    OBVIOUS
  <2> HIDE DEF b
  <2>4. b \in [1..Size -> 0..Size]
    BY <2>2, <2>3
  <2>5. \A i \in 1..(r + n) : i \in 1..Size /\ i <= r + n
    BY <1>0, <1>1
  <2> QED BY <2>2, <2>4, <2>5
<1> HIDE DEF b, t
<1>6. DataTypes'
  BY ZenonT(30), <1>0, <1>1, <1>2, <1>4, <1>5 DEF DataTypes, IOInv, TypeOK, Calls
<1>7. DataInv'
  <2> SUFFICES ASSUME NEW q \in Party
               PROVE  /\ Len(stream'[q]) = completed'[Peer(q)].write - completed'[q].read
                      /\ Len(stream'[q]) <= Capacity
                      /\ \A i \in 1..completed'[q].read : buffer'[q][i] = i
                      /\ \A i \in 1..Len(stream'[q]) : stream'[q][i] = completed'[q].read + i
    BY DEF DataInv
  <2>1. Peer(q) \in Party /\ \A v \in Party : completed'[v].write = completed[v].write
    BY <1>2 DEF IOInv, TypeOK, Calls, Peer, Party
  <2>2. CASE q = p
    <3>1. completed'[q].read = r + n /\ buffer'[q] = b /\ stream'[q] = t
      BY <1>2, <2>2 DEF IOInv, TypeOK, Calls
    <3>2. completed'[Peer(q)].write = Len(s) + r
      <4>1. completed[Peer(q)].write \in 0..Size
        BY <2>1 DEF IOInv, TypeOK, Calls
      <4> QED BY <1>0, <1>3, <2>1, <2>2, <4>1
    <3>3. ASSUME NEW i \in 1..Len(t) PROVE t[i] = (r + n) + i
      <4>1. i \in 1..(Len(s) - n) /\ Len(s) \in Nat /\ n \in 1..Len(s) /\ r \in Nat
        BY <1>0, <1>1, <1>4
      <4>2. n + i \in 1..Len(s) /\ r + (n + i) = (r + n) + i
        BY <4>1, Shifted
      <4> QED BY <1>3, <1>4, <4>1, <4>2
    <3>4. Len(t) = (Len(s) + r) - (r + n) /\ Len(t) <= Capacity
      <4>1. Len(s) <= Capacity /\ Len(t) = Len(s) - n
        BY <1>3, <1>4
      <4> HIDE DEF t
      <4> QED BY <1>0, <1>1, <4>1
    <3> QED BY <1>5, <3>1, <3>2, <3>3, <3>4
  <2>3. CASE q # p
    <3>1. completed'[q] = completed[q] /\ buffer'[q] = buffer[q] /\ stream'[q] = stream[q]
      BY <1>2, <2>3 DEF IOInv, TypeOK
    <3> QED BY <2>1, <3>1 DEF IOInv, DataInv
  <2> QED BY <2>2, <2>3
<1> QED BY <1>6, <1>7

\* The bytes a successful send() hands to the socket.
Send(p, n) ==
    /\ stream' = [stream EXCEPT ![Peer(p)] =
                    @ \o SubSeq(Packet, completed[p].write + 1, completed[p].write + n)]
    /\ completed' = [completed EXCEPT ![p].write = @ + n]
    /\ UNCHANGED buffer

\* A write of n bytes keeps every byte in its place.
LEMMA SendData ==
    ASSUME IOInv, NEW p \in Party, at[p] = "transfer", call[p] = "write",
           NEW n \in 1..Smaller(Left(p), Room(p)), Send(p, n)
    PROVE  DataTypes' /\ DataInv'
<1> DEFINE w == completed[p].write
           o == Peer(p)
           r == completed[o].read
           s == stream[o]
           u == SubSeq(Packet, w + 1, w + n)
           t == s \o u
<1>0. Size \in Nat /\ w \in 0..Size /\ o \in Party /\ o # p /\ Capacity \in Nat
  BY DeviceIOAssumption DEF IOInv, TypeOK, Calls, Peer, Party
<1>1. s \in Seq(1..Size) /\ Len(s) \in Nat /\ r \in 0..Size
  BY <1>0 DEF IOInv, TypeOK, Calls
<1>2. n \in 1..(Size - w) /\ Len(s) + n <= Capacity
  BY <1>0, <1>1 DEF Smaller, Left, Room
<1>3. /\ stream' = [stream EXCEPT ![o] = t]
      /\ completed' = [completed EXCEPT ![p].write = w + n]
      /\ buffer' = buffer
  BY DEF Send
<1>4. Len(s) = w - r /\ \A i \in 1..Len(s) : s[i] = r + i
  BY <1>0 DEF IOInv, DataInv, Peer, Party
<1> HIDE DEF w, r, s
<1>5. u \in Seq(1..Size) /\ Len(u) = n /\ \A i \in 1..n : u[i] = w + i
  BY ZenonT(30), <1>0, <1>2, Piece
<1> HIDE DEF u
<1>6. /\ t \in Seq(1..Size) /\ Len(t) = Len(s) + Len(u)
      /\ \A i \in 1..Len(s) : t[i] = s[i]
      /\ \A i \in 1..Len(u) : t[Len(s) + i] = u[i]
  <2> DEFINE S == 1..Size
  <2>1. s \in Seq(S) /\ u \in Seq(S)
    BY <1>1, <1>5
  <2> HIDE DEF S
  <2>2. /\ t \in Seq(S) /\ Len(t) = Len(s) + Len(u)
        /\ \A i \in 1..Len(s) : t[i] = s[i]
        /\ \A i \in 1..Len(u) : t[Len(s) + i] = u[i]
    BY <2>1, Joined
  <2> QED BY <2>2 DEF S
<1> HIDE DEF t
<1>7. \A i \in 1..Len(t) : t[i] = r + i
  <2> SUFFICES ASSUME NEW i \in 1..(Len(s) + n) PROVE t[i] = r + i
    BY <1>5, <1>6
  <2>1. CASE i <= Len(s)
    BY <1>1, <1>4, <1>6, <2>1
  <2>2. CASE ~(i <= Len(s))
    <3>1. i - Len(s) \in 1..n /\ i = Len(s) + (i - Len(s))
      BY <1>0, <1>1, <1>2, <2>2
    <3>2. t[i] = w + (i - Len(s))
      BY <1>5, <1>6, <3>1
    <3> QED BY <1>0, <1>1, <1>4, <3>2
  <2> QED BY <2>1, <2>2
<1>8. DataTypes'
  <2>1. w + n \in 0..Size
    BY <1>0, <1>2
  <2> QED BY ZenonT(30), <1>0, <1>3, <1>6, <2>1 DEF DataTypes, IOInv, TypeOK, Calls
<1>9. DataInv'
  <2> SUFFICES ASSUME NEW q \in Party
               PROVE  /\ Len(stream'[q]) = completed'[Peer(q)].write - completed'[q].read
                      /\ Len(stream'[q]) <= Capacity
                      /\ \A i \in 1..completed'[q].read : buffer'[q][i] = i
                      /\ \A i \in 1..Len(stream'[q]) : stream'[q][i] = completed'[q].read + i
    BY DEF DataInv
  <2>1. \A v \in Party : completed'[v].read = completed[v].read
    BY <1>3 DEF IOInv, TypeOK, Calls
  <2>2. CASE q = o
    <3>1. /\ completed'[Peer(q)].write = w + n /\ stream'[q] = t
          /\ completed'[q].read = r /\ buffer'[q] = buffer[q]
      BY <1>0, <1>3, <2>1, <2>2 DEF IOInv, TypeOK, Calls, Peer, Party, r
    <3>2. \A i \in 1..r : buffer[q][i] = i
      BY <2>2 DEF IOInv, DataInv, r
    <3>3. Len(t) = (w + n) - r /\ Len(t) <= Capacity
      BY <1>0, <1>1, <1>2, <1>4, <1>5, <1>6
    <3> QED BY <1>7, <3>1, <3>2, <3>3
  <2>3. CASE q # o
    <3>1. /\ stream'[q] = stream[q] /\ Peer(q) # p /\ Peer(q) \in Party
          /\ completed'[Peer(q)] = completed[Peer(q)]
      BY <1>0, <1>3, <2>3 DEF IOInv, TypeOK, Peer, Party
    <3> QED BY <1>3, <2>1, <3>1 DEF IOInv, DataInv
  <2> QED BY <2>2, <2>3
<1> QED BY <1>8, <1>9

\* A step that transfers nothing leaves the bytes where they are.
LEMMA SameData ==
    ASSUME IOInv, UNCHANGED dataVars
    PROVE  DataTypes' /\ DataInv'
  BY DEF IOInv, TypeOK, DataTypes, DataInv, dataVars

-----------------------------------------------------------------------------
(* Control, stop flag and time, for the ways in which a step can end.      *)

\* Where the call of p goes on, the control part of the invariant holds when
\* the new place is one that the count of transferred bytes allows.
LEMMA ContinueCall ==
    ASSUME IOInv, NEW p \in Party, at[p] # "done", NEW label \in Labels \ {"begin", "done"},
           Continue(p, label),
           \A q \in Party : q # p => completed'[q] = completed[q],
           \A c \in Calls : c # call[p] => completed'[p][c] = completed[p][c],
           label # "loop" => completed'[p][call[p]] < Size
    PROVE  CallInv'
<1> SUFFICES ASSUME NEW q \in Party
             PROVE  /\ at'[q] = "done" <=> call'[q] = "done"
                    /\ at'[q] = "begin" => completed'[q][call'[q]] = 0
                    /\ at'[q] \in {"transfer", "wait", "armed", "poll"}
                         => completed'[q][call'[q]] < Size
                    /\ call'[q] = First(q) => completed'[q][After(q, First(q))] = 0
  BY DEF CallInv
<1>1. call' = call /\ at' = [at EXCEPT ![p] = label]
  BY DEF Continue, To, callVars
<1>2. CASE q # p
  BY <1>1, <1>2 DEF IOInv, CallInv, TypeOK
<1>3. CASE q = p
  <2>1. at'[p] = label /\ call[p] # "done"
    BY <1>1 DEF IOInv, TypeOK, CallInv
  <2>2. After(p, First(p)) \in Calls /\ After(p, First(p)) # First(p)
    BY DEF After, First, Calls
  <2> QED BY <1>1, <1>3, <2>1, <2>2 DEF IOInv, CallInv, Labels
<1> QED BY <1>2, <1>3

\* A call that returns OK has transferred its packet, and the next one begins
\* with nothing; any other return is the last of the conversation.
LEMMA ReturnCall ==
    ASSUME IOInv, NEW p \in Party, at[p] # "done", NEW status \in Statuses,
           Return(p, status), UNCHANGED completed
    PROVE  CallInv'
<1> DEFINE next == IF status = "OK" THEN After(p, call[p]) ELSE "done"
<1>1. call[p] \in Calls
  BY InCall
<1>2. /\ call' = [call EXCEPT ![p] = next]
      /\ at' = [at EXCEPT ![p] = IF next = "done" THEN "done" ELSE "begin"]
  BY DEF Return, To
<1>3. next # "done" => call[p] = First(p) /\ next = After(p, First(p)) /\ next # First(p)
  BY <1>1 DEF After, First, Calls
<1>4. First(p) # "done"
  BY DEF First
<1> HIDE DEF next
<1> SUFFICES ASSUME NEW q \in Party
             PROVE  /\ at'[q] = "done" <=> call'[q] = "done"
                    /\ at'[q] = "begin" => completed[q][call'[q]] = 0
                    /\ at'[q] \in {"transfer", "wait", "armed", "poll"}
                         => completed[q][call'[q]] < Size
                    /\ call'[q] = First(q) => completed[q][After(q, First(q))] = 0
  BY DEF CallInv
<1>5. CASE q # p
  BY <1>2, <1>5 DEF IOInv, CallInv, TypeOK
<1>6. CASE q = p
  BY <1>2, <1>3, <1>4, <1>6 DEF IOInv, CallInv, TypeOK
<1> QED BY <1>5, <1>6

\* The flag has not been seen yet where the next system call is certain.
LEMMA QuietStop ==
    ASSUME IOInv, NEW p \in Party, NEW label, at' = [at EXCEPT ![p] = label],
           UNCHANGED signalVars, label \notin {"transfer", "armed"} \/ ~stop_flag[p]
    PROVE  SignalTypes' /\ StopInv'
  BY DEF IOInv, TypeOK, SignalTypes, StopInv, signalVars

\* The one system call that may follow the flag.
LEMMA EnteredStop ==
    ASSUME IOInv, NEW p \in Party, at[p] \in {"transfer", "armed"}, Entered(p),
           NEW label, at' = [at EXCEPT ![p] = label], label \notin {"transfer", "armed"},
           UNCHANGED <<stop_flag, signals>>
    PROVE  SignalTypes' /\ StopInv'
<1>1. SignalTypes'
  BY EnteredType DEF IOInv, TypeOK, SignalTypes
<1>2. late[p] = 0
  BY DEF IOInv, StopInv
<1>3. \A q \in Party : late'[q] = IF q = p /\ stop_flag[p] THEN 1 ELSE late[q]
  BY <1>2 DEF Entered, IOInv, TypeOK
<1> QED BY <1>1, <1>3 DEF IOInv, StopInv, TypeOK

\* A return resets the clock of its call.
LEMMA ReturnTime ==
    ASSUME IOInv, NEW p \in Party, NEW status, Return(p, status)
    PROVE  TimeInv'
<1>1. \E label \in {"begin", "done"} : at' = [at EXCEPT ![p] = label]
  BY ZenonT(30) DEF Return, To
<1>2. /\ elapsed' = [elapsed EXCEPT ![p] = 0]
      /\ remaining' = [remaining EXCEPT ![p] = 0]
      /\ sleep' = [sleep EXCEPT ![p] = 0]
      /\ phase' = phase
  BY DEF Return
<1> QED BY <1>1, <1>2 DEF IOInv, TypeOK, TimeInv

\* No time passes between two system calls.
LEMMA ContinueTime ==
    ASSUME IOInv, NEW p \in Party, NEW label, at' = [at EXCEPT ![p] = label],
           at[p] \notin {"begin", "done"}, label \in {"loop", "transfer", "wait", "armed"},
           label = "armed" => remaining[p] > 0,
           UNCHANGED <<phase, remaining, elapsed>>,
           \A q \in Party : q # p => sleep'[q] = sleep[q]
    PROVE  TimeInv'
  BY DEF IOInv, TypeOK, TimeInv

-----------------------------------------------------------------------------
(* The steps.                                                              *)

\* The parts of the invariant together, before and after a step.
LEMMA Together ==
    /\ IOInv => CallTypes /\ SignalTypes
    /\ CallTypes' /\ DataTypes' /\ SignalTypes' /\ CallInv' /\ DataInv' /\ StopInv' /\ TimeInv'
         => IOInv'
  BY DEF IOInv, TypeOK, CallTypes, DataTypes, SignalTypes

\* A call that returns without a transfer preserves the invariant.
LEMMA ReturnInv ==
    ASSUME IOInv, NEW p \in Party, at[p] # "done", NEW status \in Statuses, Return(p, status),
           UNCHANGED dataVars,
           UNCHANGED signalVars
             \/ (at[p] = "transfer" /\ Entered(p) /\ UNCHANGED <<stop_flag, signals>>)
    PROVE  IOInv'
<1>1. CallTypes'
  BY InCall, ReturnType, Together
<1>2. DataTypes' /\ DataInv'
  BY SameData
<1>3. PICK label \in {"begin", "done"} : at' = [at EXCEPT ![p] = label]
  BY ZenonT(30) DEF Return, To
<1>4. SignalTypes' /\ StopInv'
  BY ZenonT(30), <1>3, QuietStop, EnteredStop
<1>5. CallInv'
  BY ReturnCall DEF dataVars
<1>6. TimeInv'
  BY ReturnTime
<1> QED BY <1>1, <1>2, <1>4, <1>5, <1>6, Together

\* prepare_deadline gives the call its whole timeout.
LEMMA BeginInv ==
    ASSUME IOInv, NEW p \in Party, Begin(p)
    PROVE  IOInv'
<1> USE DEF Begin, DeadlineIn
<1>1. CASE Return(p, "ERROR")
  BY <1>1, ReturnInv DEF Statuses
<1>2. CASE /\ remaining' = [remaining EXCEPT ![p] = Timeout] /\ Continue(p, "loop")
           /\ UNCHANGED <<phase, sleep, elapsed>>
  <2>0. at' = [at EXCEPT ![p] = "loop"] /\ at[p] = "begin"
    BY <1>2 DEF Continue, To
  <2>1. CallTypes'
    <3>1. remaining' \in [Party -> 0..Timeout]
      BY <1>2, DeviceIOAssumption DEF IOInv, TypeOK
    <3> QED BY ZenonT(30), <1>2, <3>1, ContinueType, Together DEF Labels, IOInv, TypeOK
  <2>2. DataTypes' /\ DataInv'
    BY SameData
  <2>3. SignalTypes' /\ StopInv'
    BY ZenonT(30), <2>0, QuietStop
  <2>4. CallInv'
    BY <1>2, ContinueCall DEF Labels, dataVars
  <2>5. TimeInv'
    <3>1. /\ elapsed[p] = 0 /\ phase \in 0..(TicksPerMs - 1)
          /\ TicksPerMs \in Nat \ {0} /\ Timeout \in Nat \ {0} /\ Ms(Timeout) \in Nat
      BY <2>0, DeviceIOAssumption, MsSuccessor DEF IOInv, TimeInv, TypeOK
    <3>2. /\ remaining'[p] = Timeout /\ elapsed'[p] = 0 /\ at'[p] = "loop" /\ phase' = phase
          /\ \A q \in Party : q # p => /\ remaining'[q] = remaining[q] /\ at'[q] = at[q]
                                       /\ elapsed'[q] = elapsed[q] /\ sleep'[q] = sleep[q]
      BY <1>2, <2>0, <3>1 DEF IOInv, TypeOK
    <3>3. Behind(0, Timeout, phase)
      BY <3>1 DEF Behind
    <3> QED BY <3>1, <3>2, <3>3 DEF IOInv, TimeInv
  <2> QED BY <2>1, <2>2, <2>3, <2>4, <2>5, Together
<1> QED BY <1>1, <1>2

\* The head of the transfer loop preserves the invariant.
LEMMA LoopInv ==
    ASSUME IOInv, NEW p \in Party, Loop(p)
    PROVE  IOInv'
<1> USE DEF Loop
<1>1. CASE Return(p, "OK") \/ Return(p, "STOPPED")
  BY <1>1, ReturnInv DEF Statuses
<1>2. CASE Left(p) > 0 /\ ~stop_flag[p] /\ Continue(p, "transfer") /\ UNCHANGED clockVars
  <2>0. at' = [at EXCEPT ![p] = "transfer"] /\ at[p] = "loop"
    BY <1>2 DEF Continue, To
  <2>1. CallTypes'
    BY ZenonT(30), <1>2, ContinueType, Together DEF Labels, IOInv, TypeOK, clockVars
  <2>2. DataTypes' /\ DataInv'
    BY SameData
  <2>3. SignalTypes' /\ StopInv'
    BY ZenonT(30), <1>2, <2>0, QuietStop
  <2>4. CallInv'
    <3>1. completed[p][call[p]] < Size
      BY <1>2, <2>0, InCall, DeviceIOAssumption DEF Left
    <3> QED BY <1>2, <2>0, <3>1, ContinueCall DEF Labels, dataVars
  <2>5. TimeInv'
    BY ZenonT(30), <1>2, <2>0, ContinueTime DEF clockVars
  <2> QED BY <2>1, <2>2, <2>3, <2>4, <2>5, Together
<1> QED BY <1>1, <1>2

\* What read() and send() have in common: the bytes they moved are counted in
\* completed, or there were none and the call goes to wait.
LEMMA TransferInv ==
    ASSUME IOInv, NEW p \in Party, at[p] = "transfer", Entered(p),
           UNCHANGED <<stop_flag, signals, clockVars>>,
           NEW label \in {"loop", "wait"}, Continue(p, label),
           DataTypes', DataInv',
           \A q \in Party : q # p => completed'[q] = completed[q],
           \A c \in Calls : c # call[p] => completed'[p][c] = completed[p][c],
           label = "wait" => UNCHANGED completed
    PROVE  IOInv'
<1>0. at' = [at EXCEPT ![p] = label]
  BY DEF Continue, To
<1>1. CallTypes'
  BY ZenonT(30), ContinueType, Together DEF Labels, IOInv, TypeOK, clockVars
<1>2. SignalTypes' /\ StopInv'
  BY ZenonT(30), <1>0, EnteredStop
<1>3. CallInv'
  <2>1. label # "loop" => completed'[p][call[p]] < Size
    BY DEF IOInv, CallInv
  <2> QED BY <2>1, ContinueCall DEF Labels
<1>4. TimeInv'
  BY ZenonT(30), <1>0, ContinueTime DEF clockVars
<1> QED BY <1>1, <1>2, <1>3, <1>4, Together

\* read() preserves the invariant.
LEMMA ReadInv ==
    ASSUME IOInv, NEW p \in Party, Read(p)
    PROVE  IOInv'
<1> USE DEF Read, EndOfStream
<1>1. CASE Return(p, "ERROR") /\ UNCHANGED dataVars
  BY <1>1, ReturnInv DEF Statuses
<1>2. CASE Continue(p, "wait") /\ UNCHANGED <<clockVars, dataVars>>
  BY <1>2, SameData, TransferInv DEF dataVars
<1>3. ASSUME NEW n \in 1..Smaller(Left(p), Len(stream[p])), Take(p, n), Continue(p, "loop"),
             UNCHANGED clockVars
      PROVE  IOInv'
  <2>1. DataTypes' /\ DataInv'
    BY <1>3, TakeData
  <2>2. /\ \A q \in Party : q # p => completed'[q] = completed[q]
        /\ \A c \in Calls : c # call[p] => completed'[p][c] = completed[p][c]
    BY <1>3 DEF Take, IOInv, TypeOK, Calls
  <2> QED BY <1>3, <2>1, <2>2, TransferInv
<1> QED BY <1>1, <1>2, <1>3

\* send() preserves the invariant.
LEMMA WriteInv ==
    ASSUME IOInv, NEW p \in Party, Write(p)
    PROVE  IOInv'
<1> USE DEF Write
<1>1. CASE Return(p, "ERROR") /\ UNCHANGED dataVars
  BY <1>1, ReturnInv DEF Statuses
<1>2. CASE Continue(p, "wait") /\ UNCHANGED <<clockVars, dataVars>>
  BY <1>2, SameData, TransferInv DEF dataVars
<1>3. ASSUME NEW n \in 1..Smaller(Left(p), Room(p)), Send(p, n), Continue(p, "loop"),
             UNCHANGED clockVars
      PROVE  IOInv'
  <2>1. DataTypes' /\ DataInv'
    BY <1>3, SendData
  <2>2. /\ \A q \in Party : q # p => completed'[q] = completed[q]
        /\ \A c \in Calls : c # call[p] => completed'[p][c] = completed[p][c]
    BY <1>3 DEF Send, IOInv, TypeOK, Calls
  <2> QED BY ZenonT(30), <1>3, <2>1, <2>2, TransferInv
<1> QED BY ZenonT(30), <1>1, <1>2, <1>3 DEF Send

\* The checks before poll preserve the invariant.
LEMMA WaitInv ==
    ASSUME IOInv, NEW p \in Party, Wait(p)
    PROVE  IOInv'
<1> USE DEF Wait
<1>1. CASE Return(p, "STOPPED") \/ Return(p, "TIMEOUT")
  BY <1>1, ReturnInv DEF Statuses
<1>2. CASE /\ ~stop_flag[p] /\ remaining[p] > 0 /\ Continue(p, "armed") /\ UNCHANGED clockVars
  <2>0. at' = [at EXCEPT ![p] = "armed"] /\ at[p] = "wait"
    BY <1>2 DEF Continue, To
  <2>1. CallTypes'
    BY ZenonT(30), <1>2, ContinueType, Together DEF Labels, IOInv, TypeOK, clockVars
  <2>2. DataTypes' /\ DataInv'
    BY SameData
  <2>3. SignalTypes' /\ StopInv'
    BY ZenonT(30), <1>2, <2>0, QuietStop
  <2>4. CallInv'
    <3>1. completed[p][call[p]] < Size
      BY <2>0 DEF IOInv, CallInv
    <3> QED BY <1>2, <2>0, <3>1, ContinueCall DEF Labels, dataVars
  <2>5. TimeInv'
    BY ZenonT(30), <1>2, <2>0, ContinueTime DEF clockVars
  <2> QED BY <2>1, <2>2, <2>3, <2>4, <2>5, Together
<1> QED BY <1>1, <1>2

\* poll is given the time that is left of the deadline.
LEMMA SleepInv ==
    ASSUME IOInv, NEW p \in Party, Sleep(p)
    PROVE  IOInv'
<1>0. /\ at' = [at EXCEPT ![p] = "poll"] /\ at[p] = "armed"
      /\ sleep' = [sleep EXCEPT ![p] = Ms(remaining[p])]
      /\ Continue(p, "poll") /\ Entered(p)
      /\ UNCHANGED <<phase, remaining, elapsed, stop_flag, signals, dataVars>>
  BY DEF Sleep, PollTimeout, Continue, To, Ms
<1>1. remaining[p] \in 0..Timeout /\ remaining[p] > 0 /\ Timeout \in Nat /\ TicksPerMs \in Nat \ {0}
  BY <1>0, DeviceIOAssumption DEF IOInv, TypeOK, TimeInv
<1>2. Ms(remaining[p]) \in Nat /\ Ms(Timeout) \in Nat
  BY <1>1, MsSuccessor
<1>3. CallTypes'
  BY ZenonT(30), <1>0, <1>2, ContinueType, Together DEF Labels, IOInv, TypeOK
<1>4. DataTypes' /\ DataInv'
  BY <1>0, SameData
<1>5. SignalTypes' /\ StopInv'
  <2>1. at[p] \in {"transfer", "armed"} /\ "poll" \notin {"transfer", "armed"}
    BY <1>0
  <2> QED BY ZenonT(30), <1>0, <2>1, EnteredStop
<1>6. CallInv'
  <2>1. completed[p][call[p]] < Size
    BY <1>0 DEF IOInv, CallInv
  <2> QED BY <1>0, <2>1, ContinueCall DEF Labels, dataVars
<1>7. TimeInv'
  <2>1. /\ elapsed[p] + Ms(remaining[p]) <= Ms(Timeout) + phase
        /\ elapsed[p] + Ms(remaining[p]) + TicksPerMs > Ms(Timeout) + phase
        /\ elapsed[p] \in Nat /\ phase \in 0..(TicksPerMs - 1)
    <3>1. at[p] \notin {"begin", "done"} /\ remaining[p] # 0
      BY <1>0, <1>1
    <3> QED BY <3>1 DEF IOInv, TimeInv, TypeOK, Behind
  <2>2. /\ elapsed[p] + Ms(remaining[p]) < Ms(Timeout) + TicksPerMs
        /\ elapsed[p] + Ms(remaining[p]) + TicksPerMs > Ms(Timeout)
    BY <1>1, <1>2, <2>1
  <2>3. /\ sleep'[p] = Ms(remaining[p]) /\ at'[p] = "poll"
        /\ \A q \in Party : q # p => sleep'[q] = sleep[q] /\ at'[q] = at[q]
        /\ UNCHANGED <<elapsed, remaining, phase>>
    BY <1>0 DEF IOInv, TypeOK
  <2> QED BY <1>0, <1>1, <2>1, <2>2, <2>3 DEF IOInv, TimeInv
<1> QED BY <1>3, <1>4, <1>5, <1>6, <1>7, Together

\* The ends of poll preserve the invariant.
LEMMA WakeInv ==
    ASSUME IOInv, NEW p \in Party, Wake(p)
    PROVE  IOInv'
<1> USE DEF Wake
<1>1. CASE Return(p, "ERROR") \/ Return(p, "TIMEOUT")
  BY <1>1, ReturnInv DEF Statuses
<1>2. CASE /\ Continue(p, "loop") /\ sleep' = [sleep EXCEPT ![p] = 0]
           /\ UNCHANGED <<phase, remaining, elapsed>>
  <2>0. at' = [at EXCEPT ![p] = "loop"] /\ at[p] = "poll"
    BY <1>2 DEF Continue, To
  <2>1. CallTypes'
    BY ZenonT(30), <1>2, ContinueType, Together DEF Labels, IOInv, TypeOK
  <2>2. DataTypes' /\ DataInv'
    BY SameData
  <2>3. SignalTypes' /\ StopInv'
    BY ZenonT(30), <2>0, QuietStop
  <2>4. CallInv'
    BY <1>2, <2>0, ContinueCall DEF Labels, dataVars
  <2>5. TimeInv'
    <3>1. \A q \in Party : q # p => sleep'[q] = sleep[q]
      BY <1>2 DEF IOInv, TypeOK
    <3> QED BY ZenonT(30), <1>2, <2>0, <3>1, ContinueTime
  <2> QED BY <2>1, <2>2, <2>3, <2>4, <2>5, Together
<1> QED BY <1>1, <1>2

\* A signal preserves the invariant, wherever it arrives.
LEMMA SignalInv ==
    ASSUME IOInv, NEW p \in Party, Signal(p)
    PROVE  IOInv'
<1> USE DEF Signal, callVars, To
<1>0. /\ UNCHANGED <<phase, remaining, elapsed, call, result, up, completed>>
      /\ \A q \in Party : q # p => at'[q] = at[q] /\ sleep'[q] = sleep[q]
      /\ at' \in [Party -> Labels] /\ sleep' \in [Party -> Nat]
      /\ \/ at[p] = "poll" /\ at'[p] = "wait"
         \/ at[p] = "transfer" /\ at'[p] = "loop"
         \/ at[p] # "poll" /\ at'[p] = at[p]
  <2>0. UNCHANGED <<phase, remaining, elapsed, call, result, up, completed>>
    BY DEF dataVars
  <2>1. CASE at[p] = "poll" /\ To(p, "wait") /\ sleep' = [sleep EXCEPT ![p] = 0]
    BY <2>0, <2>1 DEF IOInv, TypeOK, Labels
  <2>2. CASE at[p] = "transfer" /\ To(p, "loop") /\ UNCHANGED sleep
    BY <2>0, <2>2 DEF IOInv, TypeOK, Labels
  <2>3. CASE at[p] # "poll" /\ UNCHANGED <<at, sleep>>
    BY <2>0, <2>3 DEF IOInv, TypeOK
  <2> QED BY <2>1, <2>2, <2>3
<1>1. CallTypes'
  BY ZenonT(30), <1>0 DEF IOInv, TypeOK, CallTypes
<1>2. DataTypes' /\ DataInv'
  BY SameData
<1>3. SignalTypes'
  BY DEF IOInv, TypeOK, SignalTypes
<1>4. StopInv'
  <2>1. late' = late /\ \A q \in Party : stop_flag[q] => stop_flag'[q]
    BY DEF IOInv, TypeOK
  <2>2. \A q \in Party : at'[q] \in {"transfer", "armed"} => at[q] \in {"transfer", "armed"}
    BY <1>0
  <2> QED BY <2>1, <2>2 DEF IOInv, StopInv
<1>5. CallInv'
  BY <1>0 DEF IOInv, CallInv, First
<1>6. TimeInv'
  BY <1>0 DEF IOInv, TimeInv
<1> QED BY <1>1, <1>2, <1>3, <1>4, <1>5, <1>6, Together

\* A tick of the clock preserves the invariant: what poll sleeps and what the
\* deadline leaves shrink together.
LEMMA TickInv ==
    ASSUME IOInv, Tick
    PROVE  IOInv'
<1> USE DEF Tick
<1>0. /\ TicksPerMs \in Nat \ {0} /\ Timeout \in Nat /\ Ms(Timeout) \in Nat
      /\ phase \in 0..(TicksPerMs - 1)
  BY DeviceIOAssumption, MsSuccessor DEF IOInv, TypeOK
<1>1. phase' = IF phase + 1 = TicksPerMs THEN 0 ELSE phase + 1
  BY <1>0, PhaseAdvances
<1>2. CallTypes'
  <2>1. phase' \in 0..(TicksPerMs - 1)
    BY <1>0, <1>1
  <2>2. remaining' \in [Party -> 0..Timeout]
    BY <1>0 DEF IOInv, TypeOK
  <2>3. sleep' \in [Party -> Nat] /\ elapsed' \in [Party -> Nat]
    <3>1. sleep \in [Party -> Nat] /\ elapsed \in [Party -> Nat]
      BY DEF IOInv, TypeOK
    <3>2. \A p \in Party : at[p] = "poll" => sleep[p] - 1 \in Nat
      BY <3>1
    <3> QED BY <3>1, <3>2
  <2>4. UNCHANGED <<at, call, result, up>>
    BY DEF callVars
  <2> HIDE DEF Tick
  <2> QED BY <2>1, <2>2, <2>3, <2>4 DEF IOInv, TypeOK, CallTypes
<1>3. DataTypes' /\ DataInv'
  BY SameData
<1>4. SignalTypes' /\ StopInv'
  BY DEF IOInv, TypeOK, SignalTypes, StopInv, signalVars
<1>5. CallInv'
  BY DEF IOInv, CallInv, callVars, dataVars
<1>6. TimeInv'
  <2> SUFFICES ASSUME NEW p \in Party
               PROVE  /\ at[p] \in {"begin", "done"} => elapsed'[p] = 0 /\ remaining'[p] = 0
                      /\ at[p] \notin {"begin", "done"} => Behind(elapsed'[p], remaining'[p], phase')
                      /\ at[p] = "armed" => remaining'[p] > 0
                      /\ at[p] = "poll" =>
                           /\ elapsed'[p] + sleep'[p] < Ms(Timeout) + TicksPerMs
                           /\ elapsed'[p] + sleep'[p] + TicksPerMs > Ms(Timeout)
    BY DEF TimeInv, Behind
  <2>1. CASE at[p] \in {"begin", "done"}
    BY <2>1 DEF IOInv, TypeOK, TimeInv
  <2>2. CASE at[p] = "poll" /\ sleep[p] > 0
    <3>1. /\ elapsed[p] \in Nat /\ remaining[p] \in Nat /\ sleep[p] \in Nat
          /\ elapsed'[p] = elapsed[p] + 1 /\ sleep'[p] = sleep[p] - 1
          /\ remaining'[p] = IF phase' = 0 /\ remaining[p] > 0
                             THEN remaining[p] - 1 ELSE remaining[p]
      BY <1>0, <2>2 DEF IOInv, TypeOK
    <3>2. elapsed'[p] + sleep'[p] = elapsed[p] + sleep[p]
      BY <2>2, <3>1
    <3>3. /\ elapsed[p] + sleep[p] < Ms(Timeout) + TicksPerMs
          /\ elapsed[p] + sleep[p] + TicksPerMs > Ms(Timeout)
          /\ Behind(elapsed[p], remaining[p], phase)
      BY <2>2 DEF IOInv, TimeInv
    <3>4. phase' = (phase + 1) % TicksPerMs
      OBVIOUS
    <3> HIDE DEF Tick
    <3>5. Behind(elapsed'[p], remaining'[p], phase')
      BY <1>0, <3>1, <3>3, <3>4, TickBehind
    <3> QED BY <2>2, <3>2, <3>3, <3>5
  <2> QED BY <2>1, <2>2
<1> QED BY <1>2, <1>3, <1>4, <1>5, <1>6, Together

\* A shutdown of the connection preserves the invariant: no byte moves.
LEMMA ShutdownInv ==
    ASSUME IOInv, Shutdown
    PROVE  IOInv'
<1>0. UNCHANGED <<clockVars, at, signalVars, dataVars, call, result>> /\ up' = FALSE
  BY DEF Shutdown
<1>1. CallTypes'
  BY ZenonT(30), <1>0, Together DEF CallTypes, clockVars
<1>2. DataTypes' /\ DataInv'
  BY <1>0, SameData
<1>3. SignalTypes' /\ StopInv'
  BY <1>0 DEF IOInv, TypeOK, SignalTypes, StopInv, signalVars
<1>4. CallInv'
  BY <1>0 DEF IOInv, CallInv, dataVars
<1>5. TimeInv'
  BY <1>0 DEF IOInv, TimeInv, clockVars
<1> QED BY <1>1, <1>2, <1>3, <1>4, <1>5, Together

\* The invariant holds before the first call.
LEMMA InitInv == Init => IOInv
<1> SUFFICES ASSUME Init PROVE IOInv
  OBVIOUS
<1> USE DEF Init
<1>0. Size \in Nat \ {0} /\ Capacity \in Nat /\ Timeout \in Nat
  BY DeviceIOAssumption
<1>1. TypeOK
  <2>1. call \in [Party -> Calls \cup {"done"}] /\ result \in [Party -> [Calls -> Statuses]]
    BY DEF First, Calls, Statuses
  <2>2. completed \in [Party -> [Calls -> 0..Size]] /\ remaining \in [Party -> 0..Timeout]
    BY <1>0
  <2>3. stream \in [Party -> Seq(1..Size)] /\ buffer \in [Party -> [1..Size -> 0..Size]]
    BY <1>0
  <2> QED BY <2>1, <2>2, <2>3 DEF TypeOK, Labels
<1>2. CallInv
  BY <1>0 DEF CallInv, First, After, Calls, Party
<1>3. DataInv
  <2>1. \A p \in Party : stream[p] = <<>> /\ Peer(p) \in Party
    BY DEF Party, Peer
  <2>2. \A p \in Party : completed[p].read = 0 /\ completed[p].write = 0
    BY DEF Calls
  <2> HIDE DEF Init
  <2> QED BY <1>0, <2>1, <2>2 DEF DataInv
<1>4. StopInv
  BY DEF StopInv
<1>5. TimeInv
  BY DEF TimeInv
<1> QED BY <1>1, <1>2, <1>3, <1>4, <1>5 DEF IOInv

\* Every step preserves the invariant.
LEMMA NextInv == IOInv /\ [Next]_vars => IOInv'
<1> SUFFICES ASSUME IOInv, [Next]_vars PROVE IOInv'
  OBVIOUS
<1>1. ASSUME NEW p \in Party, Step(p) PROVE IOInv'
  BY <1>1, BeginInv, LoopInv, ReadInv, WriteInv, WaitInv, SleepInv, WakeInv DEF Step
<1>2. ASSUME NEW p \in Party, Signal(p) PROVE IOInv'
  BY <1>2, SignalInv
<1>3. CASE UNCHANGED vars
  <2>0. UNCHANGED <<clockVars, at, signalVars, dataVars, callVars>>
    BY <1>3 DEF vars
  <2>1. CallTypes'
    BY <2>0, Together DEF CallTypes, clockVars, callVars
  <2>2. DataTypes' /\ DataInv'
    BY <2>0, SameData
  <2>3. SignalTypes' /\ StopInv'
    BY <2>0 DEF IOInv, TypeOK, SignalTypes, StopInv, signalVars
  <2>4. CallInv'
    BY <2>0 DEF IOInv, CallInv, dataVars, callVars
  <2>5. TimeInv'
    BY <2>0 DEF IOInv, TimeInv, clockVars
  <2> QED BY <2>1, <2>2, <2>3, <2>4, <2>5, Together
<1> QED BY <1>1, <1>2, <1>3, ShutdownInv, TickInv DEF Next, Terminated

\* The inductive invariant of the transfer loops holds of every state.
THEOREM IOInvariance == Spec => []IOInv
  BY InitInv, NextInv, PTL DEF Spec

-----------------------------------------------------------------------------
(* Bytes and stop requests.                                                *)

\* The bytes stored and the bytes in the socket are those the writer has
\* counted, once each and in order, whatever reads, sends, signals and
\* shutdowns interleave in qcpu_device_read_all and qcpu_device_write_all.
THEOREM NothingLostOrReorderedHolds == Spec => []NothingLostOrReordered
<1>1. IOInv => NothingLostOrReordered
  <2> SUFFICES ASSUME IOInv, NEW p \in Party
               PROVE  /\ SubSeq(buffer[p], 1, completed[p].read) \o stream[p]
                           = SubSeq(Packet, 1, completed[Peer(p)].write)
                      /\ Len(stream[p]) <= Capacity
    BY ZenonT(30) DEF NothingLostOrReordered
  <2> DEFINE r == completed[p].read
             w == completed[Peer(p)].write
             b == buffer[p]
             s == stream[p]
             stored == SubSeq(b, 1, r)
             written == SubSeq(Packet, 1, w)
  <2>0. Size \in Nat
    BY DeviceIOAssumption
  <2>1. r \in 0..Size /\ w \in 0..Size /\ b \in [1..Size -> 0..Size] /\ s \in Seq(1..Size)
    BY DEF IOInv, TypeOK, Calls, Peer, Party
  <2>2. /\ Len(s) = w - r /\ Len(s) <= Capacity
        /\ \A i \in 1..r : b[i] = i
        /\ \A i \in 1..Len(s) : s[i] = r + i
    BY ZenonT(30) DEF IOInv, DataInv
  <2> HIDE DEF r, w, b, s
  <2>3. /\ stored \in Seq(0..Size) /\ Len(stored) = r
        /\ \A i \in 1..r : stored[i] = i
    <3>1. \A i \in 1..r : b[i] \in 0..Size
      BY <2>0, <2>1
    <3> QED BY <2>0, <2>1, <2>2, <3>1
  <2>4. /\ written \in Seq(1..Size) /\ Len(written) = w
        /\ \A i \in 1..w : written[i] = i
    <3>1. \A i \in 1..w : Packet[i] \in 1..Size /\ Packet[i] = i
      BY <2>0, <2>1 DEF Packet
    <3> HIDE DEF Packet
    <3> QED BY <2>0, <2>1, <3>1
  <2> HIDE DEF stored, written
  <2>5. s \in Seq(0..Size) /\ written \in Seq(0..Size)
    BY <2>0, <2>1, <2>4
  <2>6. /\ stored \o s \in Seq(0..Size)
        /\ Len(stored \o s) = r + Len(s)
        /\ \A i \in 1..r : (stored \o s)[i] = i
        /\ \A i \in 1..Len(s) : (stored \o s)[r + i] = r + i
    <3> DEFINE S == 0..Size
    <3>1. stored \in Seq(S) /\ s \in Seq(S)
      BY <2>3, <2>5
    <3> HIDE DEF S
    <3>2. /\ stored \o s \in Seq(S)
          /\ Len(stored \o s) = Len(stored) + Len(s)
          /\ \A i \in 1..Len(stored) : (stored \o s)[i] = stored[i]
          /\ \A i \in 1..Len(s) : (stored \o s)[Len(stored) + i] = s[i]
      BY <3>1, Joined
    <3> QED BY <2>2, <2>3, <3>2 DEF S
  <2>7. Len(stored \o s) = w
    BY <2>1, <2>2, <2>6
  <2>8. \A i \in 1..w : (stored \o s)[i] = written[i]
    <3> SUFFICES ASSUME NEW i \in 1..w PROVE (stored \o s)[i] = i
      BY ZenonT(30), <2>4
    <3>1. CASE i \in 1..r
      BY ZenonT(30), <2>6, <3>1
    <3>2. CASE i \notin 1..r
      <4>1. i - r \in 1..Len(s) /\ r + (i - r) = i
        BY <2>1, <2>2, <3>2
      <4> QED BY ZenonT(30), <2>6, <4>1
    <3> QED BY ZenonT(30), <3>1, <3>2
  <2>9. stored \o s = written
    <3> DEFINE whole == stored \o s
    <3>1. whole \in Seq(0..Size) /\ Len(whole) = Len(written)
          /\ \A i \in 1..Len(written) : whole[i] = written[i]
      BY <2>4, <2>6, <2>7, <2>8
    <3> HIDE DEF whole
    <3>2. whole = written
      BY <2>5, <3>1
    <3> QED BY <3>2 DEF whole
  <2> QED BY ZenonT(30), <2>2, <2>9 DEF r, w, b, s, stored, written
<1> QED BY <1>1, IOInvariance, PTL

\* A stop request ends wait_until_ready and the transfer loops after at most
\* the one system call that was already prepared.
THEOREM StopEndsCallHolds == Spec => []StopEndsCall
<1>1. IOInv => StopEndsCall
  BY DEF IOInv, StopInv, StopEndsCall
<1> QED BY <1>1, IOInvariance, PTL

-----------------------------------------------------------------------------
(* The deadline.                                                           *)

\* What a return writes to the results.
LEMMA ReturnResult ==
    ASSUME IOInv, NEW p \in Party, at[p] # "done", NEW status, Return(p, status)
    PROVE  /\ result'[p][call[p]] = status
           /\ \A q \in Party : \A c \in Calls :
                <<q, c>> # <<p, call[p]>> => result'[q][c] = result[q][c]
<1>1. call[p] \in Calls /\ result \in [Party -> [Calls -> Statuses]]
  BY InCall DEF IOInv, TypeOK
<1>2. result' = [result EXCEPT ![p][call[p]] = status]
  BY DEF Return
<1> QED BY <1>1, <1>2

\* No call reports a timeout before its timeout has run: only the two checks
\* of wait_until_ready report one.
LEMMA NotEarly ==
    ASSUME IOInv, [Next]_vars, NEW p \in Party, NEW c \in Calls,
           result[p][c] = "none", result'[p][c] = "TIMEOUT"
    PROVE  elapsed[p] + TicksPerMs > Ms(Timeout)
<1> DEFINE Goal == elapsed[p] + TicksPerMs > Ms(Timeout)
<1>0. result' # result
  OBVIOUS
<1>1. ASSUME NEW q \in Party, at[q] # "done", NEW status, status # "TIMEOUT", Return(q, status)
      PROVE  FALSE
  <2>1. /\ result'[q][call[q]] = status
        /\ <<p, c>> # <<q, call[q]>> => result'[p][c] = result[p][c]
    BY <1>1, ReturnResult
  <2> QED BY <1>1, <2>1
<1>2. ASSUME NEW q \in Party, at[q] # "done", NEW status, Return(q, status)
      PROVE  p = q
  <2>1. <<p, c>> # <<q, call[q]>> => result'[p][c] = result[p][c]
    BY <1>2, ReturnResult
  <2> QED BY <2>1
<1>3. \A q \in Party, label \in Labels : ~Continue(q, label)
  BY <1>0 DEF Continue, callVars
<1>4. PICK q \in Party : Step(q)
  BY <1>0 DEF Next, Signal, Shutdown, Tick, Terminated, vars, callVars
<1>5. CASE Begin(q) \/ Loop(q) \/ Read(q) \/ Write(q)
  BY <1>1, <1>3, <1>5 DEF Begin, Loop, Read, Write, EndOfStream, Labels
<1>6. CASE Wait(q)
  <2>1. at[q] = "wait" /\ remaining[q] = 0 /\ Return(q, "TIMEOUT")
    BY <1>1, <1>3, <1>6 DEF Wait, Labels
  <2>2. p = q
    BY <1>2, <2>1
  <2> QED BY <2>1, <2>2 DEF IOInv, TimeInv, Behind
<1>7. CASE Sleep(q)
  BY <1>3, <1>7 DEF Sleep, Labels
<1>8. CASE Wake(q)
  <2>1. at[q] = "poll" /\ sleep[q] = 0 /\ Return(q, "TIMEOUT")
    BY <1>1, <1>3, <1>8 DEF Wake, Labels
  <2>2. p = q
    BY <1>2, <2>1
  <2>3. elapsed[p] + sleep[p] + TicksPerMs > Ms(Timeout) /\ elapsed[p] \in Nat
    BY <2>1, <2>2 DEF IOInv, TimeInv, TypeOK
  <2> QED BY <2>1, <2>2, <2>3
<1> QED BY <1>4, <1>5, <1>6, <1>7, <1>8 DEF Step

\* Partial transfers and interruptions neither extend nor shorten the deadline
\* that prepare_deadline sets, whatever the clock's resolution.
THEOREM DeadlineKeptHolds == Spec => DeadlineKept
<1>0. TicksPerMs \in Nat /\ Timeout \in Nat
  BY DeviceIOAssumption
<1>1. /\ (Timeout + 1) * TicksPerMs = Ms(Timeout) + TicksPerMs
      /\ (Timeout - 1) * TicksPerMs = Ms(Timeout) - TicksPerMs
      /\ Ms(Timeout) \in Nat
  BY <1>0 DEF Ms
<1>2. IOInv => \A p \in Party :
                 at[p] = "poll" => elapsed[p] + sleep[p] < (Timeout + 1) * TicksPerMs
  BY <1>1 DEF IOInv, TimeInv
<1>3. IOInv /\ [Next]_vars =>
        [\A p \in Party : \A c \in Calls :
            result[p][c] = "none" /\ result'[p][c] = "TIMEOUT"
              => elapsed[p] > (Timeout - 1) * TicksPerMs]_vars
  <2> SUFFICES ASSUME IOInv, [Next]_vars, NEW p \in Party, NEW c \in Calls,
                      result[p][c] = "none", result'[p][c] = "TIMEOUT"
               PROVE  elapsed[p] > (Timeout - 1) * TicksPerMs
    OBVIOUS
  <2>1. elapsed[p] + TicksPerMs > Ms(Timeout)
    BY NotEarly
  <2>2. elapsed[p] \in Nat
    BY DEF IOInv, TypeOK
  <2> QED BY <1>0, <1>1, <2>1, <2>2
<1> QED BY <1>2, <1>3, IOInvariance, PTL DEF Spec, DeadlineKept

-----------------------------------------------------------------------------
(* Whole packets.                                                          *)

\* A return after the last byte is the success of a whole packet: for a read,
\* every byte of the peer's packet has been written.
LEMMA SucceedStep ==
    ASSUME IOInv, NEW p \in Party, at[p] = "loop", Left(p) = 0, Return(p, "OK"),
           UNCHANGED dataVars
    PROVE  Exchange!Succeed(p)
<1>0. Size \in Nat
  BY DeviceIOAssumption
<1>1. call[p] \in Calls /\ completed[p][call[p]] = Size /\ Peer(p) \in Party
  BY <1>0, InCall DEF Left
<1>2. call[p] = "read" => completed[Peer(p)].write = Size
  <2>1. /\ stream[p] \in Seq(1..Size) /\ completed[Peer(p)].write \in 0..Size
    BY <1>1 DEF IOInv, TypeOK, Calls
  <2>2. Len(stream[p]) = completed[Peer(p)].write - completed[p].read /\ Len(stream[p]) \in Nat
    BY <2>1 DEF IOInv, DataInv
  <2> QED BY <1>0, <1>1, <2>1, <2>2
<1>3. completed' = completed
  BY DEF dataVars
<1>4. result' = [result EXCEPT ![p][call[p]] = "OK"] /\ call' = [call EXCEPT ![p] = After(p, call[p])]
  BY DEF Return
<1>5. call[p] # "done" /\ After(p, call[p]) = Exchange!After(p, call[p]) /\ Peer(p) = Exchange!Peer(p)
  BY <1>1 DEF Calls, After, First, Exchange!After, Exchange!First, Peer, Exchange!Peer
<1> QED BY ZenonT(30), <1>1, <1>2, <1>3, <1>4, <1>5 DEF Exchange!Succeed, Calls

\* A call that ends otherwise has not handed its packet over.
LEMMA FailStep ==
    ASSUME IOInv, NEW p \in Party, at[p] # "done", completed[p][call[p]] < Size,
           NEW status \in {"ERROR", "TIMEOUT", "STOPPED"}, Return(p, status), UNCHANGED dataVars
    PROVE  Exchange!Fail(p)
<1>0. Size \in Nat
  BY DeviceIOAssumption
<1>1. call[p] \in Calls /\ completed[p][call[p]] \in 0..Size
  BY InCall
<1>2. completed' = completed
  BY DEF dataVars
<1>3. result' = [result EXCEPT ![p][call[p]] = status] /\ call' = [call EXCEPT ![p] = "done"]
  BY ZenonT(30) DEF Return
<1>4. call[p] = "write" => completed[p].write # Size
  BY <1>0, <1>1
<1> QED BY ZenonT(30), <1>1, <1>2, <1>3, <1>4 DEF Exchange!Fail, Exchange!Failures, Calls

\* A step inside a call changes nothing of the exchange but, with the last
\* byte of a send, that the packet is handed over.
LEMMA QuietStep ==
    ASSUME UNCHANGED callVars, \A p \in Party : completed'[p].write = completed[p].write
    PROVE  UNCHANGED Exchange!vars
  BY DEF callVars, Exchange!vars

\* A send hands over the packet or is invisible to the exchange.
LEMMA SendStep ==
    ASSUME IOInv, NEW p \in Party, Write(p), NEW n \in Nat, n > 0,
           completed' = [completed EXCEPT ![p].write = @ + n], UNCHANGED callVars
    PROVE  Exchange!Handover(p) \/ UNCHANGED Exchange!vars
<1>0. Size \in Nat
  BY DeviceIOAssumption
<1>1. call[p] = "write" /\ completed[p].write < Size
  BY DEF Write, IOInv, CallInv
<1>2. /\ completed'[p].write = completed[p].write + n
      /\ \A q \in Party : q # p => completed'[q] = completed[q]
  BY DEF IOInv, TypeOK, Calls
<1>3. CASE completed'[p].write = Size
  <2>1. [q \in Party |-> completed'[q].write = Size]
          = [[q \in Party |-> completed[q].write = Size] EXCEPT ![p] = TRUE]
    BY ZenonT(30), <1>2, <1>3
  <2>2. completed[p].write # Size
    BY <1>0, <1>1
  <2> QED BY ZenonT(30), <1>1, <2>1, <2>2 DEF Exchange!Handover, callVars
<1>4. CASE completed'[p].write # Size
  <2>1. completed[p].write # Size
    BY <1>0, <1>1
  <2>2. [q \in Party |-> completed'[q].write = Size] = [q \in Party |-> completed[q].write = Size]
    BY <1>2, <1>4, <2>1
  <2> QED BY <2>2 DEF Exchange!vars, callVars
<1> QED BY <1>3, <1>4

\* Every step of the byte loops is a step of the exchange or none.
LEMMA ExchangeStep == IOInv /\ [Next]_vars => [Exchange!Next]_(Exchange!vars)
<1> SUFFICES ASSUME IOInv, [Next]_vars PROVE Exchange!Next \/ UNCHANGED Exchange!vars
  OBVIOUS
<1>0. Size \in Nat \ {0} /\ Party = Exchange!Party
  BY DeviceIOAssumption DEF Party, Exchange!Party
<1>1. ASSUME NEW p \in Party, at[p] # "done", completed[p][call[p]] < Size,
             NEW status \in {"ERROR", "TIMEOUT", "STOPPED"}, Return(p, status), UNCHANGED dataVars
      PROVE  Exchange!Next
  BY <1>0, <1>1, FailStep DEF Exchange!Next
<1>2. ASSUME UNCHANGED callVars, UNCHANGED dataVars
      PROVE  UNCHANGED Exchange!vars
  BY <1>2, QuietStep DEF dataVars
<1>3. \A p \in Party : at[p] \in {"begin", "transfer", "wait", "armed", "poll"}
                         => completed[p][call[p]] < Size
  BY <1>0 DEF IOInv, CallInv
<1>4. ASSUME NEW p \in Party, Begin(p) PROVE Exchange!Next \/ UNCHANGED Exchange!vars
  BY <1>1, <1>2, <1>3, <1>4 DEF Begin, Continue
<1>5. ASSUME NEW p \in Party, Loop(p) PROVE Exchange!Next \/ UNCHANGED Exchange!vars
  <2>1. at[p] = "loop" /\ UNCHANGED dataVars
    BY <1>5 DEF Loop
  <2>2. CASE Left(p) = 0 /\ Return(p, "OK")
    BY <1>0, <2>1, <2>2, SucceedStep DEF Exchange!Next
  <2>3. CASE Left(p) > 0 /\ stop_flag[p] /\ Return(p, "STOPPED")
    <3>1. completed[p][call[p]] < Size
      BY <1>0, <2>1, <2>3, InCall DEF Left
    <3> QED BY <1>1, <2>1, <2>3, <3>1
  <2>4. CASE Continue(p, "transfer")
    BY <1>2, <2>1, <2>4 DEF Continue
  <2> QED BY <1>5, <2>2, <2>3, <2>4 DEF Loop
<1>6. ASSUME NEW p \in Party, Read(p) PROVE Exchange!Next \/ UNCHANGED Exchange!vars
  <2>1. at[p] = "transfer"
    BY <1>6 DEF Read
  <2>2. ASSUME NEW n, Take(p, n), Continue(p, "loop") PROVE UNCHANGED Exchange!vars
    <3>1. \A q \in Party : completed'[q].write = completed[q].write
      BY <2>2 DEF Take, IOInv, TypeOK, Calls
    <3> QED BY <2>2, <3>1, QuietStep DEF Continue
  <2>3. CASE EndOfStream(p) /\ UNCHANGED dataVars
    BY <1>1, <1>3, <2>1, <2>3 DEF EndOfStream
  <2>4. CASE Continue(p, "wait") /\ UNCHANGED dataVars
    BY <1>2, <2>4 DEF Continue
  <2> QED BY ZenonT(30), <1>6, <2>2, <2>3, <2>4 DEF Read
<1>7. ASSUME NEW p \in Party, Write(p) PROVE Exchange!Next \/ UNCHANGED Exchange!vars
  <2>1. at[p] = "transfer"
    BY <1>7 DEF Write
  <2>2. ASSUME NEW n \in 1..Smaller(Left(p), Room(p)),
               completed' = [completed EXCEPT ![p].write = @ + n], Continue(p, "loop")
        PROVE  Exchange!Next \/ UNCHANGED Exchange!vars
    <3>1. n \in Nat /\ n > 0
      BY <2>2
    <3> QED BY ZenonT(30), <1>0, <1>7, <2>2, <3>1, SendStep DEF Continue, Exchange!Next
  <2>3. CASE Return(p, "ERROR") /\ UNCHANGED dataVars
    BY <1>1, <1>3, <2>1, <2>3
  <2>4. CASE Continue(p, "wait") /\ UNCHANGED dataVars
    BY <1>2, <2>4 DEF Continue
  <2> QED BY <1>7, <2>2, <2>3, <2>4 DEF Write
<1>8. ASSUME NEW p \in Party, Wait(p) PROVE Exchange!Next \/ UNCHANGED Exchange!vars
  BY <1>1, <1>2, <1>3, <1>8 DEF Wait, Continue
<1>9. ASSUME NEW p \in Party, Sleep(p) \/ Signal(p) PROVE UNCHANGED Exchange!vars
  BY <1>2, <1>9 DEF Sleep, Signal, Continue
<1>10. ASSUME NEW p \in Party, Wake(p) PROVE Exchange!Next \/ UNCHANGED Exchange!vars
  BY <1>1, <1>2, <1>3, <1>10 DEF Wake, Continue
<1>11. CASE Shutdown
  BY <1>11 DEF Shutdown, dataVars, Exchange!vars
<1>12. CASE Tick \/ Terminated \/ UNCHANGED vars
  BY <1>2, <1>12 DEF Tick, Terminated, vars
<1> QED BY <1>4, <1>5, <1>6, <1>7, <1>8, <1>9, <1>10, <1>11, <1>12 DEF Next, Step

\* qcpu_device_write_all and qcpu_device_read_all implement the exchange of
\* whole packets that the adapter and the daemon are modelled with: a packet is
\* handed over entirely or its sender's call fails, and no reader's call
\* succeeds on a part of one.
THEOREM PacketsWholeHolds == Spec => PacketsWhole
<1>1. Init => Exchange!Init
  <2> SUFFICES ASSUME Init PROVE Exchange!Init
    OBVIOUS
  <2>1. \A p \in Party : (completed[p].write = Size) = FALSE
    BY DeviceIOAssumption DEF Init, Calls
  <2>2. Party = Exchange!Party /\ Calls = Exchange!Calls
        /\ \A p \in Party : First(p) = Exchange!First(p)
    BY DEF Party, Exchange!Party, Calls, Exchange!Calls, First, Exchange!First
  <2> QED BY ZenonT(30), <2>1, <2>2 DEF Init, Exchange!Init
<1> QED BY <1>1, ExchangeStep, IOInvariance, PTL DEF Spec, PacketsWhole, Exchange!Spec
=============================================================================
