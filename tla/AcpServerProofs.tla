--------------------------- MODULE AcpServerProofs ---------------------------
(***************************************************************************)
(* Proofs about AcpServer, for every set of clients, every number of       *)
(* requests and terminals, and every capacity of the transports.           *)
(*                                                                         *)
(* A terminal is created in several steps by one client while Stop may     *)
(* already release it; the invariant says what the other clients can know  *)
(* of it meanwhile (Requests), what status, process and kill can be at     *)
(* each step (TerminalOK), and that a terminal whose creation was answered *)
(* before Stop is killed, ended or still to be released (Due).             *)
(***************************************************************************)
EXTENDS AcpServer, TLAPS

Uses(c) == at[c] \in {"terminal/wait_for_exit", "terminal/kill", "terminal/release"}
Makes(c) == at[c] \in {"start", "mark"}

\* A terminal has one creator, and requests are only about finished ones.
Requests ==
    /\ \A c \in Clients : Makes(c) \/ Uses(c) => arg[c] \in 1..used
    /\ \A c \in Clients : ~Makes(c) /\ ~Uses(c) => arg[c] = 0
    /\ \A c, d \in Clients : Makes(c) /\ arg[d] = arg[c] => d = c

\* What is known of a terminal, by status.
TerminalOK(t) ==
    /\ t > used => status[t] = "none" /\ t \notin listed /\ t \notin sweep
    /\ status[t] = "none" => t > used
    /\ status[t] \in {"none", "created"} => exitCode[t] = 0 /\ t \notin killed
    /\ status[t] = "none" => process[t] = "none"
    /\ status[t] = "created" => process[t] # "reaped"
    /\ status[t] = "running" => process[t] \in {"alive", "ended"} /\ exitCode[t] = 0
    /\ status[t] = "exited" =>
        \/ process[t] = "reaped" /\ exitCode[t] = ended[t]
        \/ process[t] \in {"alive", "ended"} /\ t \in killed /\ exitCode[t] = 0

\* What the steps of its creation have done so far.
Creation ==
    /\ \A c \in Clients : at[c] = "start" => status[arg[c]] = "created" /\ process[arg[c]] = "none"
    /\ \A c \in Clients : at[c] = "mark" => status[arg[c]] = "created" /\ process[arg[c]] \in {"alive", "ended"}
    /\ \A t \in Terminals : status[t] = "created" /\ process[t] # "none" =>
          \E c \in Clients : at[c] = "mark" /\ arg[c] = t

\* What wait_for_exit has answered.
Answered ==
    \A a \in answers : \/ process[a[1]] \in {"ended", "reaped"} /\ a[2] = ended[a[1]]
                       \/ a[1] \in killed /\ a[2] = 0

\* A running terminal that nobody has killed is listed, before Stop any and
\* then a due one, which in ReleaseAll is one still to be released.
Listed ==
    server = "running" =>
        /\ due = {} /\ sweep = {}
        /\ \A t \in Terminals : status[t] = "running" /\ t \notin killed => t \in listed
        /\ \A c \in Clients : Makes(c) => arg[c] \in listed

DueOK(t) ==
    /\ t \in 1..used
    /\ \A c \in Clients : Makes(c) => arg[c] # t
    /\ status[t] = "created" => process[t] = "none"
    /\ status[t] = "running" /\ t \notin killed =>
          t \in listed /\ (server # "shutdown" => t \in sweep)

Due == Listed /\ (\A t \in due : DueOK(t)) /\ (server = "stopped" => sweep = {})

IInv == TypeOK /\ Requests /\ Due /\ (\A t \in Terminals : TerminalOK(t)) /\ Creation /\ Answered

-----------------------------------------------------------------------------
(* Facts the steps share. *)

LEMMA Bounds ==
    /\ MaxRequests \in Nat /\ MaxQueue \in Nat /\ MaxTerminals \in Nat
    /\ Terminals \subseteq Nat \ {0} /\ 0..MaxTerminals = Terminals \cup {0}
    /\ \A n \in 0..MaxTerminals : 1..n \subseteq Terminals
    /\ \A n \in 0..MaxTerminals : n < MaxTerminals => n + 1 \in Terminals
  BY AcpBounds DEF Terminals

LoopOK ==
    /\ at \in [Clients -> {"off", "read", "closed", "initialize", "session/new", "session/set_mode",
                           "terminal/create", "skill/invoke", "store", "start", "mark", "terminal/wait_for_exit",
                           "terminal/kill", "terminal/release"}]
    /\ arg \in [Clients -> 0..MaxTerminals]
    /\ queue \in [Clients -> 0..MaxQueue] /\ quota \in 0..MaxRequests
    /\ gone \in [Clients -> BOOLEAN]

\* The loop after a response.
Back(c) ==
    /\ at' = [at EXCEPT ![c] = "read"] \/ at' = [at EXCEPT ![c] = "closed"]
    /\ arg' = [arg EXCEPT ![c] = 0]
    /\ UNCHANGED <<quota, gone>>

LEMMA Response ==
    ASSUME TypeOK, NEW c \in Clients, Responded(c)
    PROVE  Back(c) /\ LoopOK'
<1>1. PICK next \in {"read", "closed"} :
        /\ at' = [at EXCEPT ![c] = next]
        /\ queue' = [queue EXCEPT ![c] = IF next = "closed" THEN 0 ELSE @]
  BY DEF Responded
<1>2. Back(c)
  BY <1>1 DEF Responded, Back
<1>3. arg' \in [Clients -> 0..MaxTerminals] /\ queue' \in [Clients -> 0..MaxQueue]
  BY <1>1, <1>2, Bounds DEF Back, TypeOK
<1> QED  BY <1>1, <1>2, <1>3 DEF Back, TypeOK, LoopOK

\* Every step types its variables.
LEMMA TypeStep ==
    ASSUME TypeOK, Requests, [Next]_vars
    PROVE  TypeOK'
<1> USE DEF TypeOK, session, loop, terminal
<1>1. CASE \E c \in Clients : Connect(c)
  BY <1>1 DEF Connect
<1>2. CASE \E c \in Clients : Send(c)
  BY <1>2, Bounds DEF Send
<1>3. CASE \E c \in Clients : Disconnect(c)
  BY <1>3 DEF Disconnect
<1>4. CASE \E c \in Clients : Read(c)
  BY <1>4, Bounds DEF Read, Known
<1>5. CASE \E c \in Clients : ReadClosed(c)
  BY <1>5 DEF ReadClosed
<1>6. CASE \E c \in Clients : HandleInitialize(c)
  BY <1>6, Response DEF HandleInitialize, LoopOK
<1>7. CASE \E c \in Clients : HandleMode(c)
  BY <1>7, Response DEF HandleMode, LoopOK
<1>8. CASE \E c \in Clients : CheckPermission(c)
  <2>1. PICK c \in Clients : CheckPermission(c)
    BY <1>8
  <2>2. CASE at' = [at EXCEPT ![c] = "store"] /\ UNCHANGED <<arg, queue, quota, gone>>
    BY <2>1, <2>2 DEF CheckPermission
  <2>3. CASE Responded(c)
    BY <2>1, <2>3, Response DEF CheckPermission, LoopOK
  <2> QED  BY <2>1, <2>2, <2>3 DEF CheckPermission
<1>9. CASE \E c \in Clients : Store(c)
  <2>1. PICK c \in Clients : Store(c)
    BY <1>9
  <2>2. used + 1 \in Terminals /\ used + 1 \in 0..MaxTerminals
    BY <2>1, Bounds DEF Store
  <2> QED  BY <2>1, <2>2 DEF Store
<1>10. CASE \E c \in Clients : StartCommand(c)
  <2>1. PICK c \in Clients : StartCommand(c)
    BY <1>10
  <2>2. CASE /\ process' = [process EXCEPT ![arg[c]] = "alive"]
             /\ at' = [at EXCEPT ![c] = "mark"]
             /\ UNCHANGED <<listed, arg, queue, quota, gone>>
    BY <2>1, <2>2 DEF StartCommand, Requests, Makes
  <2>3. CASE /\ Responded(c)
             /\ listed' = listed \ {arg[c]} /\ UNCHANGED process
    BY <2>1, <2>3, Response DEF StartCommand, LoopOK
  <2> QED  BY <2>1, <2>2, <2>3 DEF StartCommand
<1>11. CASE \E c \in Clients : MarkRunning(c)
  BY <1>11, Response, Bounds DEF MarkRunning, LoopOK, Requests, Makes
<1>12. CASE \E c \in Clients : WaitReturns(c)
  BY <1>12, Response, Bounds DEF WaitReturns, LoopOK, Requests, Uses
<1>13. CASE \E c \in Clients : WaitFails(c)
  BY <1>13, Response DEF WaitFails, LoopOK
<1>14. CASE \E c \in Clients : HandleKill(c)
  <2>1. PICK c \in Clients : HandleKill(c)
    BY <1>14
  <2>2. arg[c] \in Terminals
    BY <2>1, Bounds DEF HandleKill, Requests, Makes, Uses
  <2>3. LoopOK'
    BY <2>1, Response DEF HandleKill
  <2> QED  BY <2>1, <2>2, <2>3 DEF HandleKill, LoopOK
<1>15. CASE \E c \in Clients : HandleRelease(c)
  <2>1. PICK c \in Clients : HandleRelease(c)
    BY <1>15
  <2>2. arg[c] \in Terminals
    BY <2>1, Bounds DEF HandleRelease, Requests, Makes, Uses
  <2>3. LoopOK'
    BY <2>1, Response DEF HandleRelease
  <2> QED  BY <2>1, <2>2, <2>3 DEF HandleRelease, Release, LoopOK
<1>16. CASE \E t \in Terminals : ProcessEnds(t)
  BY <1>16 DEF ProcessEnds, ExitCodes
<1>17. CASE \E t \in Terminals : Reap(t)
  BY <1>17 DEF Reap
<1>18. CASE \E t \in Terminals : ReleaseOne(t)
  BY <1>18 DEF ReleaseOne, Release
<1>19. CASE Stop
  <2>1. 1..used \subseteq Terminals
    BY Bounds
  <2> QED  BY <1>19, <2>1 DEF Stop, Known
<1>20. CASE Stopped
  BY <1>20 DEF Stopped
<1>22. CASE PlainRequest \/ PlainEnds
  BY <1>22 DEF PlainRequest, PlainEnds
<1>23. CASE ShutdownDone
  BY <1>23 DEF ShutdownDone
<1>21. CASE UNCHANGED vars
  BY <1>21 DEF vars
<1> QED
  BY <1>1, <1>2, <1>3, <1>4, <1>5, <1>6, <1>7, <1>8, <1>9, <1>10, <1>11, <1>12, <1>13, <1>14, <1>15, <1>16, <1>17, <1>18, <1>19, <1>20, <1>21, <1>22, <1>23
     DEF Next, Handle

\* A new terminal's number is new, and requests name finished ones.
LEMMA RequestsStep ==
    ASSUME TypeOK, Requests, [Next]_vars
    PROVE  Requests'
<1> USE DEF Requests, Makes, Uses, TypeOK, session, loop, terminal
<1>1. CASE \E c \in Clients : Connect(c)
  BY <1>1 DEF Connect
<1>2. CASE \E c \in Clients : Send(c)
  BY <1>2 DEF Send
<1>3. CASE \E c \in Clients : Disconnect(c)
  BY <1>3 DEF Disconnect
<1>4. CASE \E c \in Clients : Read(c)
  BY <1>4, Bounds DEF Read, Known, Creating
<1>5. CASE \E c \in Clients : ReadClosed(c)
  BY <1>5 DEF ReadClosed
<1>6. CASE \E c \in Clients : HandleInitialize(c)
  BY <1>6, Response DEF HandleInitialize, Back
<1>7. CASE \E c \in Clients : HandleMode(c)
  BY <1>7, Response DEF HandleMode, Back
<1>8. CASE \E c \in Clients : CheckPermission(c)
  <2>1. PICK c \in Clients : CheckPermission(c)
    BY <1>8
  <2>2. CASE at' = [at EXCEPT ![c] = "store"] /\ UNCHANGED <<arg, queue, quota, gone>>
    BY <2>1, <2>2 DEF CheckPermission
  <2>3. CASE Responded(c)
    BY <2>1, <2>3, Response DEF CheckPermission, Back
  <2> QED  BY <2>1, <2>2, <2>3 DEF CheckPermission
<1>9. CASE \E c \in Clients : Store(c)
  BY <1>9, Bounds DEF Store
<1>10. CASE \E c \in Clients : StartCommand(c)
  <2>1. PICK c \in Clients : StartCommand(c)
    BY <1>10
  <2>2. CASE /\ process' = [process EXCEPT ![arg[c]] = "alive"]
             /\ at' = [at EXCEPT ![c] = "mark"]
             /\ UNCHANGED <<listed, arg, queue, quota, gone>>
    BY <2>1, <2>2 DEF StartCommand
  <2>3. CASE /\ Responded(c)
             /\ listed' = listed \ {arg[c]} /\ UNCHANGED process
    BY <2>1, <2>3, Response DEF StartCommand, Back
  <2> QED  BY <2>1, <2>2, <2>3 DEF StartCommand
<1>11. CASE \E c \in Clients : MarkRunning(c)
  BY <1>11, Response DEF MarkRunning, Back
<1>12. CASE \E c \in Clients : WaitReturns(c)
  BY <1>12, Response DEF WaitReturns, Back
<1>13. CASE \E c \in Clients : WaitFails(c)
  BY <1>13, Response DEF WaitFails, Back
<1>14. CASE \E c \in Clients : HandleKill(c)
  BY <1>14, Response DEF HandleKill, Back
<1>15. CASE \E c \in Clients : HandleRelease(c)
  BY <1>15, Response DEF HandleRelease, Release, Back
<1>16. CASE \E t \in Terminals : ProcessEnds(t)
  BY <1>16 DEF ProcessEnds
<1>17. CASE \E t \in Terminals : Reap(t)
  BY <1>17 DEF Reap
<1>18. CASE \E t \in Terminals : ReleaseOne(t)
  BY <1>18 DEF ReleaseOne, Release
<1>19. CASE Stop
  BY <1>19 DEF Stop
<1>20. CASE Stopped
  BY <1>20 DEF Stopped
<1>22. CASE PlainRequest \/ PlainEnds
  BY <1>22 DEF PlainRequest, PlainEnds
<1>23. CASE ShutdownDone
  BY <1>23 DEF ShutdownDone
<1>21. CASE UNCHANGED vars
  BY <1>21 DEF vars
<1> QED
  BY <1>1, <1>2, <1>3, <1>4, <1>5, <1>6, <1>7, <1>8, <1>9, <1>10, <1>11, <1>12, <1>13, <1>14, <1>15, <1>16, <1>17, <1>18, <1>19, <1>20, <1>21, <1>22, <1>23
     DEF Next, Handle

\* Status, exit code, process and kills stay together.
LEMMA TerminalStep ==
    ASSUME TypeOK, Requests, Creation, \A t \in Terminals : TerminalOK(t), [Next]_vars
    PROVE  \A t \in Terminals : TerminalOK(t)'
<1> USE DEF TerminalOK, Requests, Makes, Uses, TypeOK, session, loop, terminal
<1>1. CASE \E c \in Clients : Connect(c)
  BY <1>1 DEF Connect
<1>2. CASE \E c \in Clients : Send(c)
  BY <1>2 DEF Send
<1>3. CASE \E c \in Clients : Disconnect(c)
  BY <1>3 DEF Disconnect
<1>4. CASE \E c \in Clients : Read(c)
  BY <1>4 DEF Read
<1>5. CASE \E c \in Clients : ReadClosed(c)
  BY <1>5 DEF ReadClosed
<1>6. CASE \E c \in Clients : HandleInitialize(c)
  BY <1>6 DEF HandleInitialize
<1>7. CASE \E c \in Clients : HandleMode(c)
  BY <1>7 DEF HandleMode
<1>8. CASE \E c \in Clients : CheckPermission(c)
  BY <1>8 DEF CheckPermission
<1>9. CASE \E c \in Clients : Store(c)
  BY <1>9, Bounds DEF Store
<1>10. CASE \E c \in Clients : StartCommand(c)
  BY <1>10, Bounds DEF StartCommand, Creation
<1>11. CASE \E c \in Clients : MarkRunning(c)
  BY <1>11, Bounds DEF MarkRunning, Creation
<1>12. CASE \E c \in Clients : WaitReturns(c)
  BY <1>12 DEF WaitReturns
<1>13. CASE \E c \in Clients : WaitFails(c)
  BY <1>13 DEF WaitFails
<1>14. CASE \E c \in Clients : HandleKill(c)
  BY <1>14 DEF HandleKill
<1>15. CASE \E c \in Clients : HandleRelease(c)
  BY <1>15 DEF HandleRelease, Release
<1>16. CASE \E t \in Terminals : ProcessEnds(t)
  BY <1>16 DEF ProcessEnds
<1>17. CASE \E t \in Terminals : Reap(t)
  BY <1>17 DEF Reap
<1>18. CASE \E t \in Terminals : ReleaseOne(t)
  BY <1>18 DEF ReleaseOne, Release
<1>19. CASE Stop
  BY <1>19 DEF Stop
<1>20. CASE Stopped
  BY <1>20 DEF Stopped
<1>22. CASE PlainRequest \/ PlainEnds
  BY <1>22 DEF PlainRequest, PlainEnds
<1>23. CASE ShutdownDone
  BY <1>23 DEF ShutdownDone
<1>21. CASE UNCHANGED vars
  BY <1>21 DEF vars
<1> QED
  BY <1>1, <1>2, <1>3, <1>4, <1>5, <1>6, <1>7, <1>8, <1>9, <1>10, <1>11, <1>12, <1>13, <1>14, <1>15, <1>16, <1>17, <1>18, <1>19, <1>20, <1>21, <1>22, <1>23
     DEF Next, Handle

\* A terminal whose process runs and that is only created has its creator.
LEMMA CreationStep ==
    ASSUME TypeOK, Requests, Creation, \A t \in Terminals : TerminalOK(t), [Next]_vars
    PROVE  Creation'
<1> USE DEF Creation, TerminalOK, Requests, Makes, Uses, TypeOK, session, loop, terminal
<1>1. CASE \E c \in Clients : Connect(c)
  BY <1>1 DEF Connect
<1>2. CASE \E c \in Clients : Send(c)
  BY <1>2 DEF Send
<1>3. CASE \E c \in Clients : Disconnect(c)
  BY <1>3 DEF Disconnect
<1>4. CASE \E c \in Clients : Read(c)
  BY <1>4 DEF Read
<1>5. CASE \E c \in Clients : ReadClosed(c)
  BY <1>5 DEF ReadClosed
<1>6. CASE \E c \in Clients : HandleInitialize(c)
  BY <1>6, Response DEF HandleInitialize, Back
<1>7. CASE \E c \in Clients : HandleMode(c)
  BY <1>7, Response DEF HandleMode, Back
<1>8. CASE \E c \in Clients : CheckPermission(c)
  <2>1. PICK c \in Clients : CheckPermission(c)
    BY <1>8
  <2>2. CASE at' = [at EXCEPT ![c] = "store"] /\ UNCHANGED <<arg, queue, quota, gone>>
    BY <2>1, <2>2 DEF CheckPermission
  <2>3. CASE Responded(c)
    BY <2>1, <2>3, Response DEF CheckPermission, Back
  <2> QED  BY <2>1, <2>2, <2>3 DEF CheckPermission
<1>9. CASE \E c \in Clients : Store(c)
  BY <1>9, Bounds DEF Store
<1>10. CASE \E c \in Clients : StartCommand(c)
  <2>1. PICK c \in Clients : StartCommand(c)
    BY <1>10
  <2>2. CASE /\ process' = [process EXCEPT ![arg[c]] = "alive"]
             /\ at' = [at EXCEPT ![c] = "mark"]
             /\ UNCHANGED <<listed, arg, queue, quota, gone>>
    <3>1. arg[c] \in Terminals
      BY <2>1, Bounds DEF StartCommand
    <3>2. \A d \in Clients : at[d] = "mark" => d # c /\ arg[d] # arg[c] /\ at'[d] = "mark"
      BY <2>1, <2>2 DEF StartCommand
    <3>3. \A d \in Clients : at[d] = "start" /\ d # c => arg[d] # arg[c]
      BY <2>1 DEF StartCommand
    <3>4. at'[c] = "mark" /\ arg'[c] = arg[c]
      BY <2>2
    <3> QED  BY <2>1, <2>2, <3>1, <3>2, <3>3, <3>4 DEF StartCommand
  <2>3. CASE /\ Responded(c)
             /\ listed' = listed \ {arg[c]} /\ UNCHANGED process
    BY <2>1, <2>3, Response DEF StartCommand, Back
  <2> QED  BY <2>1, <2>2, <2>3 DEF StartCommand
<1>11. CASE \E c \in Clients : MarkRunning(c)
  BY <1>11, Response DEF MarkRunning, Back
<1>12. CASE \E c \in Clients : WaitReturns(c)
  BY <1>12, Response DEF WaitReturns, Back
<1>13. CASE \E c \in Clients : WaitFails(c)
  BY <1>13, Response DEF WaitFails, Back
<1>14. CASE \E c \in Clients : HandleKill(c)
  <2>1. PICK c \in Clients : HandleKill(c)
    BY <1>14
  <2>2. arg[c] \in Terminals /\ \A d \in Clients : Makes(d) => arg[d] # arg[c]
    BY <2>1, Bounds DEF HandleKill
  <2>3. \A d \in Clients : (Makes(d) => at'[d] = at[d] /\ arg'[d] = arg[d]) /\ (~Makes(d) => ~Makes(d)')
    BY <2>1, Response DEF HandleKill, Back
  <2>4. \A t \in Terminals : status'[t] = status[t] \/ (t = arg[c] /\ status'[t] = "exited")
    <3> HIDE DEF Creation, TerminalOK, Requests, TypeOK
    <3>1. \/ status' = [status EXCEPT ![arg[c]] = "exited"]
          \/ status' = status
      BY <2>1 DEF HandleKill
    <3> QED  BY <2>2, <3>1 DEF TypeOK
  <2>5. UNCHANGED process
    BY <2>1 DEF HandleKill
  <2>6. \A d \in Clients : Makes(d) => status'[arg[d]] = status[arg[d]]
    <3>1. \A d \in Clients : Makes(d) => arg[d] \in Terminals
      BY Bounds
    <3> HIDE DEF Creation, TerminalOK, Requests, TypeOK, Makes
    <3> QED  BY <2>2, <2>4, <3>1
  <2>7. \A d \in Clients : at'[d] \in {"start", "mark"} => at'[d] = at[d] /\ arg'[d] = arg[d] /\ Makes(d)
    BY ONLY <2>3 DEF Makes
  <2> HIDE DEF TerminalOK, Requests, TypeOK
  <2>8. \A d \in Clients : at'[d] = "start" => status'[arg'[d]] = "created" /\ process'[arg'[d]] = "none"
    BY <2>5, <2>6, <2>7
  <2>9. \A d \in Clients : at'[d] = "mark" => status'[arg'[d]] = "created" /\ process'[arg'[d]] \in {"alive", "ended"}
    BY <2>5, <2>6, <2>7
  <2>10. \A t \in Terminals : status'[t] = "created" /\ process'[t] # "none" =>
            \E d \in Clients : at'[d] = "mark" /\ arg'[d] = t
    <3> SUFFICES ASSUME NEW t \in Terminals, status'[t] = "created", process'[t] # "none"
                 PROVE  \E d \in Clients : at'[d] = "mark" /\ arg'[d] = t
      OBVIOUS
    <3>1. PICK d \in Clients : at[d] = "mark" /\ arg[d] = t
      BY <2>4, <2>5
    <3> QED  BY <2>3, <3>1
  <2> QED  BY <2>8, <2>9, <2>10
<1>15. CASE \E c \in Clients : HandleRelease(c)
  BY <1>15, Response DEF HandleRelease, Release, Back
<1>16. CASE \E t \in Terminals : ProcessEnds(t)
  BY <1>16 DEF ProcessEnds
<1>17. CASE \E t \in Terminals : Reap(t)
  BY <1>17 DEF Reap
<1>18. CASE \E t \in Terminals : ReleaseOne(t)
  BY <1>18 DEF ReleaseOne, Release
<1>19. CASE Stop
  BY <1>19 DEF Stop
<1>20. CASE Stopped
  BY <1>20 DEF Stopped
<1>22. CASE PlainRequest \/ PlainEnds
  BY <1>22 DEF PlainRequest, PlainEnds
<1>23. CASE ShutdownDone
  BY <1>23 DEF ShutdownDone
<1>21. CASE UNCHANGED vars
  BY <1>21 DEF vars
<1> QED
  BY <1>1, <1>2, <1>3, <1>4, <1>5, <1>6, <1>7, <1>8, <1>9, <1>10, <1>11, <1>12, <1>13, <1>14, <1>15, <1>16, <1>17, <1>18, <1>19, <1>20, <1>21, <1>22, <1>23
     DEF Next, Handle

\* An answer stays true: what a process ended with does not change.
LEMMA AnsweredStep ==
    ASSUME TypeOK, Requests, Creation, Answered, \A t \in Terminals : TerminalOK(t), [Next]_vars
    PROVE  Answered'
<1> USE DEF Answered, TerminalOK, Requests, Makes, Uses, TypeOK, session, loop, terminal
<1>1. CASE \E c \in Clients : Connect(c)
  BY <1>1 DEF Connect
<1>2. CASE \E c \in Clients : Send(c)
  BY <1>2 DEF Send
<1>3. CASE \E c \in Clients : Disconnect(c)
  BY <1>3 DEF Disconnect
<1>4. CASE \E c \in Clients : Read(c)
  BY <1>4 DEF Read
<1>5. CASE \E c \in Clients : ReadClosed(c)
  BY <1>5 DEF ReadClosed
<1>6. CASE \E c \in Clients : HandleInitialize(c)
  BY <1>6 DEF HandleInitialize
<1>7. CASE \E c \in Clients : HandleMode(c)
  BY <1>7 DEF HandleMode
<1>8. CASE \E c \in Clients : CheckPermission(c)
  BY <1>8 DEF CheckPermission
<1>9. CASE \E c \in Clients : Store(c)
  BY <1>9, Bounds DEF Store
<1>10. CASE \E c \in Clients : StartCommand(c)
  BY <1>10, Bounds DEF StartCommand, Creation
<1>11. CASE \E c \in Clients : MarkRunning(c)
  BY <1>11 DEF MarkRunning
<1>12. CASE \E c \in Clients : WaitReturns(c)
  BY <1>12, Bounds DEF WaitReturns
<1>13. CASE \E c \in Clients : WaitFails(c)
  BY <1>13 DEF WaitFails
<1>14. CASE \E c \in Clients : HandleKill(c)
  BY <1>14 DEF HandleKill
<1>15. CASE \E c \in Clients : HandleRelease(c)
  BY <1>15 DEF HandleRelease, Release
<1>16. CASE \E t \in Terminals : ProcessEnds(t)
  BY <1>16 DEF ProcessEnds
<1>17. CASE \E t \in Terminals : Reap(t)
  BY <1>17 DEF Reap
<1>18. CASE \E t \in Terminals : ReleaseOne(t)
  BY <1>18 DEF ReleaseOne, Release
<1>19. CASE Stop
  BY <1>19 DEF Stop
<1>20. CASE Stopped
  BY <1>20 DEF Stopped
<1>22. CASE PlainRequest \/ PlainEnds
  BY <1>22 DEF PlainRequest, PlainEnds
<1>23. CASE ShutdownDone
  BY <1>23 DEF ShutdownDone
<1>21. CASE UNCHANGED vars
  BY <1>21 DEF vars
<1> QED
  BY <1>1, <1>2, <1>3, <1>4, <1>5, <1>6, <1>7, <1>8, <1>9, <1>10, <1>11, <1>12, <1>13, <1>14, <1>15, <1>16, <1>17, <1>18, <1>19, <1>20, <1>21, <1>22, <1>23
     DEF Next, Handle

\* A kill, a release or ReleaseAll comes to every due terminal.
LEMMA DueStep ==
    ASSUME TypeOK, Requests, Creation, Due, \A t \in Terminals : TerminalOK(t), [Next]_vars
    PROVE  Due'
<1> USE DEF session, loop, terminal
<1>0. /\ used \in 0..MaxTerminals /\ listed \subseteq Terminals /\ due \subseteq 1..used
      /\ 1..used \subseteq Terminals /\ 0 \notin Terminals
      /\ \A c \in Clients : Makes(c) => arg[c] \in Terminals
  BY Bounds DEF TypeOK, Due, DueOK, Requests
\* Steps that leave the terminals and Stop alone and start no creation.
<1>1. ASSUME UNCHANGED <<server, sweep, due, used, listed, killed>>,
             \A c \in Clients : Makes(c)' => Makes(c) /\ arg'[c] = arg[c],
             \A t \in Terminals : /\ status'[t] \in {"running", "created"} => status'[t] = status[t]
                                  /\ status'[t] = "created" /\ process[t] = "none" => process'[t] = "none"
      PROVE  Due'
  BY <1>0, <1>1 DEF Due, Listed, DueOK
<1>2. ASSUME NEW c \in Clients, Responded(c)
      PROVE  \A d \in Clients : Makes(d)' => Makes(d) /\ arg'[d] = arg[d] /\ d # c
  BY <1>2, Response DEF Back, Makes, TypeOK
<1>3. CASE \E c \in Clients : Connect(c) \/ Send(c) \/ Disconnect(c) \/ Read(c) \/ ReadClosed(c)
  <2>1. \A c \in Clients : Makes(c)' => Makes(c) /\ arg'[c] = arg[c]
    BY <1>3 DEF Connect, Send, Disconnect, Read, ReadClosed, Makes, TypeOK
  <2> QED  BY <1>1, <1>3, <2>1 DEF Connect, Send, Disconnect, Read, ReadClosed
<1>4. CASE \E c \in Clients : HandleInitialize(c) \/ HandleMode(c) \/ WaitReturns(c) \/ WaitFails(c)
  BY <1>1, <1>2, <1>4 DEF HandleInitialize, HandleMode, WaitReturns, WaitFails
<1>5. CASE \E c \in Clients : CheckPermission(c)
  <2>1. PICK c \in Clients : CheckPermission(c)
    BY <1>5
  <2>2. \A d \in Clients : Makes(d)' => Makes(d) /\ arg'[d] = arg[d]
    BY <1>2, <2>1 DEF CheckPermission, Makes, TypeOK
  <2> QED  BY <1>1, <2>1, <2>2 DEF CheckPermission
<1>6. CASE \E c \in Clients : Store(c)
  <2>1. PICK c \in Clients : Store(c)
    BY <1>6
  <2> DEFINE n == used + 1
  <2>2. n \in Terminals /\ n \notin 1..used /\ 1..used \subseteq 1..n /\ used' = n /\ used \in Nat
    BY <1>0, <2>1, Bounds DEF Store
  <2>3. /\ listed' = listed \cup {n} /\ status' = [status EXCEPT ![n] = "created"]
        /\ UNCHANGED <<server, due, killed, process>> /\ sweep \subseteq sweep'
        /\ server # "releasing" => sweep' = sweep
    BY <2>1 DEF Store
  <2>4. \A d \in Clients : Makes(d)' => (d = c /\ arg'[d] = n) \/ (Makes(d) /\ arg'[d] = arg[d])
    BY <2>1 DEF Store, Makes, TypeOK
  <2>5. \A t \in Terminals : status'[t] = IF t = n THEN "created" ELSE status[t]
    BY <2>2, <2>3 DEF TypeOK
  <2> HIDE DEF n
  <2>6. Listed'
    BY <2>3, <2>4, <2>5 DEF Due, Listed
  <2>7. ASSUME NEW t \in due PROVE DueOK(t)'
    <3>1. t \in 1..n /\ t # n /\ t \in Terminals /\ DueOK(t)
      BY <1>0, <2>2 DEF Due
    <3> QED  BY <2>2, <2>3, <2>4, <2>5, <3>1 DEF DueOK
  <2> QED  BY <2>3, <2>6, <2>7 DEF Due
<1>7. CASE \E c \in Clients : StartCommand(c)
  <2>1. PICK c \in Clients : StartCommand(c)
    BY <1>7
  <2>2. /\ Makes(c) /\ status[arg[c]] = "created" /\ arg[c] \in Terminals
        /\ UNCHANGED <<server, sweep, due, used, killed, status>>
    BY <1>0, <2>1 DEF StartCommand, Makes, Creation
  <2>3. CASE /\ process' = [process EXCEPT ![arg[c]] = "alive"]
             /\ at' = [at EXCEPT ![c] = "mark"]
             /\ UNCHANGED <<listed, arg, queue, quota, gone>>
    <3>1. \A d \in Clients : Makes(d)' => Makes(d)
      BY <2>2, <2>3 DEF Makes, TypeOK
    <3>2. \A t \in due : t # arg[c] /\ process'[t] = process[t]
      BY <1>0, <2>2, <2>3 DEF Due, DueOK, TypeOK
    <3> QED  BY <2>2, <2>3, <3>1, <3>2 DEF Due, Listed, DueOK
  <2>4. CASE Responded(c) /\ listed' = listed \ {arg[c]} /\ UNCHANGED process
    <3>1. \A d \in Clients : Makes(d)' => Makes(d) /\ arg'[d] = arg[d] /\ arg[d] # arg[c]
      BY <1>2, <2>2, <2>4 DEF Requests
    <3>2. \A t \in Terminals : status[t] = "running" => t # arg[c]
      BY <2>2
    <3> QED  BY <1>0, <2>2, <2>4, <3>1, <3>2 DEF Due, Listed, DueOK
  <2> QED  BY <2>1, <2>3, <2>4 DEF StartCommand
<1>8. CASE \E c \in Clients : MarkRunning(c)
  <2>1. PICK c \in Clients : MarkRunning(c)
    BY <1>8
  <2>2. /\ Makes(c) /\ arg[c] \in Terminals /\ status' = [status EXCEPT ![arg[c]] = "running"]
        /\ UNCHANGED <<server, sweep, due, used, listed, killed, process>>
    BY <1>0, <2>1 DEF MarkRunning, Makes
  <2>3. \A d \in Clients : Makes(d)' => Makes(d) /\ arg'[d] = arg[d]
    BY <1>2, <2>1 DEF MarkRunning
  <2>4. \A t \in Terminals : t # arg[c] => status'[t] = status[t]
    BY <2>2 DEF TypeOK
  <2>5. \A t \in due : t # arg[c]
    BY <2>2 DEF Due, DueOK
  <2>6. Listed'
    BY <2>2, <2>3, <2>4 DEF Due, Listed
  <2>7. ASSUME NEW t \in due PROVE DueOK(t)'
    <3>1. t \in Terminals /\ status'[t] = status[t] /\ DueOK(t)
      BY <1>0, <2>4, <2>5 DEF Due
    <3> QED  BY <2>2, <2>3, <3>1 DEF DueOK
  <2> QED  BY <2>2, <2>6, <2>7 DEF Due
<1>9. CASE \E c \in Clients : HandleKill(c)
  <2>1. PICK c \in Clients : HandleKill(c)
    BY <1>9
  <2>2. \A d \in Clients : Makes(d)' => Makes(d) /\ arg'[d] = arg[d]
    BY <1>2, <2>1 DEF HandleKill
  <2>3. /\ UNCHANGED <<server, sweep, due, used, listed, process>> /\ killed \subseteq killed'
        /\ \A t \in Terminals : status'[t] \in {"running", "created"} => status'[t] = status[t]
    BY <2>1 DEF HandleKill, TypeOK
  <2> QED  BY <1>0, <2>2, <2>3 DEF Due, Listed, DueOK
\* A release, by a client or by ReleaseAll, kills what runs.
<1>10. ASSUME NEW r \in Terminals, Release(r), UNCHANGED <<server, due>>,
              sweep' = sweep \/ sweep' = sweep \ {r}, server = "running" => \A c \in Clients : Makes(c) => arg[c] # r,
              \A c \in Clients : Makes(c)' => Makes(c) /\ arg'[c] = arg[c]
       PROVE  Due'
  <2>1. /\ UNCHANGED <<used, status, process>> /\ listed' = listed \ {r} /\ killed \subseteq killed'
        /\ status[r] = "running" => r \in killed'
    BY <1>10 DEF Release
  <2> QED  BY <1>0, <1>10, <2>1 DEF Due, Listed, DueOK
<1>11. CASE \E c \in Clients : HandleRelease(c)
  <2>1. PICK c \in Clients : HandleRelease(c)
    BY <1>11
  <2>2. \A d \in Clients : /\ Makes(d)' => Makes(d) /\ arg'[d] = arg[d]
                           /\ Makes(d) => arg[d] # arg[c]
    BY <1>2, <2>1 DEF HandleRelease, Requests, Makes
  <2>3. CASE arg[c] \in listed
    <3>1. arg[c] \in Terminals
      BY <1>0, <2>3
    <3> QED  BY <1>10, <2>1, <2>2, <2>3, <3>1 DEF HandleRelease
  <2>4. CASE arg[c] \notin listed
    BY <1>1, <2>1, <2>2, <2>4 DEF HandleRelease
  <2> QED  BY <2>3, <2>4
<1>12. CASE \E t \in Terminals : ReleaseOne(t)
  <2>1. PICK t \in Terminals : ReleaseOne(t)
    BY <1>12
  <2>2. server # "running"
    BY <2>1 DEF ReleaseOne, Due, Listed
  <2>3. \A d \in Clients : Makes(d)' => Makes(d) /\ arg'[d] = arg[d]
    BY <2>1 DEF ReleaseOne, Makes
  <2>4. CASE t \in listed
    BY <1>10, <2>1, <2>2, <2>3, <2>4 DEF ReleaseOne
  <2>5. CASE t \notin listed
    BY <2>1, <2>2, <2>3, <2>5 DEF ReleaseOne, Due, Listed, DueOK
  <2> QED  BY <2>4, <2>5
<1>13. CASE \E t \in Terminals : ProcessEnds(t) \/ Reap(t)
  BY <1>1, <1>13 DEF ProcessEnds, Reap, Makes, TypeOK
<1>14. CASE Stop
  <2>1. /\ server = "running" /\ server' = "shutdown" /\ due' = Known
        /\ UNCHANGED <<sweep, loop, terminal>>
    BY <1>14 DEF Stop
  <2>2. ASSUME NEW t \in Known PROVE DueOK(t)'
    <3>1. t \in 1..used /\ t \in Terminals /\ \A c \in Clients : Makes(c) => arg[c] # t
      BY <1>0 DEF Known, Creating, Makes
    <3>2. status[t] = "created" => process[t] = "none"
      BY <3>1 DEF Creation, Makes
    <3>3. status[t] = "running" /\ t \notin killed => t \in listed
      BY <2>1, <3>1 DEF Due, Listed
    <3> QED  BY <3>1, <3>2, <3>3, <2>1 DEF DueOK, Makes
  <2> QED  BY <2>1, <2>2 DEF Due, Listed
<1>15. CASE ShutdownDone
  BY <1>15 DEF ShutdownDone, Due, Listed, DueOK, Makes
<1>16. CASE Stopped
  BY <1>16 DEF Stopped, Due, Listed, DueOK, Makes
<1>17. CASE PlainRequest \/ PlainEnds \/ UNCHANGED vars
  BY <1>1, <1>17 DEF PlainRequest, PlainEnds, vars, Makes
<1> QED
  BY <1>3, <1>4, <1>5, <1>6, <1>7, <1>8, <1>9, <1>11, <1>12, <1>13, <1>14, <1>15, <1>16, <1>17
     DEF Next, Handle

-----------------------------------------------------------------------------
(* The theorems. *)

LEMMA InitIInv == Init => IInv
<1> SUFFICES ASSUME Init PROVE IInv
  OBVIOUS
<1>1. TypeOK
  <2>1. gone \in [Clients -> BOOLEAN] /\ initialized \in BOOLEAN /\ answers = {}
    BY DEF Init
  <2>2. /\ used \in 0..MaxTerminals /\ quota \in 0..MaxRequests
        /\ queue \in [Clients -> 0..MaxQueue] /\ arg \in [Clients -> 0..MaxTerminals]
    BY Bounds DEF Init
  <2>3. exitCode \in [Terminals -> ExitCodes] /\ ended \in [Terminals -> ExitCodes]
    BY DEF Init, ExitCodes
  <2> QED  BY <2>1, <2>2, <2>3 DEF Init, TypeOK, Modes
<1>2. Requests /\ Due /\ Creation /\ Answered
  BY DEF Init, Requests, Due, Listed, Creation, Answered, Makes, Uses
<1>3. \A t \in Terminals : TerminalOK(t)
  BY Bounds DEF Init, TerminalOK
<1> QED  BY <1>1, <1>2, <1>3 DEF IInv

LEMMA NextIInv == IInv /\ [Next]_vars => IInv'
<1> SUFFICES ASSUME IInv, [Next]_vars PROVE IInv'
  OBVIOUS
<1>1. TypeOK /\ Requests /\ Due /\ (\A t \in Terminals : TerminalOK(t)) /\ Creation /\ Answered
  BY DEF IInv
<1>2. TypeOK' /\ Requests' /\ Due'
  BY <1>1, TypeStep, RequestsStep, DueStep
<1>3. \A t \in Terminals : TerminalOK(t)'
  BY <1>1, TerminalStep
<1>4. Creation' /\ Answered'
  BY <1>1, CreationStep, AnsweredStep
<1> QED  BY <1>2, <1>3, <1>4 DEF IInv

\* The invariant holds, and with it the types of all variables, whatever the
\* clients send and whenever Stop comes.
THEOREM Invariance == Spec => []IInv
  BY InitIInv, NextIInv, PTL DEF Spec

\* What the clients are told of a terminal by its status and by wait_for_exit
\* agrees with its process, through kills, releases, its own exit and Stop, for
\* any number of clients and terminals.
THEOREM StatusTellsProcess == Spec => []TerminalTellsProcess
<1>1. IInv => TerminalTellsProcess
  <2> SUFFICES ASSUME IInv PROVE TerminalTellsProcess
    OBVIOUS
  <2>1. 1..used \subseteq Terminals
    BY Bounds DEF IInv, TypeOK
  <2>2. \A t \in 1..used : status[t] = "created" /\ process[t] # "none" => t \notin Known
    BY <2>1 DEF IInv, Creation, Known, Creating
  <2>3. \A t \in 1..used : /\ status[t] = "exited"  => process[t] \in {"ended", "reaped"} \/ t \in killed
                           /\ status[t] = "running" => process[t] \in {"alive", "ended"}
    BY <2>1 DEF IInv, TerminalOK
  <2> QED  BY <2>2, <2>3 DEF IInv, Answered, TerminalTellsProcess
<1> QED  BY <1>1, Invariance, PTL

\* When Stop has returned, the process of every terminal whose creation was
\* answered before Stop has ended or was killed, whatever clients released,
\* killed and created while Shutdown waited and ReleaseAll went through the
\* list, for any number of clients and terminals.
THEOREM StopReachesAnswered == Spec => []StopReleasesAnswered
<1>1. IInv => StopReleasesAnswered
  <2> SUFFICES ASSUME IInv, server = "stopped", NEW t \in due, process[t] = "alive", t \notin killed
               PROVE  FALSE
    BY DEF StopReleasesAnswered
  <2>1. t \in Terminals /\ TerminalOK(t) /\ DueOK(t) /\ sweep = {}
    BY DEF IInv, TypeOK, Due
  <2>2. status[t] \in {"none", "created", "running", "exited"}
    BY <2>1 DEF IInv, TypeOK
  <2> QED  BY <2>1, <2>2 DEF TerminalOK, DueOK
<1> QED  BY <1>1, Invariance, PTL
=============================================================================
