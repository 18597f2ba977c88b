---------------------------- MODULE SessionProofs ----------------------------
(* Client locks and session keys, for any number of connections, clients   *)
(* and files.                                                              *)
EXTENDS ServerSession, TLAPS

\* A session that is set up has named its file in the login.
FileNamed == \A c \in Conns : pc[c] = "init" => file[c] \in Files

TypeInv == TypeOK /\ FileNamed

\* Who is between lock_guard and the end of its block holds the set lock.
SetLockHeld ==
  \A c \in Conns : pc[c] \in {"find", "insert", "lock"} => setLock = c

\* A thread that is about to add a mutex adds the client's first.
FirstLock ==
  \A c \in Conns : pc[c] = "insert" => lockIndex[ClientOf[c]] = NoConn

\* Who waits for or holds a mutex does so for the one in the index.
LockOfClient ==
  \A c \in Conns : pc[c] \in Holding \cup {"lock"} => tmpLock[c] = lockIndex[ClientOf[c]]

\* Between lock and unlock the mutex is owned.
LockOwned ==
  \A c \in Conns : pc[c] \in Holding => owner[tmpLock[c]] = c

LockInv == TypeInv /\ SetLockHeld /\ FirstLock /\ LockOfClient /\ LockOwned

\* The inductive invariant holds initially: nobody is connected.
LEMMA LockInit == Init => LockInv
  BY SessionAssumption
  DEF Init, LockInv, TypeInv, TypeOK, FileNamed, SetLockHeld, FirstLock, LockOfClient, LockOwned,
      Labels, Holding, Opts

\* One session per client follows from the ownership of its mutex.
LEMMA LocksExclude == LockInv => OneSessionPerClient
  BY SessionAssumption
  DEF LockInv, TypeInv, TypeOK, LockOfClient, LockOwned, OneSessionPerClient, Holding

----------------------------------------------------------------------------
(* Types. *)

\* Every step keeps the types; the login names the file that InitClient creates.
LEMMA TypeStep == TypeInv /\ [Next]_vars => TypeInv'
<1> SUFFICES ASSUME TypeInv, [Next]_vars PROVE TypeInv'
  OBVIOUS
<1> USE SessionAssumption DEF TypeInv, TypeOK, FileNamed, Labels, Holding, Goto, At
<1>1. CASE CtrlC
  BY <1>1 DEF CtrlC
<1>2. CASE Shutdown
  BY <1>2 DEF Shutdown
<1>3. ASSUME NEW c \in Conns, Accept(c) PROVE TypeInv'
  BY <1>3 DEF Accept
<1>4. ASSUME NEW c \in Conns, ConnLost(c) PROVE TypeInv'
  BY <1>4 DEF ConnLost
<1>5. ASSUME NEW c \in Conns, RecvRA(c) PROVE TypeInv'
  BY <1>5 DEF RecvRA
<1>6. ASSUME NEW c \in Conns, Bye(c) PROVE TypeInv'
  BY <1>6 DEF Bye
<1>7. ASSUME NEW c \in Conns, RecvKeyInit(c) PROVE TypeInv'
  BY <1>7 DEF RecvKeyInit
<1>8. ASSUME NEW c \in Conns, TakeSetLock(c) PROVE TypeInv'
  BY <1>8 DEF TakeSetLock
<1>9. ASSUME NEW c \in Conns, FindLock(c) PROVE TypeInv'
  BY <1>9 DEF FindLock
<1>10. ASSUME NEW c \in Conns, NewLock(c) PROVE TypeInv'
  BY <1>10 DEF NewLock
<1>11. ASSUME NEW c \in Conns, LockClient(c) PROVE TypeInv'
  BY <1>11 DEF LockClient
<1>12. ASSUME NEW c \in Conns, KeyExchange(c) PROVE TypeInv'
  BY <1>12 DEF KeyExchange
<1>13. ASSUME NEW c \in Conns, Reject(c) PROVE TypeInv'
  BY <1>13 DEF Reject
<1>14. ASSUME NEW c \in Conns, InitClient(c) PROVE TypeInv'
  BY <1>14 DEF InitClient
<1>15. ASSUME NEW c \in Conns, Join(c) PROVE TypeInv'
  BY <1>15 DEF Join
<1>16. ASSUME NEW c \in Conns, ProcessOff(c) PROVE TypeInv'
  BY <1>16 DEF ProcessOff
<1>17. ASSUME NEW c \in Conns, DestroyClient(c) PROVE TypeInv'
  BY <1>17 DEF DestroyClient
<1>18. ASSUME NEW c \in Conns, NEW o \in Opts, NEW f \in Files, RecvLogin(c, o, f) PROVE TypeInv'
  BY <1>18 DEF RecvLogin
<1>19. CASE UNCHANGED vars
  BY <1>19 DEF vars
<1> QED
  BY <1>1, <1>2, <1>3, <1>4, <1>5, <1>6, <1>7, <1>8, <1>9, <1>10, <1>11, <1>12,
     <1>13, <1>14, <1>15, <1>16, <1>17, <1>18, <1>19 DEF Next, Session

\* Types of the session state (ServerOptThread::Run).
THEOREM SessionTypes == Spec => []TypeOK
<1>1. Init => TypeInv
  BY LockInit DEF LockInv
<1>2. TypeInv => TypeOK
  BY DEF TypeInv
<1> QED
  BY <1>1, <1>2, TypeStep, PTL DEF Spec

----------------------------------------------------------------------------
(* The locks. *)

\* The set lock covers the search and the insertion.
LEMMA SetLockStep == LockInv /\ [Next]_vars => (SetLockHeld /\ FirstLock)'
<1> SUFFICES ASSUME LockInv, [Next]_vars PROVE (SetLockHeld /\ FirstLock)'
  OBVIOUS
<1> USE SessionAssumption DEF SetLockHeld, FirstLock, LockInv, TypeInv, TypeOK, Labels, Holding, Goto, At
<1>1. CASE CtrlC
  BY <1>1 DEF CtrlC
<1>2. CASE Shutdown
  BY <1>2 DEF Shutdown
<1>3. ASSUME NEW c \in Conns, Accept(c) PROVE (SetLockHeld /\ FirstLock)'
  BY <1>3 DEF Accept
<1>4. ASSUME NEW c \in Conns, ConnLost(c) PROVE (SetLockHeld /\ FirstLock)'
  BY <1>4 DEF ConnLost
<1>5. ASSUME NEW c \in Conns, RecvRA(c) PROVE (SetLockHeld /\ FirstLock)'
  BY <1>5 DEF RecvRA
<1>6. ASSUME NEW c \in Conns, Bye(c) PROVE (SetLockHeld /\ FirstLock)'
  BY <1>6 DEF Bye
<1>7. ASSUME NEW c \in Conns, RecvKeyInit(c) PROVE (SetLockHeld /\ FirstLock)'
  BY <1>7 DEF RecvKeyInit
<1>8. ASSUME NEW c \in Conns, TakeSetLock(c) PROVE (SetLockHeld /\ FirstLock)'
  BY <1>8 DEF TakeSetLock
<1>9. ASSUME NEW c \in Conns, FindLock(c) PROVE (SetLockHeld /\ FirstLock)'
  BY <1>9 DEF FindLock
<1>10. ASSUME NEW c \in Conns, NewLock(c) PROVE (SetLockHeld /\ FirstLock)'
  BY <1>10 DEF NewLock
<1>11. ASSUME NEW c \in Conns, LockClient(c) PROVE (SetLockHeld /\ FirstLock)'
  BY <1>11 DEF LockClient
<1>12. ASSUME NEW c \in Conns, KeyExchange(c) PROVE (SetLockHeld /\ FirstLock)'
  BY <1>12 DEF KeyExchange
<1>13. ASSUME NEW c \in Conns, Reject(c) PROVE (SetLockHeld /\ FirstLock)'
  BY <1>13 DEF Reject
<1>14. ASSUME NEW c \in Conns, InitClient(c) PROVE (SetLockHeld /\ FirstLock)'
  BY <1>14 DEF InitClient
<1>15. ASSUME NEW c \in Conns, Join(c) PROVE (SetLockHeld /\ FirstLock)'
  BY <1>15 DEF Join
<1>16. ASSUME NEW c \in Conns, ProcessOff(c) PROVE (SetLockHeld /\ FirstLock)'
  BY <1>16 DEF ProcessOff
<1>17. ASSUME NEW c \in Conns, DestroyClient(c) PROVE (SetLockHeld /\ FirstLock)'
  BY <1>17 DEF DestroyClient
<1>18. ASSUME NEW c \in Conns, NEW o \in Opts, NEW f \in Files, RecvLogin(c, o, f) PROVE (SetLockHeld /\ FirstLock)'
  BY <1>18 DEF RecvLogin
<1>19. CASE UNCHANGED vars
  BY <1>19 DEF vars
<1> QED
  BY <1>1, <1>2, <1>3, <1>4, <1>5, <1>6, <1>7, <1>8, <1>9, <1>10, <1>11, <1>12,
     <1>13, <1>14, <1>15, <1>16, <1>17, <1>18, <1>19 DEF Next, Session

\* No step takes a mutex from its owner or replaces the mutex of a client.
LEMMA OwnerStep == LockInv /\ [Next]_vars => (LockOfClient /\ LockOwned)'
<1> SUFFICES ASSUME LockInv, [Next]_vars PROVE (LockOfClient /\ LockOwned)'
  OBVIOUS
<1> USE SessionAssumption DEF SetLockHeld, FirstLock, LockOfClient, LockOwned, LockInv, TypeInv, TypeOK, Labels, Holding, Goto, At
<1>1. CASE CtrlC
  BY <1>1 DEF CtrlC
<1>2. CASE Shutdown
  BY <1>2 DEF Shutdown
<1>3. ASSUME NEW c \in Conns, Accept(c) PROVE (LockOfClient /\ LockOwned)'
  BY <1>3 DEF Accept
<1>4. ASSUME NEW c \in Conns, ConnLost(c) PROVE (LockOfClient /\ LockOwned)'
  BY <1>4 DEF ConnLost
<1>5. ASSUME NEW c \in Conns, RecvRA(c) PROVE (LockOfClient /\ LockOwned)'
  BY <1>5 DEF RecvRA
<1>6. ASSUME NEW c \in Conns, Bye(c) PROVE (LockOfClient /\ LockOwned)'
  BY <1>6 DEF Bye
<1>7. ASSUME NEW c \in Conns, RecvKeyInit(c) PROVE (LockOfClient /\ LockOwned)'
  BY <1>7 DEF RecvKeyInit
<1>8. ASSUME NEW c \in Conns, TakeSetLock(c) PROVE (LockOfClient /\ LockOwned)'
  BY <1>8 DEF TakeSetLock
<1>9. ASSUME NEW c \in Conns, FindLock(c) PROVE (LockOfClient /\ LockOwned)'
  BY <1>9 DEF FindLock
<1>10. ASSUME NEW c \in Conns, NewLock(c) PROVE (LockOfClient /\ LockOwned)'
  BY <1>10 DEF NewLock
<1>11. ASSUME NEW c \in Conns, LockClient(c) PROVE (LockOfClient /\ LockOwned)'
  BY <1>11 DEF LockClient
<1>12. ASSUME NEW c \in Conns, KeyExchange(c) PROVE (LockOfClient /\ LockOwned)'
  BY <1>12 DEF KeyExchange
<1>13. ASSUME NEW c \in Conns, Reject(c) PROVE (LockOfClient /\ LockOwned)'
  BY <1>13 DEF Reject
<1>14. ASSUME NEW c \in Conns, InitClient(c) PROVE (LockOfClient /\ LockOwned)'
  BY <1>14 DEF InitClient
<1>15. ASSUME NEW c \in Conns, Join(c) PROVE (LockOfClient /\ LockOwned)'
  BY <1>15 DEF Join
<1>16. ASSUME NEW c \in Conns, ProcessOff(c) PROVE (LockOfClient /\ LockOwned)'
  BY <1>16 DEF ProcessOff
<1>17. ASSUME NEW c \in Conns, DestroyClient(c) PROVE (LockOfClient /\ LockOwned)'
  BY <1>17 DEF DestroyClient
<1>18. ASSUME NEW c \in Conns, NEW o \in Opts, NEW f \in Files, RecvLogin(c, o, f) PROVE (LockOfClient /\ LockOwned)'
  BY <1>18 DEF RecvLogin
<1>19. CASE UNCHANGED vars
  BY <1>19 DEF vars
<1> QED
  BY <1>1, <1>2, <1>3, <1>4, <1>5, <1>6, <1>7, <1>8, <1>9, <1>10, <1>11, <1>12,
     <1>13, <1>14, <1>15, <1>16, <1>17, <1>18, <1>19 DEF Next, Session

\* All of it is kept by every step.
LEMMA LockStep == LockInv /\ [Next]_vars => LockInv'
  BY TypeStep, SetLockStep, OwnerStep DEF LockInv

\* At most one connection of a client is between lock and unlock, for any
\* number of connections (serverOptThread.cc, the client lock).
THEOREM SessionsExclusive == Spec => []OneSessionPerClient
  BY LockInit, LockStep, LocksExclude, PTL DEF Spec

----------------------------------------------------------------------------
(* The session keys. *)


\* A key exchange of another session of the client cannot come in between.
LEMMA KeyStep == LockInv /\ KeyOfSession /\ [Next]_vars => KeyOfSession'
<1> SUFFICES ASSUME LockInv, OneSessionPerClient, KeyOfSession, [Next]_vars PROVE KeyOfSession'
  BY LocksExclude
<1> USE SessionAssumption DEF LockInv, TypeInv, TypeOK, KeyOfSession, OneSessionPerClient, Labels, Holding, Goto, At
<1>1. CASE CtrlC
  BY <1>1 DEF CtrlC
<1>2. CASE Shutdown
  BY <1>2 DEF Shutdown
<1>3. ASSUME NEW c \in Conns, Accept(c) PROVE KeyOfSession'
  BY <1>3 DEF Accept
<1>4. ASSUME NEW c \in Conns, ConnLost(c) PROVE KeyOfSession'
  BY <1>4 DEF ConnLost
<1>5. ASSUME NEW c \in Conns, RecvRA(c) PROVE KeyOfSession'
  BY <1>5 DEF RecvRA
<1>6. ASSUME NEW c \in Conns, Bye(c) PROVE KeyOfSession'
  BY <1>6 DEF Bye
<1>7. ASSUME NEW c \in Conns, RecvKeyInit(c) PROVE KeyOfSession'
  BY <1>7 DEF RecvKeyInit
<1>8. ASSUME NEW c \in Conns, TakeSetLock(c) PROVE KeyOfSession'
  BY <1>8 DEF TakeSetLock
<1>9. ASSUME NEW c \in Conns, FindLock(c) PROVE KeyOfSession'
  BY <1>9 DEF FindLock
<1>10. ASSUME NEW c \in Conns, NewLock(c) PROVE KeyOfSession'
  BY <1>10 DEF NewLock
<1>11. ASSUME NEW c \in Conns, LockClient(c) PROVE KeyOfSession'
  BY <1>11 DEF LockClient
<1>12. ASSUME NEW c \in Conns, KeyExchange(c) PROVE KeyOfSession'
  BY <1>12 DEF KeyExchange
<1>13. ASSUME NEW c \in Conns, Reject(c) PROVE KeyOfSession'
  BY <1>13 DEF Reject
<1>14. ASSUME NEW c \in Conns, InitClient(c) PROVE KeyOfSession'
  BY <1>14 DEF InitClient
<1>15. ASSUME NEW c \in Conns, Join(c) PROVE KeyOfSession'
  BY <1>15 DEF Join
<1>16. ASSUME NEW c \in Conns, ProcessOff(c) PROVE KeyOfSession'
  BY <1>16 DEF ProcessOff
<1>17. ASSUME NEW c \in Conns, DestroyClient(c) PROVE KeyOfSession'
  BY <1>17 DEF DestroyClient
<1>18. ASSUME NEW c \in Conns, NEW o \in Opts, NEW f \in Files, RecvLogin(c, o, f) PROVE KeyOfSession'
  BY <1>18 DEF RecvLogin
<1>19. CASE UNCHANGED vars
  BY <1>19 DEF vars
<1> QED
  BY <1>1, <1>2, <1>3, <1>4, <1>5, <1>6, <1>7, <1>8, <1>9, <1>10, <1>11, <1>12,
     <1>13, <1>14, <1>15, <1>16, <1>17, <1>18, <1>19 DEF Next, Session

\* A session decrypts with the key agreed on its own connection
\* (Ecall_Session_Key_Exchange, Ecall_Init_Client).
THEOREM KeysOwn == Spec => []KeyOfSession
<1>1. Init => LockInv /\ KeyOfSession
  BY LockInit DEF Init, KeyOfSession
<1>2. LockInv /\ KeyOfSession /\ [Next]_vars => (LockInv /\ KeyOfSession)'
  BY LockStep, KeyStep
<1> QED
  BY <1>1, <1>2, PTL DEF Spec
=============================================================================
