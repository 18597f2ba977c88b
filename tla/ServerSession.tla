---------------------------- MODULE ServerSession ----------------------------
(* The life of the connections of one server process: the accept loop and  *)
(* the interrupt handler of the main thread, one session thread per        *)
(* connection, the set of client locks, the session keys of the enclave.   *)
(* What a session does once it is logged in is one step here; modules      *)
(* InlineUpload, OfflineUpdate and RestoreDecoder refine it.               *)
EXTENDS Naturals, FiniteSets

CONSTANTS
  Conns,    \* connections, and the session threads that serve them
  Clients,  \* client IDs
  Files,    \* file names
  NoFile,   \* no file named yet
  ClientOf, \* connection -> client ID in its messages
  NoConn    \* nobody

ASSUME SessionAssumption ==
  /\ ClientOf \in [Conns -> Clients]
  /\ NoConn \notin Conns

Opts == {"UPLOAD", "DOWNLOAD", "OFFLINE"}

VARIABLES
  server,    \* "up", "exit" (exit(EXIT_FAILURE) somewhere), "down" (after CTRLC)
  stopping,  \* the interrupt handler has taken over the main thread
  pc,        \* where each session thread is
  setLock,   \* holder of clientLockSetLock_
  lockIndex, \* clientLockIndex_: client ID -> mutex, named after its creator
  owner,     \* mutex -> holder
  tmpLock,   \* each thread's tmpLock
  keyIndex,  \* clientSessionKeyIndex_: client ID -> connection that made the key
  sgxKey,    \* _sessionKey of each session's EnclaveClient
  opt,       \* optType
  file,      \* the file each login names
  recipes    \* recipe files on disk: <<client ID, file>>

vars == <<server, stopping, pc, setLock, lockIndex, owner, tmpLock, keyIndex, sgxKey, opt, file, recipes>>

Init ==
  /\ server = "up" /\ stopping = FALSE
  /\ pc = [c \in Conns |-> "off"]
  /\ setLock = NoConn
  /\ lockIndex = [i \in Clients |-> NoConn]
  /\ owner = [m \in Conns |-> NoConn]
  /\ tmpLock = [c \in Conns |-> NoConn]
  /\ keyIndex = [i \in Clients |-> NoConn]
  /\ sgxKey = [c \in Conns |-> NoConn]
  /\ opt = [c \in Conns |-> "NONE"]
  /\ file = [c \in Conns |-> NoFile]
  /\ recipes = {}

Goto(c, label) == pc' = [pc EXCEPT ![c] = label]

At(c, label) == server = "up" /\ pc[c] = label

----------------------------------------------------------------------------
(* The main thread. *)

\* ListenSSL returns a connection; a thread is started for it.
Accept(c) ==
  /\ At(c, "off") /\ ~stopping
  /\ Goto(c, "ra")
  /\ UNCHANGED <<server, stopping, setLock, lockIndex, owner, tmpLock, keyIndex, sgxKey, opt, file, recipes>>

\* Ctrl-C: the handler runs in the main thread, so nothing is accepted now.
CtrlC ==
  /\ server = "up" /\ ~stopping
  /\ stopping' = TRUE
  /\ UNCHANGED <<server, pc, setLock, lockIndex, owner, tmpLock, keyIndex, sgxKey, opt, file, recipes>>

\* The handler has joined every thread it knows, saves and exits.
Shutdown ==
  /\ server = "up" /\ stopping
  /\ \A c \in Conns : pc[c] \in {"off", "done"}
  /\ server' = "down"
  /\ UNCHANGED <<stopping, pc, setLock, lockIndex, owner, tmpLock, keyIndex, sgxKey, opt, file, recipes>>

----------------------------------------------------------------------------
(* A session thread. *)

\* The RA decision: a client that does not support attestation is let go.
RecvRA(c) ==
  /\ At(c, "ra")
  /\ \E label \in {"key", "bye"} : Goto(c, label)
  /\ UNCHANGED <<server, stopping, setLock, lockIndex, owner, tmpLock, keyIndex, sgxKey, opt, file, recipes>>

\* The thread saw such a client close its connection.
Bye(c) ==
  /\ At(c, "bye")
  /\ Goto(c, "done")
  /\ UNCHANGED <<server, stopping, setLock, lockIndex, owner, tmpLock, keyIndex, sgxKey, opt, file, recipes>>

RecvKeyInit(c) ==
  /\ At(c, "key")
  /\ Goto(c, "set")
  /\ UNCHANGED <<server, stopping, setLock, lockIndex, owner, tmpLock, keyIndex, sgxKey, opt, file, recipes>>

\* Mutant: the index of locks is searched without its own lock.
TakeSetLockNot(c) ==
  /\ At(c, "set")
  /\ Goto(c, "find")
  /\ UNCHANGED <<server, stopping, setLock, lockIndex, owner, tmpLock, keyIndex, sgxKey, opt, file, recipes>>

\* lock_guard on clientLockSetLock_.
TakeSetLock(c) ==
  /\ At(c, "set") /\ setLock = NoConn
  /\ setLock' = c
  /\ Goto(c, "find")
  /\ UNCHANGED <<server, stopping, lockIndex, owner, tmpLock, keyIndex, sgxKey, opt, file, recipes>>

\* clientLockIndex_.find
FindLock(c) ==
  /\ At(c, "find")
  /\ tmpLock' = [tmpLock EXCEPT ![c] = lockIndex[ClientOf[c]]]
  /\ Goto(c, IF lockIndex[ClientOf[c]] = NoConn THEN "insert" ELSE "lock")
  /\ UNCHANGED <<server, stopping, setLock, lockIndex, owner, keyIndex, sgxKey, opt, file, recipes>>

\* Mutant: the new mutex is put in the index and not into tmpLock.
NewLockIndexOnly(c) ==
  /\ At(c, "insert")
  /\ lockIndex' = [lockIndex EXCEPT ![ClientOf[c]] = c]
  /\ Goto(c, "lock")
  /\ UNCHANGED <<server, stopping, setLock, owner, tmpLock, keyIndex, sgxKey, opt, file, recipes>>

\* A new mutex for a client ID that has none.
NewLock(c) ==
  /\ At(c, "insert")
  /\ lockIndex' = [lockIndex EXCEPT ![ClientOf[c]] = c]
  /\ tmpLock' = [tmpLock EXCEPT ![c] = c]
  /\ Goto(c, "lock")
  /\ UNCHANGED <<server, stopping, setLock, owner, keyIndex, sgxKey, opt, file, recipes>>

\* tmpLock->lock(), still under clientLockSetLock_, which is then released.
LockClient(c) ==
  /\ At(c, "lock") /\ owner[tmpLock[c]] = NoConn
  /\ owner' = [owner EXCEPT ![tmpLock[c]] = c]
  /\ setLock' = IF setLock = c THEN NoConn ELSE setLock
  /\ Goto(c, "exchange")
  /\ UNCHANGED <<server, stopping, lockIndex, tmpLock, keyIndex, sgxKey, opt, file, recipes>>

\* Mutant: the client lock covers the key exchange only.
KeyExchangeUnlocks(c) ==
  /\ At(c, "exchange")
  /\ keyIndex' = [keyIndex EXCEPT ![ClientOf[c]] = c]
  /\ owner' = [owner EXCEPT ![tmpLock[c]] = NoConn]
  /\ Goto(c, "login")
  /\ UNCHANGED <<server, stopping, setLock, lockIndex, tmpLock, sgxKey, opt, file, recipes>>

\* Ecall_Session_Key_Exchange and the reply.
KeyExchange(c) ==
  /\ At(c, "exchange")
  /\ keyIndex' = [keyIndex EXCEPT ![ClientOf[c]] = c]
  /\ Goto(c, "login")
  /\ UNCHANGED <<server, stopping, setLock, lockIndex, owner, tmpLock, sgxKey, opt, file, recipes>>

\* The login message and CheckFileStatus: only a download of a file
\* without a recipe is refused.
RecvLogin(c, o, f) ==
  /\ At(c, "login")
  /\ opt' = [opt EXCEPT ![c] = o]
  /\ file' = [file EXCEPT ![c] = f]
  /\ Goto(c, IF o = "DOWNLOAD" /\ <<ClientOf[c], f>> \notin recipes THEN "reject" ELSE "init")
  /\ UNCHANGED <<server, stopping, setLock, lockIndex, owner, tmpLock, keyIndex, sgxKey, recipes>>

\* Mutant: the early return of a refused download leaves the client locked.
RejectKeepsLock(c) ==
  /\ At(c, "reject")
  /\ Goto(c, "done")
  /\ UNCHANGED <<server, stopping, setLock, lockIndex, owner, tmpLock, keyIndex, sgxKey, opt, file, recipes>>

\* The refused client has closed its connection.
Reject(c) ==
  /\ At(c, "reject")
  /\ owner' = [owner EXCEPT ![tmpLock[c]] = NoConn]
  /\ Goto(c, "done")
  /\ UNCHANGED <<server, stopping, setLock, lockIndex, tmpLock, keyIndex, sgxKey, opt, file, recipes>>

\* ClientVar, which creates the recipe of an upload, Ecall_Init_Client,
\* which copies the client's session key, the threads and the response.
InitClient(c) ==
  /\ At(c, "init")
  /\ sgxKey' = [sgxKey EXCEPT ![c] = keyIndex[ClientOf[c]]]
  /\ recipes' = IF opt[c] = "DOWNLOAD" THEN recipes ELSE recipes \cup {<<ClientOf[c], file[c]>>}
  /\ Goto(c, "serve")
  /\ UNCHANGED <<server, stopping, setLock, lockIndex, owner, tmpLock, keyIndex, opt, file>>

\* The session's threads have ended and are joined.
Join(c) ==
  /\ At(c, "serve")
  /\ Goto(c, IF opt[c] = "OFFLINE" THEN "offline" ELSE "destroy")
  /\ UNCHANGED <<server, stopping, setLock, lockIndex, owner, tmpLock, keyIndex, sgxKey, opt, file, recipes>>

\* ProcessOff returns.
ProcessOff(c) ==
  /\ At(c, "offline")
  /\ Goto(c, "destroy")
  /\ UNCHANGED <<server, stopping, setLock, lockIndex, owner, tmpLock, keyIndex, sgxKey, opt, file, recipes>>

\* Ecall_Destroy_Client, delete outClient, unlock.
DestroyClient(c) ==
  /\ At(c, "destroy")
  /\ sgxKey' = [sgxKey EXCEPT ![c] = NoConn]
  /\ owner' = [owner EXCEPT ![tmpLock[c]] = NoConn]
  /\ Goto(c, "done")
  /\ UNCHANGED <<server, stopping, setLock, lockIndex, tmpLock, keyIndex, opt, file, recipes>>

\* A send or receive that fails, or a message of the wrong type, where the
\* thread answers with exit(EXIT_FAILURE): the whole server is gone.
ConnLost(c) ==
  /\ server = "up"
  /\ \/ pc[c] \in {"ra", "key", "exchange", "login", "reject", "init"}
     \/ pc[c] = "serve" /\ opt[c] = "DOWNLOAD"
  /\ server' = "exit"
  /\ UNCHANGED <<stopping, pc, setLock, lockIndex, owner, tmpLock, keyIndex, sgxKey, opt, file, recipes>>

\* A step of a session whose client keeps to the protocol.
Session(c) ==
  \/ RecvRA(c) \/ Bye(c) \/ RecvKeyInit(c) \/ TakeSetLock(c) \/ FindLock(c)
  \/ NewLock(c) \/ LockClient(c) \/ KeyExchange(c)
  \/ \E o \in Opts, f \in Files : RecvLogin(c, o, f)
  \/ Reject(c) \/ InitClient(c) \/ Join(c) \/ ProcessOff(c) \/ DestroyClient(c)

Next ==
  \/ CtrlC \/ Shutdown
  \/ \E c \in Conns : Accept(c) \/ Session(c) \/ ConnLost(c)

Spec == Init /\ [][Next]_vars

\* Threads are scheduled, and a connected client sends what the protocol
\* asks of it next. Nothing is assumed about new connections, faults and
\* the interrupt. A mutex is not assumed to be fair: a connection asks for
\* each lock once, so only finitely many others can overtake it.
FairSpec ==
  /\ Spec
  /\ WF_vars(Shutdown)
  /\ \A c \in Conns : WF_vars(Session(c))

----------------------------------------------------------------------------
(* Properties. *)

Labels == {"off", "ra", "bye", "key", "set", "find", "insert", "lock", "exchange",
           "login", "reject", "init", "serve", "offline", "destroy", "done"}

\* Between locking and unlocking the client's mutex.
Holding == {"exchange", "login", "reject", "init", "serve", "offline", "destroy"}

\* Types of the session state; a thread that locks or holds a mutex has one.
TypeOK ==
  /\ server \in {"up", "exit", "down"} /\ stopping \in BOOLEAN
  /\ pc \in [Conns -> Labels]
  /\ setLock \in Conns \cup {NoConn}
  /\ lockIndex \in [Clients -> Conns \cup {NoConn}]
  /\ owner \in [Conns -> Conns \cup {NoConn}]
  /\ tmpLock \in [Conns -> Conns \cup {NoConn}]
  /\ keyIndex \in [Clients -> Conns \cup {NoConn}]
  /\ sgxKey \in [Conns -> Conns \cup {NoConn}]
  /\ opt \in [Conns -> Opts \cup {"NONE"}] /\ file \in [Conns -> Files \cup {NoFile}]
  /\ recipes \subseteq Clients \X Files
  /\ \A c \in Conns : pc[c] \in Holding \cup {"lock"} => tmpLock[c] \in Conns

\* One session per client ID: whatever the order in which connections of a
\* client arrive, even when none has a mutex yet, at most one is between the
\* lock and the unlock (serverOptThread.cc, "ensure exist only one client
\* with the same client ID").
OneSessionPerClient ==
  \A c, d \in Conns :
    pc[c] \in Holding /\ pc[d] \in Holding /\ ClientOf[c] = ClientOf[d] => c = d

\* Session keys: the key a session decrypts with is the one agreed on its
\* own connection, although the enclave keeps one key per client ID.
KeyOfSession ==
  \A c \in Conns :
    /\ pc[c] \in {"login", "init"} => keyIndex[ClientOf[c]] = c
    /\ pc[c] \in {"serve", "offline", "destroy"} => sgxKey[c] = c

\* Service: every accepted connection is served to its end, through busy
\* clients that hold up the lock set, refused downloads and a Ctrl-C,
\* unless a failed connection has ended the server.
Served ==
  \A c \in Conns : pc[c] # "off" ~> (pc[c] = "done" \/ server = "exit")
==============================================================================
