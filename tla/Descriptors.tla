----------------------------- MODULE Descriptors -----------------------------
(***************************************************************************)
(* The ownership of socket descriptors by kol::Socket (kol/kolsocket.cpp)  *)
(* and the classes of kol/koltcp.cpp that have one as a member.  Objects   *)
(* are copied by dup(), so that each owns a descriptor of its own.  They   *)
(* belong to different threads: a number that one of them has closed may   *)
(* be another's at once.                                                   *)
(*                                                                         *)
(* An object is used by one thread at a time and the source of a copy is   *)
(* left alone during the copy; there is no lock in the code, so this is    *)
(* the duty of the caller.                                                 *)
(*                                                                         *)
(* Names that ThreadController has too are with Sd (socket descriptor), so *)
(* that KolProofs can extend both modules of the library.                  *)
(***************************************************************************)
CONSTANTS
    Objects,    \* Sockets, alone or within a TcpBuffer
    Fds,        \* the descriptors of the process
    Conns,      \* open files of the kernel
    Invalid,    \* Socket::invalid
    Free        \* no open file

ASSUME InvalidAssumption == Invalid \notin Fds
ASSUME FreeAssumption == Free \notin Conns

VARIABLES
    m_sd,       \* the member, by object
    doing,      \* "none" (not constructed), "idle", or inside of a member:
                \* "reset" after CloseSocket(), "assign", "create"
    then,       \* what a "reset" is followed by
    source,     \* the object an assignment copies
    table,      \* the kernel's table: the open file of each descriptor
    own         \* history: the open file each object has been given

sdVars == <<m_sd, doing, then, source, table, own>>

Phases == {"none", "idle", "reset", "assign", "create"}

SdInit ==
    /\ m_sd = [o \in Objects |-> Invalid]
    /\ doing = [o \in Objects |-> "none"]
    /\ then = [o \in Objects |-> "idle"]
    /\ source = [o \in Objects |-> o]
    /\ table = [fd \in Fds |-> Free]
    /\ own = [o \in Objects |-> Free]

Lent(o) == \E p \in Objects \ {o} : doing[p] \in {"reset", "assign"} /\ source[p] = o

\* Nothing is being done with the object.
AtRest(o) == doing[o] = "idle" /\ ~Lent(o)

-----------------------------------------------------------------------------
(* System calls *)

\* The object gets a descriptor for an open file: a number that is free.
Gets(o, file) ==
    \E fd \in Fds :
        /\ table[fd] = Free
        /\ table' = [table EXCEPT ![fd] = file]
        /\ m_sd' = [m_sd EXCEPT ![o] = fd]
        /\ own' = [own EXCEPT ![o] = file]

\* socket() and accept() open a file that is new.
Opens(o) ==
    \E file \in Conns \ ({table[fd] : fd \in Fds} \union {own[p] : p \in Objects}) :
        Gets(o, file)

\* The object has none: there was nothing to copy, or the call failed.
GetsNone(o) ==
    /\ m_sd' = [m_sd EXCEPT ![o] = Invalid]
    /\ own' = [own EXCEPT ![o] = Free]
    /\ UNCHANGED table

\* dup() of what p holds.
DuplicateSocket(o, p) ==
    /\ m_sd[p] # Invalid
    /\ table[m_sd[p]] # Free
    /\ Gets(o, table[m_sd[p]])

\* The descriptor is free again, if it was not before.
CloseSocket(o) ==
    /\ table' = [table EXCEPT ![m_sd[o]] = Free]
    /\ own' = [own EXCEPT ![o] = Free]

-----------------------------------------------------------------------------
(* Construction *)

Exists(o) == doing' = [doing EXCEPT ![o] = "idle"]

\* Socket()
Construct(o) ==
    /\ doing[o] = "none"
    /\ GetsNone(o)
    /\ Exists(o)
    /\ UNCHANGED <<then, source>>

\* Socket(domain, type, protocol); when it throws there is no object.
ConstructNew(o) ==
    /\ doing[o] = "none"
    /\ Opens(o)
    /\ Exists(o)
    /\ UNCHANGED <<then, source>>

\* Socket(from); when it throws there is no object.
ConstructCopy(o, p) ==
    /\ doing[o] = "none" /\ AtRest(p)
    /\ IF m_sd[p] = Invalid THEN GetsNone(o) ELSE DuplicateSocket(o, p)
    /\ Exists(o)
    /\ UNCHANGED <<then, source>>

\* accept() returns a temporary Socket(sd) for the new connection, which
\* TcpSocket(s) then copies and the end of the expression destroys.
Accept(o, p) ==
    /\ doing[o] = "none" /\ AtRest(p)
    /\ m_sd[p] # Invalid /\ table[m_sd[p]] # Free
    /\ Opens(o)
    /\ Exists(o)
    /\ UNCHANGED <<then, source>>

-----------------------------------------------------------------------------
(* Closing *)

\* Mutant: the object goes on without having closed.
CloseForgotten(o, next, p) ==
    /\ AtRest(o)
    /\ source' = [source EXCEPT ![o] = p]
    /\ doing' = [doing EXCEPT ![o] = next]
    /\ UNCHANGED <<m_sd, then, table, own>>

\* close(), whose two steps are this and Reset, on the way to "next".
CloseThen(o, next, p) ==
    /\ AtRest(o)
    /\ source' = [source EXCEPT ![o] = p]
    /\ IF m_sd[o] = Invalid
       THEN /\ doing' = [doing EXCEPT ![o] = next]
            /\ UNCHANGED <<m_sd, then, table, own>>
       ELSE /\ CloseSocket(o)
            /\ doing' = [doing EXCEPT ![o] = "reset"]
            /\ then' = [then EXCEPT ![o] = next]
            /\ UNCHANGED m_sd

\* Mutant: m_sd keeps its number.
ResetForgotten(o) ==
    /\ doing[o] = "reset"
    /\ m_sd' = m_sd
    /\ doing' = [doing EXCEPT ![o] = then[o]]
    /\ UNCHANGED <<then, source, table, own>>

\* m_sd = invalid
Reset(o) ==
    /\ doing[o] = "reset"
    /\ m_sd' = [m_sd EXCEPT ![o] = Invalid]
    /\ doing' = [doing EXCEPT ![o] = then[o]]
    /\ UNCHANGED <<then, source, table, own>>

Close(o) == CloseThen(o, "idle", o)

\* ~Socket(), after the close() of ~TcpBuffer() or alone; also when the
\* constructor of a TcpClient or TcpServer throws, which Start() does when it
\* cannot connect, bind or listen.
Destruct(o) == CloseThen(o, "none", o)

-----------------------------------------------------------------------------
(* Assignment and creation *)

\* *this = *this does nothing.
Assign(o, p) ==
    /\ o # p
    /\ AtRest(p)
    /\ CloseThen(o, "assign", p)

\* The second half of operator=, which does not tell when dup() fails.
AssignCopy(o) ==
    /\ doing[o] = "assign"
    /\ \/ DuplicateSocket(o, source[o])
       \/ GetsNone(o)
    /\ Exists(o)
    /\ UNCHANGED <<then, source>>

\* create() closes without setting m_sd to invalid.
Create(o) ==
    /\ AtRest(o)
    /\ IF m_sd[o] = Invalid THEN UNCHANGED <<table, own>> ELSE CloseSocket(o)
    /\ doing' = [doing EXCEPT ![o] = "create"]
    /\ UNCHANGED <<m_sd, then, source>>

\* It throws if there is no socket, but then m_sd is invalid.
CreateSocket(o) ==
    /\ doing[o] = "create"
    /\ Opens(o) \/ GetsNone(o)
    /\ Exists(o)
    /\ UNCHANGED <<then, source>>

SdNext ==
    \E o \in Objects :
        \/ Construct(o) \/ ConstructNew(o)
        \/ Close(o) \/ Destruct(o) \/ Reset(o)
        \/ AssignCopy(o)
        \/ Create(o) \/ CreateSocket(o)
        \/ \E p \in Objects : ConstructCopy(o, p) \/ Accept(o, p) \/ Assign(o, p)

SdSpec == SdInit /\ [][SdNext]_sdVars

-----------------------------------------------------------------------------
(* Correctness *)

SdTypeOK ==
    /\ m_sd \in [Objects -> Fds \union {Invalid}]
    /\ doing \in [Objects -> Phases]
    /\ then \in [Objects -> {"none", "idle", "assign"}]
    /\ source \in [Objects -> Objects]
    /\ table \in [Fds -> Conns \union {Free}]
    /\ own \in [Objects -> Conns \union {Free}]
    /\ \A o \in Objects : doing[o] \in {"none", "assign"} => m_sd[o] = Invalid

\* Between CloseSocket() and the next value of m_sd the number is stale.
Stale(o) == doing[o] \in {"reset", "create"}

Holds(o, fd) == m_sd[o] = fd /\ ~Stale(o)

(***************************************************************************)
(* What the number in m_sd refers to is the object's own connection, which *)
(* no other object has closed and replaced: send() and recv() never reach  *)
(* a connection of someone else.                                           *)
(***************************************************************************)
OwnConnection ==
    \A o \in Objects : ~Stale(o) =>
        IF m_sd[o] = Invalid THEN own[o] = Free
        ELSE table[m_sd[o]] = own[o] /\ own[o] # Free

(***************************************************************************)
(* No two objects hold one descriptor, copies least of all.                *)
(***************************************************************************)
OneOwner ==
    \A o, p \in Objects : \A fd \in Fds : Holds(o, fd) /\ Holds(p, fd) => o = p

(***************************************************************************)
(* "Socket descriptor is automatically closed when desctructed": an open   *)
(* descriptor has an object that exists and will close it, so nothing is   *)
(* left when all objects are gone, whatever failed on the way.             *)
(***************************************************************************)
NoLeak ==
    \A fd \in Fds : table[fd] # Free =>
        \E o \in Objects : Holds(o, fd) /\ doing[o] # "none"

\* What is not constructed, closing or about to be assigned owns nothing.
NothingOwned == \A o \in Objects : doing[o] # "idle" => own[o] = Free

SdIInv == SdTypeOK /\ OwnConnection /\ OneOwner /\ NoLeak /\ NothingOwned

=============================================================================
