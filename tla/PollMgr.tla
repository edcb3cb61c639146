------------------------------- MODULE PollMgr -------------------------------
(***************************************************************************)
(* PollMgr and SelectAIO of rpc/pollmgr.cc: one thread selects on the      *)
(* descriptors of all connections and calls them back.  The operations are *)
(* called by that thread and by the threads that send on, or close, a      *)
(* connection.  A descriptor stands for its connection, callbacks_[fd].    *)
(***************************************************************************)
EXTENDS Integers, FiniteSets

CONSTANTS Fd,            \* descriptors with a connection
          Thread         \* threads, besides the poll thread

VARIABLES rfds, wfds,      \* SelectAIO: the descriptors watched
          pipe,            \* pipefd_ holds a byte, which makes select return
          callbacks,       \* the fds with callbacks_[fd] # NULL
          pending_change,
          removing,        \* where each thread is in block_remove_fd
          loop,            \* where the poll thread is in wait_loop
          readable, writable,  \* what select was given, then what it returned
          calling          \* the callback being made: {} or {<<"read", fd>>}

pollVars == <<rfds, wfds, pipe, callbacks, pending_change, removing,
              loop, readable, writable, calling>>

pollTypeOK ==
  /\ rfds \subseteq Fd /\ wfds \subseteq Fd /\ callbacks \subseteq Fd
  /\ pipe \in BOOLEAN
  /\ pending_change \in BOOLEAN
  /\ removing \in [Thread -> {"no", "waiting", "woken"}]
  /\ loop \in {"wait_ready", "select", "callbacks"}
  /\ readable \subseteq Fd /\ writable \subseteq Fd
  /\ calling \subseteq {"read", "write"} \X Fd /\ Cardinality(calling) <= 1

(* Every connection has been made, and has registered for reading. *)
pollInit ==
  /\ rfds = Fd /\ wfds = {} /\ callbacks = Fd
  /\ pipe = TRUE
  /\ pending_change = FALSE
  /\ removing = [t \in Thread |-> "no"]
  /\ loop = "callbacks"
  /\ readable = {} /\ writable = {} /\ calling = {}

-----------------------------------------------------------------------------
(* SelectAIO: watch_fd(fd, CB_WRONLY) and unwatch_fd(fd, flag), for the flags it
   is given.  Only CB_RDWR makes select return. *)
watch_fd(fd) == wfds' = wfds \cup {fd} /\ pipe' = TRUE /\ UNCHANGED rfds

unwatch_fd(fd, flag) ==
  /\ wfds' = wfds \ {fd}
  /\ rfds' = IF flag = "CB_RDWR" THEN rfds \ {fd} ELSE rfds
  /\ pipe' = (pipe \/ flag = "CB_RDWR")

(* add_callback(fd, CB_WRONLY, ch). *)
add_callback(fd) ==
  /\ watch_fd(fd)
  /\ callbacks' = callbacks \cup {fd}
  /\ UNCHANGED <<pending_change, removing>>

del_callback(fd, flag) ==
  /\ unwatch_fd(fd, flag)
  /\ callbacks' = IF fd \in rfds' THEN callbacks ELSE callbacks \ {fd}
  /\ UNCHANGED <<pending_change, removing>>

watchVars == <<rfds, wfds, pipe, callbacks, pending_change, removing>>

(* block_remove_fd, up to the wait and after it. *)
StartRemoveNoWaitMutant(t, fd) ==
  /\ removing[t] = "no"
  /\ unwatch_fd(fd, "CB_RDWR")
  /\ pending_change' = TRUE
  /\ removing' = [removing EXCEPT ![t] = "woken"]
  /\ UNCHANGED <<callbacks, loop, readable, writable, calling>>

StartRemoveClearMutant(t, fd) ==
  /\ removing[t] = "no"
  /\ unwatch_fd(fd, "CB_RDWR")
  /\ callbacks' = callbacks \ {fd}
  /\ pending_change' = TRUE
  /\ removing' = [removing EXCEPT ![t] = "waiting"]
  /\ UNCHANGED <<loop, readable, writable, calling>>

StartRemoveSilentMutant(t, fd) ==
  /\ removing[t] = "no"
  /\ rfds' = rfds \ {fd} /\ wfds' = wfds \ {fd}
  /\ pending_change' = TRUE
  /\ removing' = [removing EXCEPT ![t] = "waiting"]
  /\ UNCHANGED <<pipe, callbacks, loop, readable, writable, calling>>

StartRemove(t, fd) ==
  /\ removing[t] = "no"
  /\ unwatch_fd(fd, "CB_RDWR")
  /\ pending_change' = TRUE
  /\ removing' = [removing EXCEPT ![t] = "waiting"]
  /\ UNCHANGED <<callbacks, loop, readable, writable, calling>>

EndRemove(t, fd) ==
  /\ removing[t] = "woken"
  /\ callbacks' = callbacks \ {fd}
  /\ removing' = [removing EXCEPT ![t] = "no"]
  /\ UNCHANGED <<rfds, wfds, pipe, pending_change, loop, readable, writable, calling>>

-----------------------------------------------------------------------------
(* wait_loop *)

(* The top of the loop, once all callbacks are made. *)
Top ==
  /\ loop = "callbacks"
  /\ readable = {} /\ writable = {} /\ calling = {}
  /\ pending_change' = FALSE
  /\ removing' = [t \in Thread |-> IF pending_change /\ removing[t] = "waiting"
                                   THEN "woken" ELSE removing[t]]
  /\ loop' = "wait_ready"
  /\ UNCHANGED <<rfds, wfds, pipe, callbacks, readable, writable, calling>>

(* wait_ready copies the sets, *)
WaitReady ==
  /\ loop = "wait_ready"
  /\ readable' = rfds /\ writable' = wfds
  /\ loop' = "select"
  /\ UNCHANGED <<watchVars, calling>>

(* and select returns the descriptors that are ready, r to be read and w to
   be written, once there is one.  It reads one byte of the pipe; further ones
   would only make the next select return at once, and are not counted. *)
SelectMutant(r, w) ==
  /\ loop = "select"
  /\ pipe \/ readable \cap r # {} \/ writable \cap w # {}
  /\ pipe' = FALSE
  /\ loop' = "callbacks"
  /\ UNCHANGED <<rfds, wfds, callbacks, pending_change, removing, calling, readable, writable>>

Select(r, w) ==
  /\ loop = "select"
  /\ readable' = readable \cap r /\ writable' = writable \cap w
  /\ pipe \/ readable' # {} \/ writable' # {}
  /\ pipe' = FALSE
  /\ loop' = "callbacks"
  /\ UNCHANGED <<rfds, wfds, callbacks, pending_change, removing, calling>>

(* The next descriptor: all that are readable before any that is writable.
   callbacks_[fd] is read without the lock, and the call comes after. *)
Fetch ==
  /\ loop = "callbacks" /\ calling = {}
  /\ \/ \E fd \in readable :
          /\ readable' = readable \ {fd}
          /\ calling' = IF fd \in callbacks THEN {<<"read", fd>>} ELSE {}
          /\ UNCHANGED writable
     \/ \E fd \in writable :
          /\ readable = {}
          /\ writable' = writable \ {fd}
          /\ calling' = IF fd \in callbacks THEN {<<"write", fd>>} ELSE {}
          /\ UNCHANGED readable
  /\ UNCHANGED <<watchVars, loop>>

(* A callback of fd returns; watchVars are its business. *)
CalledBack(kind, fd) ==
  /\ calling = {<<kind, fd>>}
  /\ calling' = {}
  /\ UNCHANGED <<loop, readable, writable>>
=============================================================================
