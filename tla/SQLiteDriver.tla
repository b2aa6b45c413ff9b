----------------------------- MODULE SQLiteDriver -----------------------------
(****************************************************************************)
(* One SQLite connection: crates/sqlite/src/lib.rs, its executor            *)
(* (SerialExecutor, crates/runtime/src/blocking.rs), the built-in methods   *)
(* that drive it (crates/runtime/src/core/private/sqlite.rs) and their      *)
(* callers (lib/src/Database/SQLite).                                       *)
(*                                                                          *)
(* Two threads share the connection.  The main thread runs the event loop.  *)
(* Its task "user" connects; then it runs a query, fetches rows or closes   *)
(* the result and pings the connection, or it begins a transaction and      *)
(* commits it (or pings the connection when begin did not wait); the task   *)
(* "closer" closes the connection, or drops it; the token is cancelled at   *)
(* any time.  A worker thread runs the connection's jobs one after the      *)
(* other.                                                                   *)
(*                                                                          *)
(* `todo` holds the instructions <<name, operation>> that a thread still    *)
(* has to execute in the functions it is in: one for every access to shared *)
(* memory, adjacent loads excepted.  What a function does under one lock is *)
(* one instruction.                                                         *)
(****************************************************************************)
EXTENDS Naturals, Sequences, FiniteSets

CONSTANTS
  RESULT_BUFFER_SIZE,   \* rows a result buffers
  MaxRows               \* bound: rows a query yields

ASSUME SQLiteDriverAssumption ==
  RESULT_BUFFER_SIZE \in Nat \ {0} /\ MaxRows \in Nat

OPEN == 1      \* FIRST_OPERATION
QUERY == 2     \* Connection::execute
BEGIN == 3     \* Connection::begin
COMMIT == 4    \* Connection::commit or rollback
PING == 5      \* Connection::ping or prepare
CLOSE == 6     \* the job of ConnectionShared::close, not an operation
Operations == {OPEN, QUERY, BEGIN, COMMIT, PING}

VARIABLES
  m,         \* what the threads share
  todo,      \* the instructions each thread still has to execute
  at,        \* where each task is
  current,   \* the task the event loop runs, or None
  parked,    \* the tasks armed on the notifier's descriptor
  token,     \* the cancellation token
  my         \* what only the user's objects hold

vars == <<m, todo, at, current, parked, token, my>>

Threads == {"main", "worker"}
Tasks == {"user", "closer", "canceller"}
None == "none"

OPENING == 0
READY == 1
BROKEN == 2
CLOSING == 3
CLOSED == 4

Init ==
  /\ m = [readable |-> FALSE,        \* Notifier: bytes in the socket
          pending |-> FALSE,         \* Notifier::pending
          status |-> OPENING,        \* ConnectionShared::status
          active |-> OPEN,           \* ExecutionState::active
          interrupted |-> 0,         \* ExecutionState::cancelled
          active_result |-> 0,       \* ConnectionShared::active_result
          response |-> [id \in Operations |-> "pending"],   \* OperationShared
          cancelled |-> [id \in Operations |-> FALSE],      \* OperationShared
          rows |-> 0, terminal |-> None, closed |-> FALSE,  \* ResultQueue
          retired |-> FALSE,         \* ResultShared::retired
          asleep |-> FALSE,          \* the worker waits on ResultShared::space
          batch |-> 0,               \* rows the worker has not pushed
          produced |-> 0,            \* rows the query yielded
          open |-> FALSE,            \* ConnectionState::connection
          transaction |-> FALSE,     \* ConnectionState::transaction
          jobs |-> <<OPEN>>,         \* SerialQueue::jobs
          running |-> TRUE]          \* SerialQueue::running
  /\ todo = [t \in Threads |-> <<>>]
  /\ at = [t \in Tasks |-> "start"]
  /\ current = None
  /\ parked = {}
  /\ token = [requested |-> FALSE,   \* the token is cancelled
              callback |-> None]     \* what the user registered with it
  /\ my = [rows |-> 0,               \* ResultSet::rows
           fetched |-> 0,            \* rows the user got
           transactionActive |-> FALSE,   \* ConnectionImpl::transactionActive
           ended |-> FALSE,          \* fetch returned null
           abandoned |-> FALSE,      \* a call left its operation behind
           contended |-> FALSE]      \* a second task waits in close

------------------------------------------------------------------------------
(* Functions, as the instructions they execute.                             *)

\* The flag is raised before the byte is written.
signalEarly == <<<<"store", 0>>, <<"write", 0>>>>

signal == <<<<"write", 0>>, <<"store", 0>>>>

drain == <<<<"swap", 0>>, <<"read", 0>>>>

complete(id, ok) == <<<<IF ok THEN "succeed" ELSE "fail", id>>>>

retireSilently == <<<<"unlink", QUERY>>, <<"release", QUERY>>, <<"retired", QUERY>>>>

retire == <<<<"unlink", QUERY>>, <<"release", QUERY>>, <<"retired", QUERY>>>> \o signal

\* Its notify_all is left out: the worker, who executes it, is the one who waits.
finish(ok) == <<<<IF ok THEN "finish" ELSE "finishError", QUERY>>>> \o signal

\* ResultShared::fail
failQuery == retire \o complete(QUERY, FALSE) \o finish(FALSE)

\* The row stream ends before the connection is released.
finishRowsEarly(ok) == <<<<"push", QUERY>>>> \o finish(ok) \o retire

\* finish_rows; a push that finds the result closed goes to retire and ends.
finishRows(ok) == <<<<"push", QUERY>>>> \o retire \o finish(ok)

\* finish_operation, and the last lines of open
finishOperation(id, ok) == <<<<"release", id>>>> \o complete(id, ok)

closeConnection == <<<<"closed", 0>>>> \o signal

------------------------------------------------------------------------------
(* Instructions of both threads.                                            *)

does(t, name) == todo[t] # <<>> /\ Head(todo[t])[1] = name
operation(t) == Head(todo[t])[2]
rest(t) == Tail(todo[t])

\* Thread t changes the shared memory to n and goes on with code.
becomes(t, n, code) ==
  /\ m' = n
  /\ todo' = [todo EXCEPT ![t] = code]
  /\ UNCHANGED <<at, current, parked, token, my>>

write(t) == does(t, "write") /\ becomes(t, [m EXCEPT !.readable = TRUE], rest(t))

store(t) == does(t, "store") /\ becomes(t, [m EXCEPT !.pending = TRUE], rest(t))

\* Nothing is read when no signal was flagged.
swap(t) ==
  /\ does(t, "swap")
  /\ becomes(t, [m EXCEPT !.pending = FALSE], IF m.pending THEN rest(t) ELSE Tail(rest(t)))

read(t) == does(t, "read") /\ becomes(t, [m EXCEPT !.readable = FALSE], rest(t))

------------------------------------------------------------------------------
(* Instructions of the worker.                                              *)

worker(n, code) == becomes("worker", n, code)

\* OperationShared::complete
respond ==
  /\ does("worker", "succeed") \/ does("worker", "fail")
  /\ LET id == operation("worker")
         answer == IF does("worker", "succeed") THEN "ok" ELSE "error"
     IN  IF m.response[id] = "pending"
         THEN worker([m EXCEPT !.response[id] = answer], signal \o rest("worker"))
         ELSE worker(m, rest("worker"))

unlink ==
  /\ does("worker", "unlink")
  /\ worker([m EXCEPT !.active_result = IF @ = QUERY THEN 0 ELSE @], rest("worker"))

\* ExecutionState::release
release ==
  /\ does("worker", "release")
  /\ worker([m EXCEPT !.active = IF @ = operation("worker") THEN 0 ELSE @], rest("worker"))

setRetired == does("worker", "retired") /\ worker([m EXCEPT !.retired = TRUE], rest("worker"))

setTerminal ==
  /\ does("worker", "finish") \/ does("worker", "finishError")
  /\ worker([m EXCEPT !.terminal = IF does("worker", "finish") THEN "ok" ELSE "error"],
            rest("worker"))

\* The room for the batch is not awaited.
pushOver ==
  /\ does("worker", "push")
  /\ IF m.closed THEN worker([m EXCEPT !.batch = 0], retire)
     ELSE worker([m EXCEPT !.rows = @ + m.batch, !.batch = 0],
                 (IF m.rows = 0 THEN signal ELSE <<>>) \o rest("worker"))

\* push_batch: a full queue waits for space, a closed one ends the query.
push ==
  /\ does("worker", "push") /\ ~m.asleep
  /\ IF m.batch = 0 THEN worker(m, rest("worker"))
     ELSE IF m.closed THEN worker([m EXCEPT !.batch = 0], retire)
     ELSE IF m.rows + m.batch > RESULT_BUFFER_SIZE
     THEN worker([m EXCEPT !.asleep = TRUE], todo["worker"])
     ELSE worker([m EXCEPT !.rows = @ + m.batch, !.batch = 0],
                 (IF m.rows = 0 THEN signal ELSE <<>>) \o rest("worker"))

setClosed ==
  /\ does("worker", "closed")
  /\ worker([m EXCEPT !.status = CLOSED, !.open = FALSE, !.transaction = FALSE],
            rest("worker"))

\* open: the operation may be cancelled, or the connection closed, by then.
startOpen ==
  /\ does("worker", "open")
  /\ IF m.cancelled[OPEN] \/ m.status # OPENING
     THEN worker(m, closeConnection \o finishOperation(OPEN, FALSE))
     ELSE \/ worker(m, <<<<"opened", OPEN>>>>)
          \/ worker(m, <<<<"broken", OPEN>>>>)

broken ==
  /\ does("worker", "broken")
  /\ worker([m EXCEPT !.status = IF @ = OPENING THEN BROKEN ELSE @],
            finishOperation(OPEN, FALSE))

opened ==
  /\ does("worker", "opened")
  /\ IF m.cancelled[OPEN]
     THEN worker(m, closeConnection \o finishOperation(OPEN, FALSE))
     ELSE worker([m EXCEPT !.open = TRUE], <<<<"ready", OPEN>>>>)

\* The status is stored whatever it is by now.
readyAnyway ==
  /\ does("worker", "ready")
  /\ worker([m EXCEPT !.status = READY], finishOperation(OPEN, TRUE))

ready ==
  /\ does("worker", "ready")
  /\ IF m.status = OPENING
     THEN worker([m EXCEPT !.status = READY], finishOperation(OPEN, TRUE))
     ELSE worker(m, closeConnection \o finishOperation(OPEN, FALSE))

\* The job of Connection::submit: run_operation, then finish_operation.
run ==
  /\ does("worker", "run")
  /\ LET id == operation("worker")
     IN  \E ok \in IF m.cancelled[id] \/ ~m.open THEN {FALSE} ELSE BOOLEAN :
           worker([m EXCEPT !.transaction = IF ok /\ id # PING THEN id = BEGIN ELSE @],
                  finishOperation(id, ok))

\* The job of Connection::execute, up to its first row.
execute ==
  /\ does("worker", "execute")
  /\ \/ worker(m, failQuery)
     \/ /\ m.open /\ ~m.cancelled[QUERY] /\ m.interrupted # QUERY
        /\ \/ worker(m, retire \o complete(QUERY, TRUE) \o finish(TRUE))   \* no columns
           \/ worker(m, complete(QUERY, TRUE) \o <<<<"next", QUERY>>>>)

\* One turn of the loop over the rows.
nextRow ==
  /\ does("worker", "next")
  /\ \/ m.interrupted = QUERY /\ worker(m, finishRows(FALSE))
     \/ /\ m.interrupted # QUERY
        /\ \/ /\ m.produced < MaxRows
              /\ worker([m EXCEPT !.produced = @ + 1, !.batch = @ + 1],
                        IF m.batch + 1 = RESULT_BUFFER_SIZE
                        THEN <<<<"push", QUERY>>, <<"next", QUERY>>>>
                        ELSE <<<<"next", QUERY>>>>)
           \/ worker(m, finishRows(TRUE))
           \/ worker(m, finishRows(FALSE))

\* run_serial: the next job, or none.
nextJob ==
  /\ m.running /\ todo["worker"] = <<>>
  /\ IF m.jobs = <<>>
     THEN worker([m EXCEPT !.running = FALSE], <<>>)
     ELSE LET job == Head(m.jobs)
          IN  worker([m EXCEPT !.jobs = Tail(@)],
                     CASE job = OPEN  -> <<<<"open", OPEN>>>>
                       [] job = QUERY -> <<<<"execute", QUERY>>>>
                       [] job = CLOSE -> closeConnection
                       [] OTHER       -> <<<<"run", job>>>>)

------------------------------------------------------------------------------
(* Instructions of the main thread.                                         *)

main(n, code) == becomes("main", n, code)

notify == does("main", "notify") /\ main([m EXCEPT !.asleep = FALSE], rest("main"))

\* The worker that waits for space is not told.
shutQuietly ==
  /\ does("main", "shut")
  /\ main([m EXCEPT !.closed = TRUE, !.rows = 0],
          (IF m.closed THEN <<>> ELSE signal) \o rest("main"))

\* ResultShared::close
shut ==
  /\ does("main", "shut")
  /\ IF m.closed THEN main(m, rest("main"))
     ELSE main([m EXCEPT !.closed = TRUE, !.rows = 0],
               <<<<"notify", 0>>>> \o signal
                 \o (IF m.terminal = None THEN <<<<"interrupt", QUERY>>>> ELSE <<>>)
                 \o rest("main"))

\* OperationShared::cancel, and drop of an Operation that is still pending
cancel ==
  /\ does("main", "cancel") \/ does("main", "drop")
  /\ LET id == operation("main")
     IN  IF does("main", "drop") /\ m.response[id] # "pending"
         THEN main(m, rest("main"))
         ELSE main([m EXCEPT !.cancelled[id] = TRUE],
                   <<<<"interrupt", id>>>> \o rest("main"))

\* ConnectionShared::interrupt; sqlite3_interrupt makes the statement fail, as
\* any statement may.
interrupt ==
  /\ does("main", "interrupt")
  /\ main([m EXCEPT !.interrupted = IF m.active = operation("main") THEN m.active ELSE @],
          rest("main"))

\* A queue that stopped is not started again.
submitIdle(n, job) == [n EXCEPT !.jobs = Append(@, job)]

\* SerialExecutor::submit
submit(n, job) == [n EXCEPT !.jobs = Append(@, job), !.running = TRUE]

\* ConnectionShared::close
close ==
  /\ does("main", "close")
  /\ IF m.status >= CLOSING THEN main(m, rest("main"))
     ELSE main([m EXCEPT !.status = CLOSING], <<<<"interruptActive", 0>>>> \o rest("main"))

interruptActive ==
  /\ does("main", "interruptActive")
  /\ main(m, (IF m.active # 0 THEN <<<<"interrupt", m.active>>>> ELSE <<>>)
               \o <<<<"takeResult", 0>>>> \o rest("main"))

takeResult ==
  /\ does("main", "takeResult")
  /\ main([m EXCEPT !.active_result = 0],
          (IF m.active_result # 0 THEN <<<<"shut", QUERY>>>> ELSE <<>>)
            \o <<<<"submitClose", 0>>>> \o rest("main"))

submitClose == does("main", "submitClose") /\ main(submit(m, CLOSE), rest("main"))

WorkerStep ==
  \/ write("worker") \/ store("worker")
  \/ respond \/ unlink \/ release \/ setRetired \/ setTerminal \/ push \/ setClosed
  \/ startOpen \/ broken \/ opened \/ ready \/ run \/ execute \/ nextRow \/ nextJob

MainInstruction ==
  \/ write("main") \/ store("main") \/ swap("main") \/ read("main")
  \/ notify \/ shut \/ cancel \/ interrupt \/ close \/ interruptActive \/ takeResult
  \/ submitClose

------------------------------------------------------------------------------
(* The event loop and its tasks.                                            *)

\* Inside a call that waits for the descriptor; between calls; and at an end.
Waiting == {"opening", "querying", "fetching", "retiring", "beginning", "committing",
            "pinging", "polling"}
Between == {"connected", "result", "idle", "begun", "refused"}
Ended == {"done", "busy", "unwatched"}

\* Task t runs inside a call and has no instruction left.
runs(t) == current = t /\ todo["main"] = <<>>

\* The event loop may turn to another task: one parked, or is between calls.
idleLoop ==
  current # None => runs(current) /\ at[current] \in Between \cup Ended

goes(t, state, code) ==
  /\ at' = [at EXCEPT ![t] = state]
  /\ todo' = [todo EXCEPT !["main"] = code]

\* What is dropped when a wait throws.
dropped(state) ==
  CASE state \in {"querying", "fetching", "retiring"} -> <<<<"shut", QUERY>>>>
    [] state = "beginning" -> <<<<"drop", BEGIN>>>>
    [] state = "committing" -> <<<<"drop", COMMIT>>>>
    [] state = "pinging" -> <<<<"drop", PING>>>>
    [] OTHER -> <<>>

\* io_wait_until_readable: one task at a time watches a descriptor.
park(t) ==
  /\ IF parked = {}
     THEN parked' = {t} /\ current' = None /\ UNCHANGED <<at, todo>>
     ELSE goes(t, "unwatched", dropped(at[t])) /\ UNCHANGED <<parked, current>>
  /\ UNCHANGED <<m, token, my>>

\* The reactor reports the descriptor.
wake ==
  /\ idleLoop /\ m.readable
  /\ parked # {} /\ parked' = {}
  /\ UNCHANGED <<m, todo, at, current, token, my>>

\* A task that was woken clears the notification first.
schedule(t) ==
  /\ idleLoop /\ at[t] \in Waiting /\ t \notin parked
  /\ current' = t
  /\ todo' = [todo EXCEPT !["main"] = drain]
  /\ UNCHANGED <<m, at, parked, token, my>>

\* The task starts a call; other tasks may have run since its last one.
calls(t, state) == idleLoop /\ at[t] = state /\ current' = t /\ UNCHANGED parked

\* await_operation up to its wait.  A token that is cancelled already makes the
\* call throw although its job is submitted; connect and executeDirect then
\* close what they made, the others drop the operation.
await(id, state, withToken) ==
  IF withToken /\ token.requested
  THEN /\ CASE id = OPEN  -> goes("user", "polling", <<<<"close", 0>>>>)
            [] id = QUERY -> goes("user", "retiring", <<<<"shut", QUERY>>>>)
            [] OTHER      -> goes("user", "refused", <<<<"drop", id>>>>)
       /\ my' = [my EXCEPT !.abandoned = id \notin {OPEN, QUERY}]
       /\ UNCHANGED token
  ELSE /\ goes("user", state, <<>>)
       /\ token' = [token EXCEPT !.callback = IF withToken THEN <<"cancel", id>> ELSE None]
       /\ UNCHANGED my

\* Connector::connect: SQLiteConnection::open submitted the job.
connect(withToken) ==
  /\ calls("user", "start")
  /\ await(OPEN, "opening", withToken)
  /\ UNCHANGED m

\* A call that needs the connection reserves it, or throws.
reserve(id, from, state, withToken) ==
  /\ calls("user", from)
  /\ IF m.status # READY \/ m.active # 0
     THEN /\ goes("user", IF m.status # READY THEN "done" ELSE "busy", <<>>)
          /\ UNCHANGED <<m, token, my>>
     ELSE /\ m' = submit([m EXCEPT !.active = id,
                                   !.active_result = IF id = QUERY THEN id ELSE @], id)
          /\ await(id, state, withToken)

startQuery(withToken) == reserve(QUERY, "connected", "querying", withToken)
begin(withToken) == reserve(BEGIN, "connected", "beginning", withToken)
commit == reserve(COMMIT, "begun", "committing", FALSE)
ping == \E from \in {"idle", "refused"} : reserve(PING, from, "pinging", FALSE)

\* SQLiteOperation::wait, and what its caller does when it returns or throws.
wait(id, state, next, code) ==
  /\ runs("user") /\ at["user"] = state
  /\ IF m.response[id] = "pending" THEN park("user")
     ELSE LET succeeds == m.response[id] = "ok"
                            /\ ~(token.requested /\ token.callback # None)
          IN  /\ m' = [m EXCEPT !.response[id] = "consumed"]
              /\ IF succeeds THEN goes("user", next[1], drain) ELSE goes("user", next[2], drain \o code)
              /\ token' = [token EXCEPT !.callback = None]
              /\ my' = [my EXCEPT !.transactionActive =
                          IF succeeds /\ id \in {BEGIN, COMMIT} THEN id = BEGIN ELSE @]
              /\ UNCHANGED <<current, parked>>

waitOpen == wait(OPEN, "opening", <<"connected", "polling">>, <<<<"close", 0>>>>)
waitQuery == wait(QUERY, "querying", <<"result", "retiring">>, <<<<"shut", QUERY>>>>)
waitBegin == wait(BEGIN, "beginning", <<"begun", "done">>, <<>>)
waitCommit == wait(COMMIT, "committing", <<"done", "done">>, <<>>)
waitPing == wait(PING, "pinging", <<"done", "done">>, <<>>)

\* ResultImpl::fetch up to its first poll_row
fetch(withToken) ==
  /\ calls("user", "result")
  /\ IF withToken /\ token.requested
     THEN goes("user", "retiring", <<<<"shut", QUERY>>>>) /\ UNCHANGED token
     ELSE /\ goes("user", "fetching", <<>>)
          /\ token' = [token EXCEPT !.callback = IF withToken THEN <<"interrupt", QUERY>> ELSE None]
  /\ UNCHANGED <<m, my>>

\* fetch returns a row, or throws it away for a token that was cancelled.
gotRow(n, rows, code) ==
  /\ m' = n
  /\ token' = [token EXCEPT !.callback = None]
  /\ IF token.requested /\ token.callback # None
     THEN /\ goes("user", "retiring", code \o <<<<"shut", QUERY>>>>)
          /\ my' = [my EXCEPT !.rows = 0]
     ELSE /\ goes("user", "result", code)
          /\ my' = [my EXCEPT !.rows = rows, !.fetched = @ + 1]
  /\ UNCHANGED <<current, parked>>

\* fetch returns null or throws; a result that failed is closed.
gotEnd(n, ok, code) ==
  /\ m' = n
  /\ token' = [token EXCEPT !.callback = None]
  /\ IF ok /\ ~(token.requested /\ token.callback # None)
     THEN goes("user", "idle", code) /\ my' = [my EXCEPT !.ended = TRUE]
     ELSE goes("user", "retiring", code \o <<<<"shut", QUERY>>>>) /\ UNCHANGED my
  /\ UNCHANGED <<current, parked>>

takeRows == gotRow([m EXCEPT !.rows = 0], m.rows - 1, <<<<"notify", 0>>>> \o drain)
takeTerminal ==
  gotEnd([m EXCEPT !.terminal = None, !.closed = TRUE], m.terminal = "ok", drain)

\* The terminal result is looked at before the rows.
poll_rowTerminalFirst ==
  /\ runs("user") /\ at["user"] = "fetching"
  /\ IF my.rows > 0 THEN gotRow(m, my.rows - 1, <<>>)
     ELSE IF m.terminal # None THEN takeTerminal
     ELSE IF m.rows > 0 THEN takeRows
     ELSE IF m.closed THEN gotEnd(m, TRUE, <<>>)
     ELSE park("user")

\* SQLiteResult::fetch: poll_row, and a wait when it has nothing.
poll_row ==
  /\ runs("user") /\ at["user"] = "fetching"
  /\ IF my.rows > 0 THEN gotRow(m, my.rows - 1, <<>>)
     ELSE IF m.rows > 0 THEN takeRows
     ELSE IF m.closed THEN gotEnd(m, TRUE, <<>>)
     ELSE IF m.terminal # None THEN takeTerminal
     ELSE park("user")

\* ResultImpl::close
closeResult ==
  /\ calls("user", "result")
  /\ goes("user", "retiring", <<<<"shut", QUERY>>>>)
  /\ my' = [my EXCEPT !.rows = 0]
  /\ UNCHANGED <<m, token>>

\* The loop of close_result
waitRetired ==
  /\ runs("user") /\ at["user"] = "retiring"
  /\ IF m.retired
     THEN goes("user", "idle", <<>>) /\ UNCHANGED <<m, current, parked, token, my>>
     ELSE park("user")

\* SQLiteConnection::close by a second task that holds the connection
startClose ==
  /\ calls("closer", "start")
  /\ at["user"] \in (Waiting \cup Between) \ {"opening", "polling"}
  /\ goes("closer", "polling", <<<<"close", 0>>>>)
  /\ my' = [my EXCEPT !.contended = TRUE]
  /\ UNCHANGED <<m, token>>

\* SQLiteConnection::__destruct: a result does not keep its connection.
destruct ==
  /\ calls("closer", "start")
  /\ at["user"] \in {"result", "fetching", "retiring"}
  /\ goes("closer", "done", <<<<"close", 0>>>>)
  /\ UNCHANGED <<m, token, my>>

\* The loop of SQLiteConnection::close; connect then drops its operation.
poll_close(t) ==
  /\ runs(t) /\ at[t] = "polling"
  /\ IF m.status = CLOSED
     THEN /\ goes(t, "done", IF t = "user" THEN <<<<"drop", OPEN>>>> ELSE <<>>)
          /\ UNCHANGED <<m, current, parked, token, my>>
     ELSE park(t)

\* Another task cancels the token, which runs the callback.
cancelToken ==
  /\ calls("canceller", "start")
  /\ goes("canceller", "done", IF token.callback = None THEN <<>> ELSE <<token.callback>>)
  /\ token' = [token EXCEPT !.requested = TRUE]
  /\ UNCHANGED <<m, my>>

TaskStep ==
  \/ wake
  \/ \E t \in Tasks : schedule(t)
  \/ \E withToken \in (IF token.requested THEN BOOLEAN ELSE {TRUE}) :
       connect(withToken) \/ startQuery(withToken) \/ fetch(withToken) \/ begin(withToken)
  \/ waitOpen \/ waitQuery \/ poll_row \/ closeResult \/ waitRetired
  \/ waitBegin \/ commit \/ waitCommit \/ ping \/ waitPing
  \/ \E t \in {"user", "closer"} : poll_close(t)

\* Everyone is done, or waits for a byte that the other waiting task drained.
Terminating ==
  /\ todo["worker"] = <<>> /\ ~m.running /\ idleLoop /\ (parked = {} \/ ~m.readable)
  /\ \A t \in Tasks : \/ at[t] \in Ended
                      \/ at[t] = "start" /\ t # "user"
                      \/ t \in parked /\ my.contended
  /\ UNCHANGED vars

Next ==
  \/ WorkerStep \/ MainInstruction \/ TaskStep
  \/ startClose \/ destruct \/ cancelToken \/ Terminating

Spec == Init /\ [][Next]_vars

------------------------------------------------------------------------------

\* The shared memory, the queues and the tasks have the shapes the code gives
\* them; a result never buffers more rows than RESULT_BUFFER_SIZE.
TypeOK ==
  /\ m.status \in OPENING..CLOSED
  /\ m.active \in Operations \cup {0} /\ m.interrupted \in Operations \cup {0}
  /\ m.response \in [Operations -> {"pending", "ok", "error", "consumed"}]
  /\ m.rows \in 0..RESULT_BUFFER_SIZE /\ m.batch \in 0..RESULT_BUFFER_SIZE
  /\ m.terminal \in {None, "ok", "error"}
  /\ \A i \in DOMAIN m.jobs : m.jobs[i] \in Operations \cup {CLOSE}
  /\ at \in [Tasks -> Waiting \cup Between \cup Ended \cup {"start"}]
  /\ parked \subseteq Tasks /\ Cardinality(parked) <= 1

\* A byte in the notifier's socket can be drained: unless a thread is inside
\* signal or drain, `pending` is set while the descriptor is readable.
\* Otherwise Notifier::drain returns at once and the task that waits for the
\* descriptor is woken again and again.
BytesCanBeDrained ==
  m.readable /\ ~m.pending =>
    \E t \in Threads : \E i \in DOMAIN todo[t] : todo[t][i][1] \in {"store", "read"}

\* A task that makes one call after the other never finds the connection busy:
\* what ends a call is signalled after ExecutionState::release.  The calls that
\* throw before they wait, because their token is cancelled, are excepted.
SequentialNeverBusy == at["user"] = "busy" => my.abandoned

\* fetch returns null when every row the query yielded was fetched, unless the
\* connection was closed: push_batch, finish and poll_row lose no row between
\* the worker's batch, the shared queue and the local one.
NoRowLost == my.ended /\ m.status < CLOSING => my.fetched = m.produced

\* The status of a connection only rises, whichever of open, close and
\* close_connection comes last: a connection that closes is never ready again.
StatusRises == [][m'.status >= m.status]_vars

\* No wake-up is lost: a user who waits for the descriptor, with nothing in it,
\* has a worker that is still at work and will signal, wherever a close, a
\* cancellation and the user's own drain fell.  A second task that waits for
\* the same descriptor is excepted.
WaiterIsSignalled ==
  parked = {"user"} /\ ~m.readable /\ todo["main"] = <<>> =>
    \/ m.running /\ ~m.asleep /\ (todo["worker"] # <<>> \/ m.jobs # <<>>)
    \/ my.contended

\* The worker sleeps in push_batch only while the queue is too full and open, or
\* until the notification that poll_row or close owes it.
SleeperHasReason ==
  m.asleep => \/ ~m.closed /\ m.rows + m.batch > RESULT_BUFFER_SIZE
              \/ \E i \in DOMAIN todo["main"] : todo["main"][i][1] = "notify"

\* Neither thread waits for the other in vain: no byte is stuck in the notifier,
\* and whoever waits for a signal or for room is going to get it.
WaitsEnd == TypeOK /\ BytesCanBeDrained /\ WaiterIsSignalled /\ SleeperHasReason

\* A connection that closes has its close job ahead of it, in the code of
\* ConnectionShared::close, in a queue that runs, or at the worker; open may get
\* there first.
CloseWillHappen ==
  m.status = CLOSING =>
    \/ \E i \in DOMAIN todo["main"] :
         todo["main"][i][1] \in {"interruptActive", "takeResult", "submitClose"}
    \/ m.running /\ \E i \in DOMAIN m.jobs : m.jobs[i] = CLOSE
    \/ m.running /\ \E i \in DOMAIN todo["worker"] : todo["worker"][i][1] = "closed"

\* isReusable tells whether the connection "can safely execute more work": no
\* connection that is outside a call and says so is inside a transaction.
ReusableMeansNoTransaction ==
  /\ at["user"] # "beginning"
  /\ ~my.transactionActive /\ m.status = READY /\ m.active = 0
  => ~m.transaction

\* After one call has ended the connection is ready for the next: not busy, and
\* not in a transaction it does not know of.  A cancelled token is excepted: a
\* begin() that it ends after the worker executed BEGIN leaves the transaction
\* open (await_operation looks at the token once more after the wait).
ReadyForNextCall ==
  SequentialNeverBusy /\ (token.requested \/ ReusableMeansNoTransaction)

==============================================================================
