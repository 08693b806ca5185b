--------------------------------- MODULE Bridge ---------------------------------
(***************************************************************************)
(* The life of nvimotator's socket bridges: the extension (index.ts), the  *)
(* bridge (src/bridge.ts), the registry of manifests, sockets and          *)
(* reservations on disk (src/registry.ts), and the Neovim that removes     *)
(* what a killed Pi left (lua/pi_nvimotator/registry.lua).  What a bridge  *)
(* answers is Annotations.tla.                                             *)
(*                                                                         *)
(* A bridge is the number of its creation.  The files of one id that one   *)
(* function writes or removes in a row change in one step; the read and    *)
(* the rename of updateManifest are two.                                   *)
(***************************************************************************)
EXTENDS Integers, Sequences

CONSTANTS
    Pis,            \* Pi processes that share the registry
    Neovims,        \* Neovim instances that look ids up
    BridgeIds,      \* the ids to draw from
    MaxBridges,     \* bound on the bridges created
    MaxCommands,    \* bound on /nvim-last and /nvim-annotate
    MaxGenerations  \* bound on session_shutdown events and crashes, per Pi

VARIABLES
    reserved, manifest, socket,     \* id -> the bridge whose file it is, or 0
    state,      \* bridge -> its state; "lost" with its process
    pi,         \* bridge -> its process
    id,         \* bridge -> its id, or 0
    born,       \* bridge -> the generation of its command
    generation, \* process -> the extension's generation
    bridge,     \* process -> the extension's `bridge`, or 0
    waiting,    \* process -> generations of the handlers in waitForIdle
    queue,      \* process -> operations behind `operations`
    op,         \* process -> the operation that runs
    cleaner,    \* Neovim -> the stale locator it is removing
    made, commands,
    untidy      \* history: bridges that left files behind when they stopped

registry == <<reserved, manifest, socket>>
fixed == <<pi, id, born>>
extension == <<generation, bridge, waiting, queue, op>>
vars == <<registry, state, fixed, extension, cleaner, made, commands, untidy>>

Bridges == 1..MaxBridges
NoOp == [at |-> "none", gen |-> 0, b |-> 0]
NotCleaning == [at |-> "none", id |-> 0, b |-> 0]

-----------------------------------------------------------------------------
(* Mutants: slips in the extension that the properties must notice.        *)

Current_Always(p, gen) == TRUE
Without_Nothing(files, b) == files

-----------------------------------------------------------------------------
Init ==
    /\ reserved = [i \in BridgeIds |-> 0]
    /\ manifest = [i \in BridgeIds |-> 0]
    /\ socket = [i \in BridgeIds |-> 0]
    /\ state = [b \in Bridges |-> "unborn"]
    /\ pi \in {[b \in Bridges |-> p] : p \in Pis}
    /\ id = [b \in Bridges |-> 0]
    /\ born = [b \in Bridges |-> 0]
    /\ generation = [p \in Pis |-> 0]
    /\ bridge = [p \in Pis |-> 0]
    /\ waiting = [p \in Pis |-> {}]
    /\ queue = [p \in Pis |-> <<>>]
    /\ op = [p \in Pis |-> NoOp]
    /\ cleaner = [n \in Neovims |-> NotCleaning]
    /\ made = 0
    /\ commands = 0
    /\ untidy = {}

Current(p, gen) == gen = generation[p]
Serialized(p, next) == op' = [op EXCEPT ![p] = next]
Enqueue(p, next) == queue' = [queue EXCEPT ![p] = Append(@, next)]
Forgets(p, b) == bridge' = IF bridge[p] = b THEN [bridge EXCEPT ![p] = 0] ELSE bridge

-----------------------------------------------------------------------------
(* /nvim-last and /nvim-annotate wait until Pi is idle; a handler whose    *)
(* session ended meanwhile does nothing.                                   *)
Command(p) ==
    /\ commands < MaxCommands
    /\ commands' = commands + 1
    /\ waiting' = [waiting EXCEPT ![p] = @ \cup {generation[p]}]
    /\ UNCHANGED <<registry, state, fixed, generation, bridge, queue, op, cleaner, made, untidy>>

PiIsIdle(p, gen) ==
    /\ gen \in waiting[p]
    /\ waiting' = [waiting EXCEPT ![p] = @ \ {gen}]
    /\ IF Current(p, gen) THEN Enqueue(p, [do |-> "show", gen |-> gen]) ELSE UNCHANGED queue
    /\ UNCHANGED <<registry, state, fixed, generation, bridge, op, cleaner, made, commands, untidy>>

SessionShutdown(p) ==
    /\ generation[p] < MaxGenerations
    /\ generation' = [generation EXCEPT ![p] = @ + 1]
    /\ Enqueue(p, [do |-> "shutdown", gen |-> 0])
    /\ UNCHANGED <<registry, state, fixed, bridge, waiting, op, cleaner, made, commands, untidy>>

-----------------------------------------------------------------------------
(* serialize: one operation at a time.                                     *)

(* stop() of a bridge that is not stopped, and what the operation awaits.  *)
Stopping(b) == IF state[b] = "running" THEN [state EXCEPT ![b] = "stopping"] ELSE state

(* A bridge that runs is refreshed, any other is stopped and replaced.     *)
ShowBegins(p) ==
    /\ op[p] = NoOp /\ queue[p] # <<>> /\ Head(queue[p]).do = "show"
    /\ queue' = [queue EXCEPT ![p] = Tail(@)]
    /\ LET gen == Head(queue[p]).gen
           b == bridge[p]
       IN  \/ ~Current(p, gen) /\ UNCHANGED <<bridge, op, state>>
           \/ /\ Current(p, gen) /\ b # 0 /\ state[b] = "running"
              /\ Serialized(p, [at |-> "refresh", gen |-> gen, b |-> b])
              /\ UNCHANGED <<bridge, state>>
           \/ /\ Current(p, gen) /\ (b # 0 => state[b] # "running")
              /\ Forgets(p, b)
              /\ Serialized(p, [at |-> IF b = 0 THEN "create" ELSE "stop stale", gen |-> gen, b |-> b])
              /\ UNCHANGED state
    /\ UNCHANGED <<registry, fixed, generation, waiting, cleaner, made, commands, untidy>>

ShutdownBegins(p) ==
    /\ op[p] = NoOp /\ queue[p] # <<>> /\ Head(queue[p]).do = "shutdown"
    /\ queue' = [queue EXCEPT ![p] = Tail(@)]
    /\ LET b == bridge[p]
       IN  IF b = 0
           THEN UNCHANGED <<bridge, op, state>>
           ELSE /\ Forgets(p, b)
                /\ Serialized(p, [at |-> "stop", gen |-> 0, b |-> b])
                /\ state' = Stopping(b)
    /\ UNCHANGED <<registry, fixed, generation, waiting, cleaner, made, commands, untidy>>

(* updateManifest: a read of the manifest, which must be the bridge's own, *)
(* and a rename over it, whatever has become of both meanwhile.            *)
ReadManifest(p) ==
    /\ op[p].at = "refresh"
    /\ Serialized(p, IF manifest[id[op[p].b]] = op[p].b THEN [op[p] EXCEPT !.at = "rename"] ELSE NoOp)
    /\ UNCHANGED <<registry, state, fixed, generation, bridge, waiting, queue, cleaner, made, commands, untidy>>

RenameManifest(p) ==
    /\ op[p].at = "rename"
    /\ LET b == op[p].b
       IN  /\ manifest' = [manifest EXCEPT ![id[b]] = b]
           /\ untidy' = IF state[b] = "stopped" THEN untidy \cup {b} ELSE untidy
    /\ Serialized(p, NoOp)
    /\ UNCHANGED <<reserved, socket, state, fixed, generation, bridge, waiting, queue, cleaner, made, commands>>

RefreshFails(p) ==
    /\ op[p].at \in {"refresh", "rename"}
    /\ Serialized(p, NoOp)
    /\ UNCHANGED <<registry, state, fixed, generation, bridge, waiting, queue, cleaner, made, commands, untidy>>

Create(p) ==
    /\ op[p].at = "create" /\ made < MaxBridges
    /\ made' = made + 1
    /\ state' = [state EXCEPT ![made'] = "starting"]
    /\ pi' = [pi EXCEPT ![made'] = p]
    /\ born' = [born EXCEPT ![made'] = op[p].gen]
    /\ bridge' = [bridge EXCEPT ![p] = made']
    /\ Serialized(p, [op[p] EXCEPT !.at = "reserve", !.b = made'])
    /\ UNCHANGED <<registry, id, generation, waiting, queue, cleaner, commands, untidy>>

(* reserveBridgeId: an id whose lock file and manifest are both absent.    *)
Reserve(p, i) ==
    /\ op[p].at = "reserve" /\ reserved[i] = 0 /\ manifest[i] = 0
    /\ reserved' = [reserved EXCEPT ![i] = op[p].b]
    /\ id' = [id EXCEPT ![op[p].b] = i]
    /\ Serialized(p, [op[p] EXCEPT !.at = "listen"])
    /\ UNCHANGED <<manifest, socket, state, pi, born, generation, bridge, waiting, queue, cleaner, made, commands, untidy>>

(* prepareSocketPath removes a socket that was left; the server binds.     *)
Listen(p) ==
    /\ op[p].at = "listen"
    /\ socket' = [socket EXCEPT ![id[op[p].b]] = op[p].b]
    /\ Serialized(p, [op[p] EXCEPT !.at = "publish"])
    /\ UNCHANGED <<reserved, manifest, state, fixed, generation, bridge, waiting, queue, cleaner, made, commands, untidy>>

(* publishManifest links the manifest, which must not be there yet, and    *)
(* releases the reservation; then the bridge accepts.                      *)
Publish(p) ==
    /\ op[p].at = "publish" /\ manifest[id[op[p].b]] = 0
    /\ LET b == op[p].b
       IN  /\ manifest' = [manifest EXCEPT ![id[b]] = b]
           /\ reserved' = [reserved EXCEPT ![id[b]] = 0]
           /\ state' = [state EXCEPT ![b] = "running"]
    /\ Serialized(p, [op[p] EXCEPT !.at = "started"])
    /\ UNCHANGED <<socket, fixed, generation, bridge, waiting, queue, cleaner, made, commands, untidy>>

(* The catch of start(): the reservation is released by name, and so is a  *)
(* socket without an identity.  A manifest that was linked before          *)
(* publishManifest failed stays.                                           *)
Unnamed(files, b) == IF id[b] = 0 THEN files ELSE [files EXCEPT ![id[b]] = 0]

StartFails(p) ==
    /\ op[p].at \in {"reserve", "listen", "publish"}
    /\ LET b == op[p].b
       IN  /\ state' = [state EXCEPT ![b] = "stopped"]
           /\ socket' = Unnamed(socket, b)
           /\ reserved' = Unnamed(reserved, b)
           /\ \/ UNCHANGED <<manifest, untidy>>
              \/ /\ op[p].at = "publish" /\ manifest[id[b]] = 0
                 /\ manifest' = [manifest EXCEPT ![id[b]] = b]
                 /\ untidy' = untidy \cup {b}
    /\ Serialized(p, [op[p] EXCEPT !.at = "failed"])
    /\ UNCHANGED <<fixed, generation, bridge, waiting, queue, cleaner, made, commands>>

(* The catch of startOrRefresh stops the candidate, which still knows its  *)
(* reservation and path, and removes both once more.                       *)
StopFailed(p) ==
    /\ op[p].at = "failed"
    /\ LET b == op[p].b
       IN  /\ Forgets(p, b)
           /\ socket' = Unnamed(socket, b)
           /\ reserved' = Unnamed(reserved, b)
    /\ Serialized(p, NoOp)
    /\ UNCHANGED <<manifest, state, fixed, generation, waiting, queue, cleaner, made, commands, untidy>>

(* A session that ended while the bridge started does not keep it.         *)
Started(p) ==
    /\ op[p].at = "started"
    /\ LET b == op[p].b
       IN  IF Current(p, op[p].gen)
           THEN Serialized(p, NoOp) /\ UNCHANGED <<bridge, state>>
           ELSE /\ Forgets(p, b)
                /\ state' = Stopping(b)
                /\ Serialized(p, [op[p] EXCEPT !.at = "stop"])
    /\ UNCHANGED <<registry, fixed, generation, waiting, queue, cleaner, made, commands, untidy>>

(* The operation that awaits a stop goes on.                               *)
Awaited(p) ==
    /\ op[p].at \in {"stop", "stop stale"} /\ state[op[p].b] = "stopped"
    /\ Serialized(p, IF op[p].at = "stop" THEN NoOp ELSE [op[p] EXCEPT !.at = "create", !.b = 0])
    /\ UNCHANGED <<registry, state, fixed, generation, bridge, waiting, queue, cleaner, made, commands, untidy>>

-----------------------------------------------------------------------------
(* A Neovim's "finish" stops the bridge once it is answered.               *)
Finish(b) ==
    /\ state[b] = "running"
    /\ state' = Stopping(b)
    /\ UNCHANGED <<registry, fixed, extension, cleaner, made, commands, untidy>>

(* stop(): socket and manifest are removed if they are this bridge's own;  *)
(* onClosed.                                                               *)
Without(files, b) == [i \in BridgeIds |-> IF files[i] = b THEN 0 ELSE files[i]]

Stops(b) ==
    /\ state[b] = "stopping"
    /\ socket' = Without(socket, b)
    /\ manifest' = Without(manifest, b)
    /\ state' = [state EXCEPT ![b] = "stopped"]
    /\ Forgets(pi[b], b)
    /\ UNCHANGED <<reserved, fixed, generation, waiting, queue, op, cleaner, made, commands, untidy>>

(* A removal in stop() throws: what comes after it is not removed.         *)
StopBreaks(b) ==
    /\ state[b] = "stopping"
    /\ socket' \in {socket, Without(socket, b)}
    /\ state' = [state EXCEPT ![b] = "stopped"]
    /\ untidy' = untidy \cup {b}
    /\ Forgets(pi[b], b)
    /\ UNCHANGED <<reserved, manifest, fixed, generation, waiting, queue, op, cleaner, made, commands>>

(* Pi is killed and started again: its files stay.                         *)
Crash(p) ==
    /\ generation[p] < MaxGenerations
    /\ generation' = [generation EXCEPT ![p] = @ + 1]
    /\ state' = [b \in Bridges |->
          IF pi[b] = p /\ state[b] # "unborn" THEN "lost" ELSE state[b]]
    /\ bridge' = [bridge EXCEPT ![p] = 0]
    /\ waiting' = [waiting EXCEPT ![p] = {}]
    /\ queue' = [queue EXCEPT ![p] = <<>>]
    /\ Serialized(p, NoOp)
    /\ UNCHANGED <<registry, fixed, cleaner, made, commands, untidy>>

-----------------------------------------------------------------------------
(* Neovim's lookup finds a manifest whose pid is dead, and remove_stale    *)
(* looks twice whether the file is still the one it read.                  *)

Cleans(n, next) == cleaner' = [cleaner EXCEPT ![n] = next]

LookUp(n, i) ==
    /\ cleaner[n] = NotCleaning
    /\ manifest[i] # 0 /\ state[manifest[i]] = "lost"
    /\ Cleans(n, [at |-> "socket", id |-> i, b |-> manifest[i]])
    /\ UNCHANGED <<registry, state, fixed, extension, made, commands, untidy>>

SameManifest(c) == manifest[c.id] = c.b

RemoveStaleSocket(n) ==
    /\ cleaner[n].at = "socket"
    /\ IF SameManifest(cleaner[n])
       THEN /\ socket' = [socket EXCEPT ![cleaner[n].id] = 0]
            /\ Cleans(n, [cleaner[n] EXCEPT !.at = "manifest"])
       ELSE Cleans(n, NotCleaning) /\ UNCHANGED socket
    /\ UNCHANGED <<reserved, manifest, state, fixed, extension, made, commands, untidy>>

RemoveStaleManifest(n) ==
    /\ cleaner[n].at = "manifest"
    /\ manifest' = IF SameManifest(cleaner[n]) THEN [manifest EXCEPT ![cleaner[n].id] = 0] ELSE manifest
    /\ Cleans(n, NotCleaning)
    /\ UNCHANGED <<reserved, socket, state, fixed, extension, made, commands, untidy>>

Operation(p) ==
    \/ ShowBegins(p) \/ ShutdownBegins(p) \/ ReadManifest(p) \/ RenameManifest(p) \/ RefreshFails(p)
    \/ Create(p) \/ (\E i \in BridgeIds : Reserve(p, i)) \/ Listen(p) \/ Publish(p) \/ StartFails(p)
    \/ StopFailed(p) \/ Started(p) \/ Awaited(p)

Next ==
    \/ \E p \in Pis :
          \/ Command(p) \/ SessionShutdown(p) \/ Crash(p) \/ Operation(p)
          \/ \E gen \in waiting[p] : PiIsIdle(p, gen)
    \/ \E b \in Bridges : Finish(b) \/ Stops(b) \/ StopBreaks(b)
    \/ \E n \in Neovims :
          \/ RemoveStaleSocket(n) \/ RemoveStaleManifest(n)
          \/ \E i \in BridgeIds : LookUp(n, i)

Spec == Init /\ [][Next]_vars

-----------------------------------------------------------------------------
(* Properties.                                                             *)

(* Whoever overlaps with whom - commands, a shutdown, a finish, a start    *)
(* that fails - a Pi that has nothing more to do runs at most the bridge   *)
(* its extension knows, and that belongs to the session it is in: no       *)
(* bridge outlives its session.                                            *)
NothingOutlivesItsSession ==
    \A b \in Bridges : LET p == pi[b] IN
        state[b] \in {"starting", "running"} /\ op[p] = NoOp /\ queue[p] = <<>>
            => bridge[p] = b /\ born[b] = generation[p]

(* The registry tells the truth: a running bridge has its manifest and its *)
(* socket, which no cleanup of a stale locator takes from it, and a        *)
(* stopped one leaves no reservation behind, and no manifest or socket     *)
(* either unless its start or its stop broke off halfway or a refresh that *)
(* was on its way put the manifest back.                                   *)
RegistryIsTrue ==
    \A b \in Bridges :
        /\ state[b] = "running" => manifest[id[b]] = b /\ socket[id[b]] = b
        /\ state[b] = "stopped" =>
              \A i \in BridgeIds : /\ reserved[i] # b
                                   /\ b \in {manifest[i], socket[i]} => b \in untidy
=============================================================================
