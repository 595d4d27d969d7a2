----------------------------- MODULE Extensions -----------------------------
(***************************************************************************)
(* Which extensions are loaded, which are switched on, what outlives a     *)
(* restart of it.                                                          *)
(*                                                                         *)
(* aionui-extension: registry.rs, registry_helpers.rs, state.rs,           *)
(* lifecycle.rs, loader.rs, hub/installer.rs; aionui-app: router/state.rs. *)
(* The switches are kept three times: by the registry, which answers the   *)
(* requests; by the state store, beside the version seen last; and in the  *)
(* file that a writer task brings up to the store half a second after a    *)
(* change.  A start reads the file, a hot reload the store.                *)
(*                                                                         *)
(* A version is a number, 0 for an extension whose directory is not there. *)
(***************************************************************************)
EXTENDS Naturals, FiniteSets

CONSTANTS
  Exts,            \* the names an extension may have
  Calls,           \* bound: requests in flight at once
  MaxVersion,      \* bound: versions of an extension
  None,
  Budgets          \* bound: how often each kind of event may come

Kinds == {"toggle", "hub", "ship", "unsaved", "unread", "crash"}

VARIABLES
  disk,            \* the version in the directory of an extension
  file, store,     \* extension-states.json; ExtensionStateStore: None, or [enabled, version]
  registry,        \* RegistryInner.extensions
  scanned,         \* RegistryInner.scan_paths are known
  permit,          \* write_notify holds a permit
  sleeping,        \* the writer is in its debounce
  call, up, used,
  wish,            \* history: how the user wants an extension switched
  crossed,         \* history: a toggle or a reload ran into a reload or a twin
  unsaved          \* history: the last write of the file failed

vars == <<disk, file, store, registry, scanned, permit, sleeping, call, up, used, wish, crossed,
          unsaved>>

Versions == 1 .. MaxVersion
State == [enabled : BOOLEAN, version : Versions]
States == [Exts -> State \cup {None}]
Nothing == [e \in Exts |-> None]

\* A toggle holds the state it will store, a reload what it found.
CallState ==
  [pc : {"set"}, ext : Exts, state : State]
    \cup [pc : {"deactivate"}]
    \cup [pc : {"activate", "commit"}, found : States]

ExtensionAssumption ==
  /\ MaxVersion \in Nat \ {0} /\ None \notin State /\ None \notin CallState
  /\ Budgets \subseteq [Kinds -> Nat]

\* The first start, with extensions there or not.
Init ==
  /\ disk \in [Exts -> {0, 1}]
  /\ file = Nothing /\ store = Nothing /\ registry = Nothing
  /\ scanned = FALSE /\ permit = FALSE /\ sleeping = FALSE
  /\ call = [c \in Calls |-> None] /\ up = FALSE /\ used = [k \in Kinds |-> 0]
  /\ wish = [e \in Exts |-> TRUE] /\ crossed = FALSE /\ unsaved = FALSE

-----------------------------------------------------------------------------
(* Helpers *)

Spend(kind) ==
  /\ used' = [used EXCEPT ![kind] = @ + 1]
  /\ \E limit \in Budgets : \A k \in Kinds : used'[k] <= limit[k]

At(c, step) == call[c] # None /\ call[c].pc = step
Over(c) == call' = [call EXCEPT ![c] = None]
Reloading == \E c \in Calls : At(c, "activate") \/ At(c, "commit")
Idle == \A c \in Calls : call[c] = None

\* load_and_validate, then merge_persisted_states: the version is the
\* manifest's, the switch the one on record or on.
Merge(known, record) ==
  [e \in Exts |->
     IF ~known \/ disk[e] = 0 THEN None
     ELSE [enabled |-> record[e] # None => record[e].enabled, version |-> disk[e]]]

disks == <<disk, file>>
writer == <<permit, sleeping>>
history == <<wish, crossed, unsaved>>

-----------------------------------------------------------------------------
(* Start and stop *)

\* initialize_with_scan_paths: nothing is served before it is done.
Start ==
  /\ ~up
  /\ LET found == Merge(TRUE, file)
     IN /\ registry' = found /\ store' = found
        /\ wish' = [e \in Exts |-> found[e] = None \/ wish[e]]
  /\ scanned' = TRUE /\ permit' = TRUE /\ up' = TRUE
  /\ UNCHANGED <<disks, sleeping, call, used, crossed, unsaved>>

\* The file could not be read: the error is logged and the program goes on.
StartUnread ==
  /\ ~up /\ Spend("unread")
  /\ up' = TRUE
  /\ UNCHANGED <<disks, store, registry, scanned, writer, call, history>>

\* Nobody flushes the store: what the writer has not saved is gone, and the
\* user starts again from what the file says.
Stop ==
  /\ up /\ Spend("crash")
  /\ up' = FALSE /\ store' = Nothing /\ registry' = Nothing /\ scanned' = FALSE
  /\ permit' = FALSE /\ sleeping' = FALSE /\ call' = [c \in Calls |-> None]
  /\ wish' = [e \in Exts |-> file[e] # None => file[e].enabled]
  /\ crossed' = FALSE /\ unsaved' = FALSE
  /\ UNCHANGED disks

-----------------------------------------------------------------------------
(* The switches *)

\* enable_extension, disable_extension: the registry first, under its lock.
Toggle(c, e) ==
  /\ up /\ call[c] = None /\ registry[e] # None /\ Spend("toggle")
  /\ LET state == [registry[e] EXCEPT !.enabled = ~@]
     IN /\ registry' = [registry EXCEPT ![e] = state]
        /\ call' = [call EXCEPT ![c] = [pc |-> "set", ext |-> e, state |-> state]]
        /\ wish' = [wish EXCEPT ![e] = state.enabled]
  /\ crossed' = (crossed \/ Reloading \/ \E d \in Calls : At(d, "set") /\ call[d].ext = e)
  /\ UNCHANGED <<disks, store, scanned, writer, up, unsaved>>

\* ExtensionStateStore::set, outside the lock.
Set(c) ==
  /\ At(c, "set")
  /\ store' = [store EXCEPT ![call[c].ext] = call[c].state]
  /\ permit' = TRUE /\ Over(c)
  /\ UNCHANGED <<disks, registry, scanned, sleeping, up, used, history>>

-----------------------------------------------------------------------------
(* The hub and the hot reload *)

\* What the hub offers comes into the directory from outside.
Ship(e) ==
  /\ disk[e] < MaxVersion /\ Spend("ship")
  /\ disk' = [disk EXCEPT ![e] = @ + 1]
  /\ UNCHANGED <<file, store, registry, scanned, writer, call, up, history>>

\* install, retry_install, update: the directory is there and is in order.
\* hot_reload takes a picture of the registry for the onDeactivate hooks.
Install(c, e) ==
  /\ up /\ call[c] = None /\ disk[e] # 0 /\ Spend("hub")
  /\ call' = [call EXCEPT ![c] = [pc |-> "deactivate"]]
  /\ UNCHANGED <<disks, store, registry, scanned, writer, up, history>>

\* uninstall removes the directory first; with the record goes the wish.
Uninstall(c, e) ==
  /\ up /\ call[c] = None /\ disk[e] # 0 /\ Spend("hub")
  /\ disk' = [disk EXCEPT ![e] = 0]
  /\ call' = [call EXCEPT ![c] = [pc |-> "deactivate"]]
  /\ UNCHANGED <<file, store, registry, scanned, writer, up, history>>

\* Mutant of Load: the switches are taken from the file.
LoadFromFile(c) ==
  /\ At(c, "deactivate")
  /\ LET found == Merge(scanned, file)
     IN /\ call' = [call EXCEPT ![c] = [pc |-> "activate", found |-> found]]
        /\ wish' = [e \in Exts |-> found[e] = None \/ wish[e]]
  /\ crossed' = (crossed \/ Reloading \/ \E d \in Calls : At(d, "set"))
  /\ UNCHANGED <<disks, store, registry, scanned, writer, up, used, unsaved>>

\* After the onDeactivate hooks: the manifests and the store are read, and
\* the hooks of what was found are called.
Load(c) ==
  /\ At(c, "deactivate")
  /\ LET found == Merge(scanned, store)
     IN /\ call' = [call EXCEPT ![c] = [pc |-> "activate", found |-> found]]
        /\ wish' = [e \in Exts |-> found[e] = None \/ wish[e]]
  /\ crossed' = (crossed \/ Reloading \/ \E d \in Calls : At(d, "set"))
  /\ UNCHANGED <<disks, store, registry, scanned, writer, up, used, unsaved>>

\* After the hooks: set_all replaces the whole map.
SetAll(c) ==
  /\ At(c, "activate")
  /\ store' = call[c].found /\ permit' = TRUE
  /\ call' = [call EXCEPT ![c].pc = "commit"]
  /\ UNCHANGED <<disks, registry, scanned, sleeping, up, used, history>>

Commit(c) ==
  /\ At(c, "commit")
  /\ registry' = call[c].found /\ Over(c)
  /\ UNCHANGED <<disks, store, scanned, writer, up, used, history>>

-----------------------------------------------------------------------------
(* The writer *)

\* One permit stands for any number of notifications.
WriterWakes ==
  /\ permit /\ ~sleeping
  /\ permit' = FALSE /\ sleeping' = TRUE
  /\ UNCHANGED <<disks, store, registry, scanned, call, up, used, history>>

\* save_states_to_file renames a whole new file into place.
WriterSaves ==
  /\ sleeping
  /\ file' = store /\ sleeping' = FALSE /\ unsaved' = FALSE
  /\ UNCHANGED <<disk, store, registry, scanned, permit, call, up, used, wish, crossed>>

\* A failed write is logged; the next change tries again.
WriterFails ==
  /\ sleeping /\ Spend("unsaved")
  /\ sleeping' = FALSE /\ unsaved' = TRUE
  /\ UNCHANGED <<disks, store, registry, scanned, permit, call, up, wish, crossed>>

-----------------------------------------------------------------------------
Request(c) == Set(c) \/ Load(c) \/ SetAll(c) \/ Commit(c)

Next ==
  \/ \E c \in Calls, e \in Exts : Toggle(c, e) \/ Install(c, e) \/ Uninstall(c, e)
  \/ \E c \in Calls : Request(c)
  \/ \E e \in Exts : Ship(e)
  \/ WriterWakes \/ WriterSaves \/ WriterFails
  \/ Start \/ StartUnread \/ Stop

Spec == Init /\ [][Next]_vars

-----------------------------------------------------------------------------
(* Properties *)

\* Every variable is of its type.
TypeOK ==
  /\ disk \in [Exts -> 0 .. MaxVersion]
  /\ file \in States /\ store \in States /\ registry \in States
  /\ {scanned, permit, sleeping, up, crossed, unsaved} \subseteq BOOLEAN
  /\ call \in [Calls -> CallState \cup {None}]
  /\ used \in [Kinds -> Nat]
  /\ wish \in [Exts -> BOOLEAN]

\* Requests and the writer are at rest, and the last write did not fail.
AtRest == up /\ scanned /\ Idle /\ ~permit /\ ~sleeping /\ ~unsaved

\* registry.rs, state.rs: once everything is at rest the registry, the store
\* and the file agree, and every extension is switched as the user asked last,
\* through reloads, updates, removals and restarts; unless a toggle or a reload
\* came while a reload had read the store and not yet committed, or while the
\* same extension was being toggled.
SwitchesAreKept ==
  AtRest /\ ~crossed =>
    /\ registry = store /\ store = file
    /\ \A e \in Exts : registry[e] # None => registry[e].enabled = wish[e]
=============================================================================
