----------------------------- MODULE LazyModule -----------------------------
(***************************************************************************)
(* LazyModule of virtualization/loader.py, as LazyFinder and LazyLoader    *)
(* make it for a registered package: threads share the module and load it  *)
(* on the first attribute access.  A thread may be switched after every    *)
(* statement.                                                              *)
(***************************************************************************)
EXTENDS Naturals

CONSTANTS Threads,
          MaxAccesses \* a bound on the accesses of each thread

ASSUME LazyAssumption == MaxAccesses \in Nat

VARIABLES
  fetcher,  \* LazyModule._fetch_func is set
  loaded,   \* LazyModule._loaded
  real,     \* LazyModule._real_module is set
  copied,   \* the attributes are in the module's __dict__
  access,   \* what each thread does in __getattr__
  uses,     \* accesses of each thread so far
  excused,  \* threads whose access began while another one was loading the module
  private,  \* threads whose access is to a name with an underscore in front
  early,    \* threads whose access began before the attributes were copied
  unfetched \* a fetch has failed or found nothing

lazyVars == <<fetcher, loaded, real, copied, access, uses, excused, private, early, unfetched>>

LazyInit ==
  /\ fetcher \in BOOLEAN
  /\ loaded = FALSE /\ real = FALSE /\ copied = FALSE
  /\ access = [t \in Threads |-> "idle"]
  /\ uses = [t \in Threads |-> 0]
  /\ excused = {} /\ private = {} /\ early = {}
  /\ unfetched = FALSE

ThreadAt(t, where) == access' = [access EXCEPT ![t] = where]

Loading(t) == access[t] \in {"unloaded", "fetching"}

\* Sets that a thread is put into, or taken out of, when its access begins.
Noted(S, t, when) == IF when THEN S \union {t} ELSE S \ {t}

\* A name that the module has is looked up: in __dict__, else in __getattr__,
\* which has none with an underscore in front; for the others _ensure_loaded
\* looks at _loaded.
AccessBegin(t, underscore) ==
  /\ access[t] = "idle" /\ uses[t] < MaxAccesses
  /\ uses' = [uses EXCEPT ![t] = @ + 1]
  /\ ThreadAt(t, CASE copied -> "got"
                   [] ~copied /\ underscore -> "missed"
                   [] ~copied /\ ~underscore -> IF loaded THEN "pick" ELSE "unloaded")
  /\ excused' = Noted(excused, t, \E v \in Threads : Loading(v))
  /\ private' = Noted(private, t, underscore)
  /\ early' = Noted(early, t, ~copied)
  /\ UNCHANGED <<fetcher, loaded, real, copied, unfetched>>

\* _loaded is set before the module is fetched; without a fetch function that is all.
FetchBegin(t) ==
  /\ access[t] = "unloaded"
  /\ loaded' = TRUE
  /\ ThreadAt(t, IF fetcher THEN "fetching" ELSE "pick")
  /\ UNCHANGED <<fetcher, real, copied, uses, excused, private, early, unfetched>>

\* A mutation: what was fetched is not kept.
KeptNot(found) == FALSE

\* self._real_module
Kept(found) == found

\* The fetch function returns a module or nothing.
FetchEnds(t, found) ==
  /\ access[t] = "fetching"
  /\ real' = Kept(found)
  /\ unfetched' = (unfetched \/ ~found)
  /\ ThreadAt(t, "copy")
  /\ UNCHANGED <<fetcher, loaded, copied, uses, excused, private, early>>

\* The attributes of the module, if there is one, are copied.
CopyAttributes(t) ==
  /\ access[t] = "copy"
  /\ copied' = (copied \/ real)
  /\ ThreadAt(t, "pick")
  /\ UNCHANGED <<fetcher, loaded, real, uses, excused, private, early, unfetched>>

\* The fetch function raises, and so does the access; _loaded stays set.
FetchRaises(t) ==
  /\ access[t] = "fetching"
  /\ unfetched' = TRUE
  /\ ThreadAt(t, "missed")
  /\ UNCHANGED <<fetcher, loaded, real, copied, uses, excused, private, early>>

\* The attribute of the real module, or AttributeError.
Pick(t) ==
  /\ access[t] = "pick"
  /\ ThreadAt(t, IF real THEN "got" ELSE "missed")
  /\ UNCHANGED <<fetcher, loaded, real, copied, uses, excused, private, early, unfetched>>

\* The thread goes on.
AccessEnd(t) ==
  /\ access[t] \in {"got", "missed"}
  /\ ThreadAt(t, "idle")
  /\ UNCHANGED <<fetcher, loaded, real, copied, uses, excused, private, early, unfetched>>

\* Every thread has used up its accesses.
NoMoreAccesses ==
  (\A t \in Threads : access[t] = "idle" /\ uses[t] = MaxAccesses) /\ UNCHANGED lazyVars

LazyNext ==
  \/ NoMoreAccesses
  \/ \E t \in Threads : \/ FetchBegin(t) \/ CopyAttributes(t) \/ FetchRaises(t)
                        \/ Pick(t) \/ AccessEnd(t) \/ \E b \in BOOLEAN : AccessBegin(t, b) \/ FetchEnds(t, b)

LazySpec == LazyInit /\ [][LazyNext]_lazyVars

-----------------------------------------------------------------------------

\* An attribute that the module has is missed only by an access that began before
\* the attributes were copied, and only if some fetch failed, or there is nothing to
\* fetch with, or another thread was loading the module when the access began, or
\* its name starts with an underscore, however the threads are switched.
MissesExplained ==
  \A t \in Threads : access[t] = "missed" =>
    t \in early /\ (unfetched \/ ~fetcher \/ t \in excused \/ t \in private)
=============================================================================
