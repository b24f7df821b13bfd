------------------------------ MODULE Console ------------------------------
(***************************************************************************)
(* The management console (internal/server/console.go): browsers sign in,  *)
(* read the configuration and save it, concurrently, while the file may be *)
(* edited by hand and the process may be killed and started again.         *)
(*                                                                         *)
(* A step is the code between two accesses to what handlers share: the     *)
(* server's configuration, the session table, the configuration file.      *)
(* The console is enabled throughout.                                      *)
(***************************************************************************)
EXTENDS ConfigFile

CONSTANTS Browsers,
          StartFile,
          Edits(_),      \* what may be made of the backends of a form
          HandEdits(_),  \* what may be made of the file by hand
          NewPasswords, NewLogs,
          Unusable,      \* usage logs that cannot be opened
          MaxSaves, MaxHandEdits, MaxStarts  \* bounds

\* main loads the file, and New validates what LoadConfig validated already: the
\* password is expanded once more, and the form it had in the file is forgotten.
Started(doc) ==
    LET once == Config(doc)
    IN  [once EXCEPT !.raw = once.password, !.password = Expanded[once.password]]

\* New fails also if nothing is left of the password by then, or if the usage
\* log cannot be opened.
Starts(doc) == Loads(doc) /\ Started(doc).password # "" /\ doc.log \notin Unusable

\* Passwords are closed under expansion, and the first start succeeds.
ASSUME ConsoleAssumption ==
    /\ \A p \in DOMAIN Expanded : Expanded[p] \in DOMAIN Expanded
    /\ StartFile.raw \in DOMAIN Expanded /\ Starts(StartFile)
    /\ NewPasswords \subseteq DOMAIN Expanded
    /\ {"free", "start", "hand"} \cap Browsers = {}
    /\ MaxSaves \in Nat /\ MaxHandEdits \in Nat /\ MaxStarts \in Nat

VARIABLES file,      \* the configuration file
          mem,       \* the configuration in force, s.Cfg
          lock,      \* holder of the write lock s.mu, or "free"
          session,   \* session[w]: the session of w's cookie, or None
          browser,   \* browser[w]: w's form, and the locals of the handler that serves w
          count,     \* bounds: saves, hand edits and starts so far
          last,      \* history: who wrote the file last
          apart,     \* history: memory was not taken from the file as it is
          typed      \* history: a password was typed into a form

vars == <<file, mem, lock, session, browser, count, last, apart, typed>>
history == <<last, apart, typed>>

\* A session knows its password by history only; it is `late' if a reload with
\* another password overtook its sign-in.  One per browser: a second sign-in
\* only adds a session that nobody uses any more.
None == [pw |-> "", late |-> FALSE]

\* `of' is what the form was made from, <<>> if there is none, `read' the file
\* that was patched.
NoCall(of) == [pc |-> "idle", of |-> of, pw |-> "", payload |-> <<>>, snap |-> <<>>,
               cfg |-> <<>>, read |-> <<>>, doc |-> <<>>]
Done(w) == browser' = [browser EXCEPT ![w] = NoCall(@.of)]

Init == /\ file = StartFile /\ mem = Started(StartFile)
        /\ lock = "free"
        /\ session = [w \in Browsers |-> None]
        /\ browser = [w \in Browsers |-> NoCall(<<>>)]
        /\ count = [saves |-> 0, edits |-> 0, starts |-> 0]
        /\ last = "start" /\ apart = FALSE /\ typed = FALSE

-----------------------------------------------------------------------------
(* Signing in and out.                                                     *)

\* The password is compared with that of a snapshot ...
SignIn(w) ==
    /\ browser[w].pc = "idle" /\ session[w] = None /\ lock = "free"
    /\ browser' = [browser EXCEPT ![w].pc = "issue", ![w].pw = mem.password]
    /\ UNCHANGED <<file, mem, lock, session, count, history>>

\* ... and the session stored later, whatever was reloaded in between.
IssueSession(w) ==
    /\ browser[w].pc = "issue"
    /\ LET pw == browser[w].pw
       IN  session' = [session EXCEPT ![w] =
              [pw |-> pw, late |-> \/ pw # mem.password
                                   \/ /\ lock # "free"
                                      /\ pw # Config(browser[lock].doc).password]]
    /\ Done(w)
    /\ UNCHANGED <<file, mem, lock, count, history>>

\* Sign-out, expiry, and the clean-up of expired sessions.
EndSession(w) ==
    /\ session[w] # None
    /\ session' = [session EXCEPT ![w] = None]
    /\ UNCHANGED <<file, mem, lock, browser, count, history>>

\* requireConsoleAuth; the handler behind it takes its own snapshot.
Authorise(w) ==
    /\ browser[w].pc = "idle" /\ session[w] # None /\ lock = "free"
    /\ browser' = [browser EXCEPT ![w].pc = "authorised"]
    /\ UNCHANGED <<file, mem, lock, session, count, history>>

-----------------------------------------------------------------------------
(* GET and PUT of the configuration.                                       *)

Get(w) ==
    /\ browser[w].pc = "authorised" /\ lock = "free"
    /\ browser' = [browser EXCEPT ![w].pc = "idle", ![w].of = mem]
    /\ UNCHANGED <<file, mem, lock, session, count, history>>

\* What a browser sends: its form with the backends, the password or the usage
\* log changed.  The form has no password, and no password means no change.
Payloads(w) ==
    LET form == [backends |-> Redacted(browser[w].of.backends), password |-> "",
                 log |-> browser[w].of.log]
    IN  {[form EXCEPT !.backends = b] : b \in Edits(form.backends)}
        \cup {[form EXCEPT !.password = pw] : pw \in NewPasswords}
        \cup {[form EXCEPT !.log = l] : l \in NewLogs}

\* What the form lacks: the secrets, and the password as it was written.
Completed(p) == [p EXCEPT !.backends = Restored(@, mem.backends),
                          !.password = IF @ # "" THEN @
                                       ELSE IF mem.raw # "" THEN mem.raw ELSE mem.password]

\* handleConsoleConfigPut fills it in from its snapshot.
Prepare(w) ==
    /\ browser[w].pc = "authorised" /\ lock = "free"
    /\ browser[w].of # <<>> /\ count.saves < MaxSaves
    /\ \E p \in Payloads(w) :
          /\ browser' = [browser EXCEPT ![w].pc = "prepared", ![w].payload = p, ![w].snap = mem,
                 ![w].cfg = Completed(p)]
          /\ typed' = (typed \/ p.password # "")
    /\ count' = [count EXCEPT !.saves = @ + 1]
    /\ UNCHANGED <<file, mem, lock, session, last, apart>>

\* Mutant: the temporary file is not loaded before it replaces the other.
ValidateNothing(w) ==
    /\ browser[w].pc = "prepared"
    /\ browser' = [browser EXCEPT ![w].pc = "validated", ![w].read = file,
                                  ![w].doc = Patched(file, browser[w].cfg)]
    /\ UNCHANGED <<file, mem, lock, session, count, history>>

\* SaveAndReloadConfig: the file is read and patched into a temporary one,
\* which must load ...
Validate(w) ==
    /\ browser[w].pc = "prepared"
    /\ Loads(Patched(file, browser[w].cfg))
    /\ browser' = [browser EXCEPT ![w].pc = "validated", ![w].read = file,
                                  ![w].doc = Patched(file, browser[w].cfg)]
    /\ UNCHANGED <<file, mem, lock, session, count, history>>

\* ... or else the browser is told, and nothing was changed.
Refuse(w) ==
    /\ browser[w].pc = "prepared"
    /\ ~Loads(Patched(file, browser[w].cfg))
    /\ Done(w)
    /\ UNCHANGED <<file, mem, lock, session, count, history>>

\* os.Rename
Replace(w) ==
    /\ browser[w].pc = "validated"
    /\ file' = browser[w].doc
    /\ last' = w
    /\ browser' = [browser EXCEPT ![w].pc = "replaced"]
    /\ UNCHANGED <<mem, lock, session, count, apart, typed>>

\* Mutant: the new password is compared with the one the handler knew.
RevokeByOwnSnapshot(w) ==
    /\ browser[w].pc = "replaced" /\ lock = "free"
    /\ lock' = w
    /\ session' = IF Config(browser[w].doc).password = browser[w].snap.password THEN session
                  ELSE [v \in Browsers |-> None]
    /\ browser' = [browser EXCEPT ![w].pc = "reload"]
    /\ UNCHANGED <<file, mem, count, history>>

\* ReloadConfig revokes all sessions if the password differs ...
Revoke(w) ==
    /\ browser[w].pc = "replaced" /\ lock = "free"
    /\ lock' = w
    /\ session' = IF Config(browser[w].doc).password = mem.password THEN session
                  ELSE [v \in Browsers |-> None]
    /\ browser' = [browser EXCEPT ![w].pc = "reload"]
    /\ UNCHANGED <<file, mem, count, history>>

\* Mutant: the settings of the rebuilt usage log are not remembered.
SwapForgetsLog(w) ==
    /\ browser[w].pc = "reload"
    /\ browser[w].doc.log = mem.log \/ browser[w].doc.log \notin Unusable
    /\ mem' = [Config(browser[w].doc) EXCEPT !.log = mem.log]
    /\ lock' = "free"
    /\ apart' = (last # w)
    /\ Done(w)
    /\ UNCHANGED <<file, session, count, last, typed>>

\* ... and puts the configuration that was loaded into force, after it opened
\* the usage log if that is another one.
Swap(w) ==
    /\ browser[w].pc = "reload"
    /\ browser[w].doc.log = mem.log \/ browser[w].doc.log \notin Unusable
    /\ mem' = Config(browser[w].doc)
    /\ lock' = "free"
    /\ apart' = (last # w)
    /\ Done(w)
    /\ UNCHANGED <<file, session, count, last, typed>>

\* The usage log could not be rebuilt, for good or this time: the file stays as
\* it is now.
FailRebuild(w) ==
    /\ browser[w].pc = "reload" /\ browser[w].doc.log # mem.log
    /\ lock' = "free"
    /\ apart' = TRUE
    /\ Done(w)
    /\ UNCHANGED <<file, mem, session, count, last, typed>>

-----------------------------------------------------------------------------
(* Others.                                                                 *)

HandEdit ==
    /\ count.edits < MaxHandEdits
    /\ file' \in HandEdits(file) /\ file'.raw \in DOMAIN Expanded
    /\ last' = "hand" /\ apart' = TRUE
    /\ count' = [count EXCEPT !.edits = @ + 1]
    /\ UNCHANGED <<mem, lock, session, browser, typed>>

\* The process is killed wherever it is, and started; if it does not start, it
\* changes nothing and waits for an edit by hand.  Browsers keep their forms.
Restart ==
    /\ count.starts < MaxStarts /\ Starts(file)
    /\ mem' = Started(file)
    /\ lock' = "free"
    /\ session' = [w \in Browsers |-> None]
    /\ browser' = [w \in Browsers |-> NoCall(browser[w].of)]
    /\ apart' = FALSE
    /\ count' = [count EXCEPT !.starts = @ + 1]
    /\ UNCHANGED <<file, last, typed>>

Sign(w) == SignIn(w) \/ IssueSession(w) \/ EndSession(w) \/ Authorise(w)
Save(w) == \/ Get(w) \/ Prepare(w) \/ Validate(w) \/ Refuse(w) \/ Replace(w)
           \/ Revoke(w) \/ Swap(w) \/ FailRebuild(w)
Next == \/ \E w \in Browsers : Sign(w) \/ Save(w)
        \/ HandEdit \/ Restart

Spec == Init /\ [][Next]_vars

-----------------------------------------------------------------------------
(* Properties.                                                             *)

\* Changing the password signs everybody out: each session was opened with the
\* password in force, whatever saves cross, unless its sign-in overlapped the
\* reload that changed it.
SessionsMatchPassword ==
    \A w \in Browsers : session[w] # None => session[w].late \/ session[w].pw = mem.password

\* The form was made from the backends that the handler found.
Current(w) == browser[w].of.backends = browser[w].snap.backends

\* An edit either renames backends where they are, to names that were free, or
\* leaves their names.
Simple(w) ==
    LET of == browser[w].of.backends
        new == browser[w].payload.backends
    IN  \/ /\ DOMAIN new = DOMAIN of
           /\ \A i \in DOMAIN of :
                 /\ new[i].id = of[i].id
                 /\ \A b \in ToSet(of) : b.name = new[i].name => of[i].name = new[i].name
        \/ \A i \in DOMAIN new : new[i].key = Placeholder =>
               \E b \in ToSet(of) : b.id = new[i].id /\ b.name = new[i].name

\* A save keeps what it did not show: each backend that has a name keeps its
\* own secret, and in the file the keys the console knows nothing of, whatever
\* the edit renames, removes, adds or moves.  (An edit that does two of it, or
\* a form that another save overtook, can give a backend the secret of another;
\* so can a backend without a name, and a file that has a name twice.)
UnseenIsKept ==
    \A w \in Browsers : browser[w].pc \in {"replaced", "reload"} =>
        LET b == browser[w]
        IN  /\ (Current(w) /\ Simple(w)) =>
                 \A i \in DOMAIN b.payload.backends :
                     (b.payload.backends[i].key = Placeholder /\ b.payload.backends[i].name # "") =>
                         \E o \in ToSet(b.snap.backends) :
                             o.id = b.payload.backends[i].id /\ o.key = b.doc.backends[i].key
            /\ UniqueNames(b.read.backends) =>
                 \A old \in ToSet(b.read.backends), new \in ToSet(b.doc.backends) :
                     (old.name = new.name /\ old.name # "") => (old.extra <=> new.extra)

\* Nobody is saving; and the file was not edited by hand, no rebuild of the
\* usage log failed, and no two saves replaced the file and reloaded in
\* different orders, since file and memory were the same.
Settled == ~apart /\ \A w \in Browsers : browser[w].pc \notin {"replaced", "reload"}

\* Then the configuration in force is what a save or a start makes of the file.
\* (The two differ in the password, which a start expands twice.)
FileIsInForce == Settled => mem \in {Config(file), Started(file)}

\* Wherever the process is killed, LoadConfig accepts the file, unless it was
\* broken by hand; and once what was saved is in force, the file names a usage
\* log that can be opened.  (A start can fail nevertheless: after a rebuild
\* that failed, the file being replaced by then, and with a password of which
\* the second expansion leaves nothing.)
FileLoads == /\ Loads(file) \/ last = "hand"
             /\ Settled => file.log \notin Unusable

-----------------------------------------------------------------------------
(* What the documentation and the comments say, and the code does not do.  *)

\* "so saving unrelated config changes doesn't bake an expanded env-var
\* password onto disk as plaintext": the password stays in the file as it was
\* written until another one is typed, or written by hand.
PasswordIsNotBaked == (~typed /\ count.edits = 0) => file.raw = StartFile.raw
=============================================================================
