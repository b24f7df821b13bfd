---------------------------- MODULE ConsoleProofs ----------------------------
(* What holds of the console however many browsers save, whatever they may   *)
(* send, however often the file is edited by hand and the process started.   *)
EXTENDS Console, TLAPS

\* A handler's locals, and a session, have their fields and no others.
CallFields == {"pc", "of", "pw", "payload", "snap", "cfg", "read", "doc"}
IsCall(c) == c = [field \in CallFields |-> c[field]]
IsSession(s) == s = [pw |-> s.pw, late |-> s.late]

Shape == /\ browser = [w \in Browsers |-> browser[w]]
         /\ \A w \in Browsers : IsCall(browser[w])
         /\ session = [w \in Browsers |-> session[w]]
         /\ \A w \in Browsers : IsSession(session[w])

\* The lock is held by the handler that reloads.
LockOK == \A w \in Browsers : browser[w].pc = "reload" <=> lock = w

\* What a handler is about to put in the place of the file was loaded.
ValidatedOK == \A w \in Browsers : browser[w].pc = "validated" => Loads(browser[w].doc)

\* While a reload is under way a session that no reload overtook has both the
\* password in force and the one that is about to be.
SessionOK(s) ==
    s # None => \/ s.late
                \/ /\ s.pw = mem.password
                   /\ \A w \in Browsers : lock = w => s.pw = Config(browser[w].doc).password
SessionsOK == \A w \in Browsers : SessionOK(session[w])

\* Only an edit by hand leaves a file that LoadConfig refuses.
LoadsOK == Loads(file) \/ last = "hand"

IInv == Shape /\ LockOK /\ ValidatedOK /\ SessionsOK /\ LoadsOK

LEMMA InitOK == Init => IInv
<1> SUFFICES ASSUME Init PROVE IInv
  OBVIOUS
<1>1. \A w \in Browsers : browser[w] = NoCall(<<>>) /\ session[w] = None
  BY DEF Init
<1>2. Shape
  BY <1>1 DEF Init, Shape, IsCall, CallFields, IsSession, NoCall, None
<1>3. LockOK /\ ValidatedOK
  BY <1>1, ConsoleAssumption DEF Init, LockOK, ValidatedOK, NoCall
<1>4. SessionsOK
  BY <1>1 DEF SessionsOK, SessionOK
<1>5. LoadsOK
  BY ConsoleAssumption DEF Init, LoadsOK, Starts
<1>6. QED
  BY <1>2, <1>3, <1>4, <1>5 DEF IInv

\* The handler of w goes on to c, and nobody else does; none of them reloads.
HandlerMoves(w, c) == /\ browser' = [browser EXCEPT ![w] = c]
                      /\ IsCall(c) /\ c.pc # "reload" /\ browser[w].pc # "reload"
                      /\ c.pc = "validated" => Loads(c.doc)

LEMMA MoveOK ==
    ASSUME Shape, LockOK, ValidatedOK, NEW w \in Browsers, NEW c, HandlerMoves(w, c),
           UNCHANGED lock
    PROVE  /\ browser' = [v \in Browsers |-> browser'[v]]
           /\ \A v \in Browsers : IsCall(browser'[v])
           /\ LockOK' /\ ValidatedOK'
           /\ \A v \in Browsers : lock = v => browser'[v] = browser[v]
<1>1. browser' = [v \in Browsers |-> IF v = w THEN c ELSE browser[v]]
  BY DEF HandlerMoves, Shape
<1>2. lock # w
  BY DEF LockOK, HandlerMoves
<1>3. \A v \in Browsers : browser'[v] = IF v = w THEN c ELSE browser[v]
  BY <1>1
<1>4. \A v \in Browsers : IsCall(browser'[v])
  BY <1>3 DEF Shape, HandlerMoves
<1>5. LockOK'
  BY <1>2, <1>3 DEF LockOK, HandlerMoves
<1>6. ValidatedOK'
  BY <1>3 DEF ValidatedOK, HandlerMoves
<1>7. QED
  BY <1>1, <1>2, <1>3, <1>4, <1>5, <1>6

\* Such a step keeps sessions as they are.
LEMMA MoveKeepsIInv ==
    ASSUME IInv, NEW w \in Browsers, NEW c, HandlerMoves(w, c),
           UNCHANGED <<mem, lock, session>>, LoadsOK'
    PROVE  IInv'
<1>1. Shape /\ LockOK /\ ValidatedOK /\ SessionsOK
  BY DEF IInv
<1>2. /\ browser' = [v \in Browsers |-> browser'[v]]
      /\ \A v \in Browsers : IsCall(browser'[v])
      /\ LockOK' /\ ValidatedOK'
      /\ \A v \in Browsers : lock = v => browser'[v] = browser[v]
  BY <1>1, MoveOK
<1>3. Shape'
  BY <1>1, <1>2 DEF Shape
<1>4. SessionsOK'
  BY <1>1, <1>2 DEF SessionsOK, SessionOK
<1>5. QED
  BY <1>2, <1>3, <1>4 DEF IInv

-----------------------------------------------------------------------------
(* One lemma for each sort of step.                                          *)

LEMMA LocalOK ==
    ASSUME IInv, NEW w \in Browsers,
           SignIn(w) \/ Authorise(w) \/ Get(w) \/ Prepare(w) \/ Validate(w) \/ Refuse(w)
    PROVE  IInv'
<1>0. IsCall(browser[w])
  BY DEF IInv, Shape
<1>a. UNCHANGED <<file, mem, lock, session, last>>
  BY DEF SignIn, Authorise, Get, Prepare, Validate, Refuse, history
<1>b. LoadsOK'
  BY <1>a DEF IInv, LoadsOK
<1>1. CASE SignIn(w)
  <2> DEFINE c == [browser[w] EXCEPT !.pc = "issue", !.pw = mem.password]
  <2>1. browser' = [browser EXCEPT ![w] = c] /\ browser[w].pc = "idle"
    BY <1>1 DEF SignIn
  <2>2. IsCall(c) /\ c.pc = "issue"
    BY <1>0 DEF IsCall, CallFields
  <2>3. HandlerMoves(w, c)
    BY <2>1, <2>2 DEF HandlerMoves
  <2>4. QED
    BY <1>a, <1>b, <2>3, MoveKeepsIInv
<1>2. CASE Authorise(w)
  <2> DEFINE c == [browser[w] EXCEPT !.pc = "authorised"]
  <2>1. browser' = [browser EXCEPT ![w] = c] /\ browser[w].pc = "idle"
    BY <1>2 DEF Authorise
  <2>2. IsCall(c) /\ c.pc = "authorised"
    BY <1>0 DEF IsCall, CallFields
  <2>3. HandlerMoves(w, c)
    BY <2>1, <2>2 DEF HandlerMoves
  <2>4. QED
    BY <1>a, <1>b, <2>3, MoveKeepsIInv
<1>3. CASE Get(w)
  <2> DEFINE c == [browser[w] EXCEPT !.pc = "idle", !.of = mem]
  <2>1. browser' = [browser EXCEPT ![w] = c] /\ browser[w].pc = "authorised"
    BY <1>3 DEF Get
  <2>2. IsCall(c) /\ c.pc = "idle"
    BY <1>0 DEF IsCall, CallFields
  <2>3. HandlerMoves(w, c)
    BY <2>1, <2>2 DEF HandlerMoves
  <2>4. QED
    BY <1>a, <1>b, <2>3, MoveKeepsIInv
<1>4. CASE Prepare(w)
  <2>1. PICK p \in Payloads(w) :
           browser' = [browser EXCEPT ![w] = [browser[w] EXCEPT !.pc = "prepared", !.payload = p,
                                                                !.snap = mem, !.cfg = Completed(p)]]
    BY <1>4 DEF Prepare
  <2> DEFINE c == [browser[w] EXCEPT !.pc = "prepared", !.payload = p, !.snap = mem, !.cfg = Completed(p)]
  <2>2. IsCall(c) /\ c.pc = "prepared"
    BY <1>0 DEF IsCall, CallFields
  <2>3. browser[w].pc = "authorised"
    BY <1>4 DEF Prepare
  <2>4. HandlerMoves(w, c)
    BY <2>1, <2>2, <2>3 DEF HandlerMoves
  <2>5. QED
    BY <1>a, <1>b, <2>4, MoveKeepsIInv
<1>5. CASE Validate(w)
  <2> DEFINE c == [browser[w] EXCEPT !.pc = "validated", !.read = file,
                                     !.doc = Patched(file, browser[w].cfg)]
  <2>1. /\ browser' = [browser EXCEPT ![w] = c] /\ browser[w].pc = "prepared"
        /\ Loads(Patched(file, browser[w].cfg))
    BY <1>5 DEF Validate
  <2>2. IsCall(c) /\ c.pc = "validated" /\ c.doc = Patched(file, browser[w].cfg)
    BY <1>0 DEF IsCall, CallFields
  <2>3. HandlerMoves(w, c)
    BY <2>1, <2>2 DEF HandlerMoves
  <2>4. QED
    BY <1>a, <1>b, <2>3, MoveKeepsIInv
<1>6. CASE Refuse(w)
  <2> DEFINE c == NoCall(browser[w].of)
  <2>1. browser' = [browser EXCEPT ![w] = c] /\ browser[w].pc = "prepared"
    BY <1>6 DEF Refuse, Done
  <2>2. IsCall(c) /\ c.pc = "idle"
    BY DEF IsCall, CallFields, NoCall
  <2>3. HandlerMoves(w, c)
    BY <2>1, <2>2 DEF HandlerMoves
  <2>4. QED
    BY <1>a, <1>b, <2>3, MoveKeepsIInv
<1>7. QED
  BY <1>1, <1>2, <1>3, <1>4, <1>5, <1>6

\* The file is replaced by one that was loaded.
LEMMA ReplaceOK ==
    ASSUME IInv, NEW w \in Browsers, Replace(w)
    PROVE  IInv'
<1> DEFINE c == [browser[w] EXCEPT !.pc = "replaced"]
<1>1. browser' = [browser EXCEPT ![w] = c] /\ browser[w].pc = "validated" /\ file' = browser[w].doc
  BY DEF Replace
<1>2. IsCall(c) /\ c.pc = "replaced"
  BY DEF IInv, Shape, IsCall, CallFields
<1>3. HandlerMoves(w, c)
  BY <1>1, <1>2 DEF HandlerMoves
<1>4. LoadsOK'
  BY <1>1 DEF IInv, ValidatedOK, LoadsOK
<1>5. QED
  BY <1>3, <1>4, MoveKeepsIInv DEF Replace

\* A new session has the password in force, and the one that a reload is about
\* to put into force, or it is late.
LEMMA IssueSessionOK ==
    ASSUME IInv, NEW w \in Browsers, IssueSession(w)
    PROVE  IInv'
<1> DEFINE c == NoCall(browser[w].of)
           late == \/ browser[w].pw # mem.password
                   \/ /\ lock # "free"
                      /\ browser[w].pw # Config(browser[lock].doc).password
           s == [pw |-> browser[w].pw, late |-> late]
<1>1. browser' = [browser EXCEPT ![w] = c] /\ browser[w].pc = "issue"
  BY DEF IssueSession, Done
<1>2. session' = [session EXCEPT ![w] = s]
  BY DEF IssueSession
<1>3. UNCHANGED <<file, mem, lock, last>>
  BY DEF IssueSession, history
<1>4. IsCall(c) /\ c.pc = "idle"
  BY DEF IsCall, CallFields, NoCall
<1>5. HandlerMoves(w, c)
  BY <1>1, <1>4 DEF HandlerMoves
<1>6. /\ browser' = [v \in Browsers |-> browser'[v]]
      /\ \A v \in Browsers : IsCall(browser'[v])
      /\ LockOK' /\ ValidatedOK'
      /\ \A v \in Browsers : lock = v => browser'[v] = browser[v]
  BY <1>3, <1>5, MoveOK DEF IInv
<1>7. \A v \in Browsers : session'[v] = IF v = w THEN s ELSE session[v]
  BY <1>2 DEF IInv, Shape
<1>8. Shape'
  <2>1. session' = [v \in Browsers |-> session'[v]]
    BY <1>2 DEF IInv, Shape
  <2>2. IsSession(s)
    BY DEF IsSession
  <2>3. QED
    BY <1>6, <1>7, <2>1, <2>2 DEF IInv, Shape
<1>9. SessionsOK'
  <2>1. SessionOK(session[w])'
    <3>1. CASE late
      BY <1>7, <3>1 DEF SessionOK
    <3>2. CASE ~late
      <4>1. s.pw = mem.password /\ (lock # "free" => s.pw = Config(browser[lock].doc).password)
        BY <3>2
      <4>2. \A v \in Browsers : lock = v => s.pw = Config(browser'[v].doc).password
        BY <1>6, <4>1, ConsoleAssumption
      <4>3. session'[w].pw = s.pw /\ mem' = mem /\ lock' = lock
        BY <1>3, <1>7
      <4>4. QED
        BY <4>1, <4>2, <4>3 DEF SessionOK
    <3>3. QED
      BY <3>1, <3>2
  <2>2. ASSUME NEW v \in Browsers, v # w PROVE SessionOK(session[v])'
    BY <1>3, <1>6, <1>7, <2>2 DEF IInv, SessionsOK, SessionOK
  <2>3. QED
    BY <2>1, <2>2 DEF SessionsOK
<1>10. LoadsOK'
  BY <1>3 DEF IInv, LoadsOK
<1>11. QED
  BY <1>6, <1>8, <1>9, <1>10 DEF IInv

LEMMA EndSessionOK ==
    ASSUME IInv, NEW w \in Browsers, EndSession(w)
    PROVE  IInv'
<1>1. session' = [session EXCEPT ![w] = None] /\ UNCHANGED <<file, mem, lock, browser, last>>
  BY DEF EndSession, history
<1>2. \A v \in Browsers : session'[v] = IF v = w THEN None ELSE session[v]
  BY <1>1 DEF IInv, Shape
<1>3. Shape'
  BY <1>1, <1>2 DEF IInv, Shape, IsSession, None
<1>4. SessionsOK'
  BY <1>1, <1>2 DEF IInv, SessionsOK, SessionOK
<1>5. QED
  BY <1>1, <1>3, <1>4 DEF IInv, LockOK, ValidatedOK, LoadsOK

\* A reload begins: whoever is still signed in then has the new password too.
LEMMA RevokeOK ==
    ASSUME IInv, NEW w \in Browsers, Revoke(w)
    PROVE  IInv'
<1> DEFINE c == [browser[w] EXCEPT !.pc = "reload"]
<1>1. /\ browser' = [browser EXCEPT ![w] = c] /\ browser[w].pc = "replaced"
      /\ lock = "free" /\ lock' = w /\ UNCHANGED <<file, mem, last>>
  BY DEF Revoke, history
<1>2. IsCall(c) /\ c.pc = "reload" /\ c.doc = browser[w].doc
  BY DEF IInv, Shape, IsCall, CallFields
<1>3. \A v \in Browsers : browser'[v] = IF v = w THEN c ELSE browser[v]
  BY <1>1 DEF IInv, Shape
<1>4. \/ session' = session /\ Config(browser[w].doc).password = mem.password
      \/ session' = [v \in Browsers |-> None]
  BY DEF Revoke
<1>5. Shape'
  <2>1. browser' = [v \in Browsers |-> browser'[v]]
    BY <1>1 DEF IInv, Shape
  <2>2. session' = [v \in Browsers |-> session'[v]] /\ \A v \in Browsers : IsSession(session'[v])
    <3>1. CASE session' = session
      BY <3>1 DEF IInv, Shape
    <3>2. CASE session' = [v \in Browsers |-> None]
      BY <3>2 DEF IsSession, None
    <3>3. QED
      BY <1>4, <3>1, <3>2
  <2>3. QED
    BY <1>2, <1>3, <2>1, <2>2 DEF IInv, Shape
<1>6. LockOK'
  <2>1. \A v \in Browsers : browser[v].pc # "reload"
    BY <1>1, ConsoleAssumption DEF IInv, LockOK
  <2>2. \A v \in Browsers : browser'[v].pc = "reload" <=> v = w
    BY <1>2, <1>3, <2>1
  <2>3. QED
    BY <1>1, <2>2 DEF LockOK
<1>7. ValidatedOK'
  BY <1>2, <1>3 DEF IInv, ValidatedOK
<1>8. SessionsOK'
  BY <1>1, <1>2, <1>3, <1>4 DEF IInv, SessionsOK, SessionOK
<1>9. LoadsOK'
  BY <1>1 DEF IInv, LoadsOK
<1>10. QED
  BY <1>5, <1>6, <1>7, <1>8, <1>9 DEF IInv

\* It ends, with the new configuration in force or with the old one.
LEMMA ReloadEndsOK ==
    ASSUME IInv, NEW w \in Browsers, Swap(w) \/ FailRebuild(w)
    PROVE  IInv'
<1> DEFINE c == NoCall(browser[w].of)
<1>1. /\ browser' = [browser EXCEPT ![w] = c] /\ browser[w].pc = "reload"
      /\ lock' = "free" /\ UNCHANGED <<file, session, last>>
      /\ mem' = Config(browser[w].doc) \/ mem' = mem
  BY DEF Swap, FailRebuild, Done
<1>2. lock = w
  BY <1>1 DEF IInv, LockOK
<1>3. IsCall(c) /\ c.pc = "idle"
  BY DEF IsCall, CallFields, NoCall
<1>4. \A v \in Browsers : browser'[v] = IF v = w THEN c ELSE browser[v]
  BY <1>1 DEF IInv, Shape
<1>5. Shape'
  BY <1>1, <1>3, <1>4 DEF IInv, Shape
<1>6. LockOK'
  BY <1>1, <1>2, <1>3, <1>4, ConsoleAssumption DEF IInv, LockOK
<1>7. ValidatedOK'
  BY <1>3, <1>4 DEF IInv, ValidatedOK
<1>8. SessionsOK'
  <2> SUFFICES ASSUME NEW v \in Browsers PROVE SessionOK(session[v])'
    BY DEF SessionsOK
  <2>1. SessionOK(session[v])
    BY DEF IInv, SessionsOK
  <2>2. \A u \in Browsers : lock' # u
    BY <1>1, ConsoleAssumption
  <2>3. QED
    BY <1>1, <1>2, <2>1, <2>2 DEF SessionOK
<1>9. LoadsOK'
  BY <1>1 DEF IInv, LoadsOK
<1>10. QED
  BY <1>5, <1>6, <1>7, <1>8, <1>9 DEF IInv

LEMMA OthersOK ==
    ASSUME IInv, HandEdit \/ Restart
    PROVE  IInv'
<1>1. CASE HandEdit
  <2>1. last' = "hand" /\ UNCHANGED <<mem, lock, session, browser>>
    BY <1>1 DEF HandEdit
  <2>2. QED
    BY <2>1 DEF IInv, Shape, LockOK, ValidatedOK, SessionsOK, SessionOK, LoadsOK
<1>2. CASE Restart
  <2>1. /\ lock' = "free" /\ session' = [w \in Browsers |-> None]
        /\ browser' = [w \in Browsers |-> NoCall(browser[w].of)]
        /\ Loads(file) /\ UNCHANGED file
    BY <1>2 DEF Restart, Starts
  <2>2. \A w \in Browsers : browser'[w] = NoCall(browser[w].of) /\ session'[w] = None
    BY <2>1
  <2>3. Shape'
    BY <2>1, <2>2 DEF Shape, IsCall, CallFields, IsSession, NoCall, None
  <2>4. LockOK' /\ ValidatedOK'
    BY <2>1, <2>2, ConsoleAssumption DEF LockOK, ValidatedOK, NoCall
  <2>5. SessionsOK' /\ LoadsOK'
    BY <2>1, <2>2 DEF SessionsOK, SessionOK, LoadsOK
  <2>6. QED
    BY <2>3, <2>4, <2>5 DEF IInv
<1>3. QED
  BY <1>1, <1>2

LEMMA Invariance == Spec => []IInv
<1>1. IInv /\ [Next]_vars => IInv'
  <2> SUFFICES ASSUME IInv, [Next]_vars PROVE IInv'
    OBVIOUS
  <2>1. CASE \E w \in Browsers : Sign(w) \/ Save(w)
    BY <2>1, LocalOK, ReplaceOK, IssueSessionOK, EndSessionOK, RevokeOK, ReloadEndsOK DEF Sign, Save
  <2>2. CASE HandEdit \/ Restart
    BY <2>2, OthersOK
  <2>3. CASE UNCHANGED vars
    BY <2>3 DEF vars, IInv, Shape, LockOK, ValidatedOK, SessionsOK, SessionOK, LoadsOK
  <2>4. QED
    BY <2>1, <2>2, <2>3 DEF Next
<1>2. QED
  BY <1>1, InitOK, PTL DEF Spec

\* A new password signs everybody out, however many saves and sign-ins cross.
THEOREM PasswordSignsOut == Spec => []SessionsMatchPassword
<1>1. IInv => SessionsMatchPassword
  BY DEF IInv, SessionsOK, SessionOK, SessionsMatchPassword
<1>2. QED
  BY <1>1, Invariance, PTL

-----------------------------------------------------------------------------
(* What a save does to the file, to memory and to what it did not show.      *)

\* A handler's locals, from the point where they are computed.
Saving(c) == c.pc \in {"prepared", "validated", "replaced", "reload"}
Patching(c) == c.pc \in {"validated", "replaced", "reload"}
Replacing(c) == c.pc \in {"replaced", "reload"}

CallOK(c) ==
    /\ Saving(c) => /\ UniqueNames(c.snap.backends)
                    /\ c.cfg.backends = Restored(c.payload.backends, c.snap.backends)
                    /\ c.cfg.password \in DOMAIN Expanded
    /\ Patching(c) => c.doc = Patched(c.read, c.cfg) /\ Loads(c.doc)
CallsOK == \A w \in Browsers : CallOK(browser[w])

\* The usage log in force was opened.
MemOK == /\ UniqueNames(mem.backends) /\ mem.log \notin Unusable
         /\ mem.raw \in DOMAIN Expanded /\ mem.password \in DOMAIN Expanded

\* The file is that of the handler which wrote it last and has yet to reload.
FileOK == /\ file.raw \in DOMAIN Expanded
          /\ \A w \in Browsers : Replacing(browser[w]) /\ last = w => file = browser[w].doc

SaveInv == CallsOK /\ MemOK /\ FileOK /\ FileIsInForce

InForce == mem \in {Config(file), Started(file)}

LEMMA InForceDef ==
    FileIsInForce <=> (~apart /\ (\A w \in Browsers : ~Replacing(browser[w])) => InForce)
BY DEF FileIsInForce, Settled, Replacing, InForce

LEMMA ConfigOK ==
    ASSUME NEW doc, Loads(doc), doc.raw \in DOMAIN Expanded
    PROVE  /\ UniqueNames(Config(doc).backends)
           /\ Config(doc).raw \in DOMAIN Expanded /\ Config(doc).password \in DOMAIN Expanded
<1>1. Config(doc).raw = doc.raw /\ Config(doc).password = Expanded[doc.raw]
  BY DEF Config
<1>2. Config(doc).backends = [i \in DOMAIN doc.backends |-> Known(doc.backends[i])]
  BY DEF Config
<1>3. DOMAIN Config(doc).backends = DOMAIN doc.backends
  BY <1>2
<1>4. \A i \in DOMAIN doc.backends : Config(doc).backends[i].name = doc.backends[i].name
  BY <1>2 DEF Known
<1>5. UniqueNames(Config(doc).backends)
  BY <1>3, <1>4 DEF Loads, UniqueNames
<1>6. QED
  BY <1>1, <1>5, ConsoleAssumption

\* The patched file has the password of the handler's configuration.
LEMMA PatchedOK ==
    ASSUME NEW c, CallOK(c), Patching(c)
    PROVE  Loads(c.doc) /\ c.doc.raw \in DOMAIN Expanded
BY DEF CallOK, Patching, Saving, Patched

\* What is in force after a start; the password may be another than Config's.
LEMMA StartedOK ==
    ASSUME NEW doc, Starts(doc), doc.raw \in DOMAIN Expanded
    PROVE  LET m == Started(doc)
           IN  /\ UniqueNames(m.backends) /\ m.log = doc.log /\ m.log \notin Unusable
               /\ m.raw \in DOMAIN Expanded /\ m.password \in DOMAIN Expanded
<1>1. PICK c : c = Config(doc)
  OBVIOUS
<1>2. UniqueNames(c.backends) /\ c.password \in DOMAIN Expanded /\ c.log = doc.log
  BY <1>1, ConfigOK DEF Starts, Config
<1>3. Started(doc) = [c EXCEPT !.raw = c.password, !.password = Expanded[c.password]]
  BY <1>1 DEF Started
<1>4. c = [backends |-> c.backends, raw |-> c.raw, password |-> c.password, log |-> c.log]
  BY <1>1 DEF Config
<1>5. /\ Started(doc).backends = c.backends /\ Started(doc).log = c.log
      /\ Started(doc).raw = c.password /\ Started(doc).password = Expanded[c.password]
  BY <1>3, <1>4
<1>6. Expanded[c.password] \in DOMAIN Expanded
  BY <1>2, ConsoleAssumption
<1>7. QED
  BY <1>2, <1>5, <1>6 DEF Starts

\* A handler moves on, to c, and neither replaces the file nor has.
LEMMA SaveMoveOK ==
    ASSUME Shape, SaveInv, NEW w \in Browsers, NEW c, browser' = [browser EXCEPT ![w] = c],
           CallOK(c), ~Replacing(c), ~Replacing(browser[w]), UNCHANGED <<file, mem, last, apart>>
    PROVE  SaveInv'
<1>1. \A v \in Browsers : browser'[v] = IF v = w THEN c ELSE browser[v]
  BY DEF Shape
<1>2. CallsOK'
  BY <1>1 DEF SaveInv, CallsOK
<1>3. MemOK' /\ FileOK'
  BY <1>1 DEF SaveInv, MemOK, FileOK
<1>4. (\A v \in Browsers : ~Replacing(browser[v])') => \A v \in Browsers : ~Replacing(browser[v])
  BY <1>1
<1>5. InForce <=> InForce'
  BY DEF InForce
<1>6. FileIsInForce'
  BY <1>4, <1>5, InForceDef DEF SaveInv, FileIsInForce, Settled, InForce, Replacing
<1>7. QED
  BY <1>2, <1>3, <1>6 DEF SaveInv

\* A form has the fields of one, and its password is new or missing.
LEMMA PayloadOK ==
    ASSUME NEW w \in Browsers, NEW p \in Payloads(w), SaveInv
    PROVE  /\ Completed(p).backends = Restored(p.backends, mem.backends)
           /\ Completed(p).password \in DOMAIN Expanded
<1>1. p = [backends |-> p.backends, password |-> p.password, log |-> p.log]
      /\ p.password \in NewPasswords \cup {""}
  BY DEF Payloads
<1>2. Completed(p).backends = Restored(p.backends, mem.backends)
  BY <1>1 DEF Completed
<1>3. Completed(p).password = IF p.password # "" THEN p.password
                              ELSE IF mem.raw # "" THEN mem.raw ELSE mem.password
  BY <1>1 DEF Completed
<1>4. QED
  BY <1>1, <1>2, <1>3, ConsoleAssumption DEF SaveInv, MemOK

LEMMA LocalKeepsSave ==
    ASSUME IInv, SaveInv, NEW w \in Browsers,
           \/ SignIn(w) \/ IssueSession(w) \/ Authorise(w) \/ Get(w)
           \/ Prepare(w) \/ Validate(w) \/ Refuse(w)
    PROVE  SaveInv'
<1>0. Shape /\ IsCall(browser[w]) /\ CallOK(browser[w])
  BY DEF IInv, Shape, SaveInv, CallsOK
<1>a. UNCHANGED <<file, mem, last, apart>>
  BY DEF SignIn, IssueSession, Authorise, Get, Prepare, Validate, Refuse, history
<1>b. ASSUME NEW c, browser' = [browser EXCEPT ![w] = c], CallOK(c), ~Replacing(c),
             browser[w].pc \in {"idle", "issue", "authorised", "prepared"}
      PROVE  SaveInv'
  <2>1. ~Replacing(browser[w])
    BY <1>b DEF Replacing
  <2>2. QED
    BY <1>0, <1>a, <1>b, <2>1, SaveMoveOK
<1>1. CASE SignIn(w)
  <2> DEFINE c == [browser[w] EXCEPT !.pc = "issue", !.pw = mem.password]
  <2>1. browser' = [browser EXCEPT ![w] = c] /\ browser[w].pc = "idle"
    BY <1>1 DEF SignIn
  <2>2. c.pc = "issue"
    BY <1>0 DEF IsCall, CallFields
  <2> HIDE DEF c
  <2>3. CallOK(c) /\ ~Replacing(c)
    BY <2>2 DEF CallOK, Saving, Patching, Replacing
  <2>4. QED
    BY <1>b, <2>1, <2>3
<1>2. CASE Authorise(w)
  <2> DEFINE c == [browser[w] EXCEPT !.pc = "authorised"]
  <2>1. browser' = [browser EXCEPT ![w] = c] /\ browser[w].pc = "idle"
    BY <1>2 DEF Authorise
  <2>2. c.pc = "authorised"
    BY <1>0 DEF IsCall, CallFields
  <2> HIDE DEF c
  <2>3. CallOK(c) /\ ~Replacing(c)
    BY <2>2 DEF CallOK, Saving, Patching, Replacing
  <2>4. QED
    BY <1>b, <2>1, <2>3
<1>3. CASE Get(w)
  <2> DEFINE c == [browser[w] EXCEPT !.pc = "idle", !.of = mem]
  <2>1. browser' = [browser EXCEPT ![w] = c] /\ browser[w].pc = "authorised"
    BY <1>3 DEF Get
  <2>2. c.pc = "idle"
    BY <1>0 DEF IsCall, CallFields
  <2> HIDE DEF c
  <2>3. CallOK(c) /\ ~Replacing(c)
    BY <2>2 DEF CallOK, Saving, Patching, Replacing
  <2>4. QED
    BY <1>b, <2>1, <2>3
<1>4. CASE Prepare(w)
  <2>1. PICK p \in Payloads(w) :
           browser' = [browser EXCEPT ![w] = [browser[w] EXCEPT !.pc = "prepared", !.payload = p,
                                                                !.snap = mem, !.cfg = Completed(p)]]
    BY <1>4 DEF Prepare
  <2> DEFINE c == [browser[w] EXCEPT !.pc = "prepared", !.payload = p, !.snap = mem, !.cfg = Completed(p)]
  <2>2. browser' = [browser EXCEPT ![w] = c] /\ browser[w].pc = "authorised"
    BY <1>4, <2>1 DEF Prepare
  <2>3. c.pc = "prepared" /\ c.payload = p /\ c.snap = mem /\ c.cfg = Completed(p)
    BY <1>0 DEF IsCall, CallFields
  <2> HIDE DEF c
  <2>4. /\ UniqueNames(c.snap.backends) /\ c.cfg.password \in DOMAIN Expanded
        /\ c.cfg.backends = Restored(c.payload.backends, c.snap.backends)
    BY <2>3, PayloadOK DEF SaveInv, MemOK
  <2>5. CallOK(c) /\ ~Replacing(c)
    BY <2>3, <2>4 DEF CallOK, Patching, Replacing
  <2>6. QED
    BY <1>b, <2>2, <2>5
<1>5. CASE Validate(w)
  <2> DEFINE c == [browser[w] EXCEPT !.pc = "validated", !.read = file,
                                     !.doc = Patched(file, browser[w].cfg)]
  <2>1. /\ browser' = [browser EXCEPT ![w] = c] /\ browser[w].pc = "prepared"
        /\ Loads(Patched(file, browser[w].cfg))
    BY <1>5 DEF Validate
  <2>2. /\ c.pc = "validated" /\ c.read = file /\ c.doc = Patched(file, browser[w].cfg)
        /\ c.cfg = browser[w].cfg /\ c.snap = browser[w].snap /\ c.payload = browser[w].payload
    BY <1>0 DEF IsCall, CallFields
  <2> HIDE DEF c
  <2>3. CallOK(c) /\ ~Replacing(c)
    BY <1>0, <2>1, <2>2 DEF CallOK, Saving, Patching, Replacing
  <2>4. QED
    BY <1>b, <2>1, <2>3
<1>6. CASE IssueSession(w) \/ Refuse(w)
  <2> DEFINE c == NoCall(browser[w].of)
  <2>1. browser' = [browser EXCEPT ![w] = c] /\ browser[w].pc \in {"issue", "prepared"}
    BY <1>6 DEF IssueSession, Refuse, Done
  <2>2. CallOK(c) /\ ~Replacing(c)
    BY DEF CallOK, Saving, Patching, Replacing, NoCall
  <2>3. QED
    BY <1>b, <2>1, <2>2
<1>7. QED
  BY <1>1, <1>2, <1>3, <1>4, <1>5, <1>6

LEMMA ReplaceKeepsSave ==
    ASSUME IInv, SaveInv, NEW w \in Browsers, Replace(w)
    PROVE  SaveInv'
<1> DEFINE c == [browser[w] EXCEPT !.pc = "replaced"]
<1>1. /\ browser' = [browser EXCEPT ![w] = c] /\ browser[w].pc = "validated"
      /\ file' = browser[w].doc /\ last' = w /\ UNCHANGED <<mem, apart>>
  BY DEF Replace
<1>2. /\ c.pc = "replaced" /\ c.read = browser[w].read /\ c.doc = browser[w].doc
      /\ c.cfg = browser[w].cfg /\ c.snap = browser[w].snap /\ c.payload = browser[w].payload
  BY DEF IInv, Shape, IsCall, CallFields
<1>3. \A v \in Browsers : browser'[v] = IF v = w THEN c ELSE browser[v]
  BY <1>1 DEF IInv, Shape
<1> HIDE DEF c
<1>4. CallOK(browser[w]) /\ Patching(browser[w])
  BY <1>1 DEF SaveInv, CallsOK, Patching
<1>5. CallOK(c) /\ Replacing(c)
  BY <1>1, <1>2, <1>4 DEF CallOK, Saving, Patching, Replacing
<1>6. CallsOK' /\ MemOK'
  BY <1>1, <1>3, <1>5 DEF SaveInv, CallsOK, MemOK
<1>7. FileOK'
  BY <1>1, <1>2, <1>3, <1>4, PatchedOK DEF FileOK
<1>8. FileIsInForce'
  BY <1>3, <1>5 DEF FileIsInForce, Settled, Replacing
<1>9. QED
  BY <1>6, <1>7, <1>8 DEF SaveInv

LEMMA RevokeKeepsSave ==
    ASSUME IInv, SaveInv, NEW w \in Browsers, Revoke(w)
    PROVE  SaveInv'
<1> DEFINE c == [browser[w] EXCEPT !.pc = "reload"]
<1>1. /\ browser' = [browser EXCEPT ![w] = c] /\ browser[w].pc = "replaced"
      /\ UNCHANGED <<file, mem, last, apart>>
  BY DEF Revoke, history
<1>2. /\ c.pc = "reload" /\ c.read = browser[w].read /\ c.doc = browser[w].doc
      /\ c.cfg = browser[w].cfg /\ c.snap = browser[w].snap /\ c.payload = browser[w].payload
  BY DEF IInv, Shape, IsCall, CallFields
<1>3. \A v \in Browsers : browser'[v] = IF v = w THEN c ELSE browser[v]
  BY <1>1 DEF IInv, Shape
<1> HIDE DEF c
<1>4. CallOK(browser[w]) /\ Replacing(browser[w])
  BY <1>1 DEF SaveInv, CallsOK, Replacing
<1>5. CallOK(c) /\ Replacing(c)
  BY <1>1, <1>2, <1>4 DEF CallOK, Saving, Patching, Replacing
<1>6. CallsOK' /\ MemOK'
  BY <1>1, <1>3, <1>5 DEF SaveInv, CallsOK, MemOK
<1>7. FileOK'
  BY <1>1, <1>2, <1>3, <1>4 DEF SaveInv, FileOK
<1>8. FileIsInForce'
  BY <1>3, <1>5 DEF FileIsInForce, Settled, Replacing
<1>9. QED
  BY <1>6, <1>7, <1>8 DEF SaveInv

\* What is put into force is the file, unless another handler has replaced it
\* in between, or has yet to reload.
LEMMA ReloadEndsKeepsSave ==
    ASSUME IInv, SaveInv, NEW w \in Browsers, Swap(w) \/ FailRebuild(w)
    PROVE  SaveInv'
<1>1. PICK c : c = NoCall(browser[w].of)
  OBVIOUS
<1>2. /\ browser' = [browser EXCEPT ![w] = c] /\ browser[w].pc = "reload"
      /\ UNCHANGED <<file, last>>
  BY <1>1 DEF Swap, FailRebuild, Done
<1>3. \A v \in Browsers : browser'[v] = IF v = w THEN c ELSE browser[v]
  BY <1>2 DEF IInv, Shape
<1>4. CallOK(c) /\ ~Replacing(c)
  BY <1>1 DEF CallOK, Saving, Patching, Replacing, NoCall
<1>5. CallOK(browser[w]) /\ Patching(browser[w]) /\ Replacing(browser[w])
  BY <1>2 DEF SaveInv, CallsOK, Patching, Replacing
<1>6. CallsOK' /\ FileOK'
  BY <1>2, <1>3, <1>4 DEF SaveInv, CallsOK, FileOK
<1>7. CASE Swap(w)
  <2>1. mem' = Config(browser[w].doc) /\ apart' = (last # w)
    BY <1>7 DEF Swap
  <2>2. MemOK'
    <3>1. Loads(browser[w].doc) /\ browser[w].doc.raw \in DOMAIN Expanded
      BY <1>5, PatchedOK
    <3>2. Config(browser[w].doc).log \notin Unusable
      BY <1>7 DEF Swap, SaveInv, MemOK, Config
    <3>3. QED
      BY <2>1, <3>1, <3>2, ConfigOK DEF MemOK
  <2>3. CASE last = w
    <3>1. file = browser[w].doc
      BY <1>5, <2>3 DEF SaveInv, FileOK
    <3>2. mem' = Config(file')
      BY <1>2, <2>1, <3>1
    <3>3. FileIsInForce'
      BY <3>2 DEF FileIsInForce
    <3>4. QED
      BY <1>6, <2>2, <3>3 DEF SaveInv
  <2>4. CASE last # w
    <3>1. apart'
      BY <2>1, <2>4
    <3>2. QED
      BY <1>6, <2>2, <3>1 DEF SaveInv, FileIsInForce, Settled
  <2>5. QED
    BY <2>3, <2>4
<1>8. CASE FailRebuild(w)
  <2>1. apart' /\ UNCHANGED mem
    BY <1>8 DEF FailRebuild
  <2>2. QED
    BY <1>6, <2>1 DEF SaveInv, MemOK, FileIsInForce, Settled
<1>9. QED
  BY <1>7, <1>8

LEMMA OthersKeepSave ==
    ASSUME IInv, SaveInv, HandEdit \/ Restart
    PROVE  SaveInv'
<1>1. CASE HandEdit
  <2>1. /\ last' = "hand" /\ apart' /\ file'.raw \in DOMAIN Expanded
        /\ UNCHANGED <<mem, browser>> /\ \A w \in Browsers : w # "hand"
    BY <1>1, ConsoleAssumption DEF HandEdit
  <2>2. CallsOK' /\ MemOK'
    BY <2>1 DEF SaveInv, CallsOK, MemOK
  <2>3. FileOK' /\ FileIsInForce'
    BY <2>1 DEF FileOK, FileIsInForce, Settled
  <2>4. QED
    BY <2>2, <2>3 DEF SaveInv
<1>2. CASE Restart
  <2>1. /\ Starts(file) /\ mem' = Started(file) /\ UNCHANGED file
        /\ browser' = [w \in Browsers |-> NoCall(browser[w].of)]
    BY <1>2 DEF Restart
  <2>2. \A w \in Browsers : CallOK(browser'[w]) /\ ~Replacing(browser'[w])
    BY <2>1 DEF CallOK, Saving, Patching, Replacing, NoCall
  <2>3. CallsOK' /\ FileOK'
    BY <2>1, <2>2 DEF CallsOK, SaveInv, FileOK
  <2>4. MemOK'
    BY <2>1, StartedOK DEF SaveInv, FileOK, MemOK
  <2>5. FileIsInForce'
    BY <2>1 DEF FileIsInForce
  <2>6. QED
    BY <2>3, <2>4, <2>5 DEF SaveInv
<1>3. QED
  BY <1>1, <1>2

LEMMA InitSaves == Init => SaveInv
<1> SUFFICES ASSUME Init PROVE SaveInv
  OBVIOUS
<1>1. file = StartFile /\ mem = Started(file) /\ Starts(file) /\ file.raw \in DOMAIN Expanded
  BY ConsoleAssumption DEF Init
<1>2. \A w \in Browsers : CallOK(browser[w]) /\ ~Replacing(browser[w])
  BY DEF Init, CallOK, Saving, Patching, Replacing, NoCall
<1>3. MemOK
  BY <1>1, StartedOK DEF MemOK
<1>4. FileIsInForce
  BY <1>1 DEF FileIsInForce
<1>5. QED
  BY <1>1, <1>2, <1>3, <1>4 DEF SaveInv, CallsOK, FileOK

LEMMA SavesKept == Spec => []SaveInv
<1>1. IInv /\ SaveInv /\ [Next]_vars => SaveInv'
  <2> SUFFICES ASSUME IInv, SaveInv, [Next]_vars PROVE SaveInv'
    OBVIOUS
  <2>1. ASSUME NEW w \in Browsers, EndSession(w) PROVE SaveInv'
    <3>1. UNCHANGED <<file, mem, browser, last, apart>>
      BY <2>1 DEF EndSession, history
    <3>2. QED
      BY <3>1 DEF SaveInv, CallsOK, MemOK, FileOK, FileIsInForce, Settled
  <2>2. CASE \E w \in Browsers : Sign(w) \/ Save(w)
    BY <2>1, <2>2, LocalKeepsSave, ReplaceKeepsSave, RevokeKeepsSave, ReloadEndsKeepsSave
       DEF Sign, Save
  <2>3. CASE HandEdit \/ Restart
    BY <2>3, OthersKeepSave
  <2>4. CASE UNCHANGED vars
    BY <2>4 DEF vars, SaveInv, CallsOK, MemOK, FileOK, FileIsInForce, Settled
  <2>5. QED
    BY <2>2, <2>3, <2>4 DEF Next
<1>2. QED
  BY <1>1, InitSaves, Invariance, PTL DEF Spec

\* When nobody is saving, what is in force is what a save or a start makes of
\* the file, unless an edit by hand, a rebuild of the usage log that failed, or
\* crossing saves set them apart.  Nothing is assumed of what the expansion of
\* a password gives but that it can be expanded again.
THEOREM MemoryIsFile == Spec => []FileIsInForce
<1>1. SaveInv => FileIsInForce
  BY DEF SaveInv
<1>2. QED
  BY <1>1, SavesKept, PTL

\* Wherever the process is killed, LoadConfig accepts the file unless it was
\* broken by hand; and the usage log of a file that is in force can be opened.
THEOREM FileAlwaysLoads == Spec => []FileLoads
<1>1. IInv /\ SaveInv => FileLoads
  <2> SUFFICES ASSUME IInv, SaveInv PROVE FileLoads
    OBVIOUS
  <2>1. Config(file).log = file.log /\ Started(file).log = file.log
    <3>1. PICK c : c = Config(file)
      OBVIOUS
    <3>2. c = [backends |-> c.backends, raw |-> c.raw, password |-> c.password, log |-> c.log]
          /\ c.log = file.log
      BY <3>1 DEF Config
    <3>3. Started(file) = [c EXCEPT !.raw = c.password, !.password = Expanded[c.password]]
      BY <3>1 DEF Started
    <3>4. QED
      BY <3>1, <3>2, <3>3
  <2>2. Settled => mem.log = file.log
    BY <2>1 DEF SaveInv, FileIsInForce
  <2>3. QED
    BY <2>2 DEF IInv, LoadsOK, SaveInv, MemOK, FileLoads
<1>2. QED
  BY <1>1, Invariance, SavesKept, PTL

-----------------------------------------------------------------------------
(* What the console does not show.                                           *)

\* The last of the backends of a name is the only one, where names are unique.
LEMMA NamedOK ==
    ASSUME NEW backends, UniqueNames(backends), NEW i \in DOMAIN backends,
           backends[i].name # ""
    PROVE  Named(backends[i].name, backends) = {backends[i]}
<1> DEFINE at == {j \in DOMAIN backends : backends[j].name = backends[i].name}
<1>1. at = {i}
  BY DEF UniqueNames
<1>2. Named(backends[i].name, backends) = {backends[k] : k \in {k \in at : \A j \in at \ {k} : j < k}}
  BY DEF Named
<1>3. {k \in at : \A j \in at \ {k} : j < k} = {i}
  BY <1>1
<1>4. QED
  BY <1>2, <1>3

LEMMA NamedNone ==
    ASSUME NEW backends, NEW name, \A i \in DOMAIN backends : backends[i].name # name
    PROVE  Named(name, backends) = {}
BY DEF Named

\* The secret comes from the backend of that name, or else from its place.
LEMMA RestoredOK ==
    ASSUME NEW new, NEW old, NEW i \in DOMAIN new, new[i].key = Placeholder, NEW o,
           \/ Named(new[i].name, old) = {o}
           \/ Named(new[i].name, old) = {} /\ i \in DOMAIN old /\ o = old[i]
    PROVE  Restored(new, old)[i].key = o.key
<1> DEFINE from == IF Named(new[i].name, old) # {} THEN Named(new[i].name, old)
                   ELSE IF i \in DOMAIN old THEN {old[i]} ELSE {}
           key == IF new[i].key = Placeholder /\ from # {}
                  THEN (CHOOSE b \in from : TRUE).key ELSE new[i].key
<1>1. Restored(new, old)[i] = [id |-> new[i].id, name |-> new[i].name, key |-> key]
  BY DEF Restored
<1>2. from = {o}
  OBVIOUS
<1>3. (CHOOSE b \in from : TRUE) = o
  BY <1>2
<1>4. key = o.key
  BY <1>2, <1>3
<1> HIDE DEF key
<1>5. QED
  BY <1>1, <1>4

\* Whether a backend of this name has unknown keys in a file.
HasExtra(name, old) == name # "" /\ \E o \in Named(name, old) : o.extra

\* In a file that was patched each backend has the secret it has in memory,
\* and the unknown keys of the backend of its name.
LEMMA PatchedBackend ==
    ASSUME NEW old, NEW cfg, NEW doc, doc = Patched(old, cfg), NEW i \in DOMAIN doc.backends
    PROVE  /\ i \in DOMAIN cfg.backends
           /\ doc.backends[i].name = cfg.backends[i].name
           /\ doc.backends[i].key = cfg.backends[i].key
           /\ doc.backends[i].extra <=> HasExtra(cfg.backends[i].name, old.backends)
<1>1. doc.backends = [j \in DOMAIN cfg.backends |-> Merged(cfg.backends[j], old.backends)]
  BY DEF Patched
<1>2. i \in DOMAIN cfg.backends /\ doc.backends[i] = Merged(cfg.backends[i], old.backends)
  BY <1>1
<1> DEFINE extra == HasExtra(cfg.backends[i].name, old.backends)
<1>3. doc.backends[i] = [id |-> cfg.backends[i].id, name |-> cfg.backends[i].name,
                         key |-> cfg.backends[i].key, extra |-> extra]
  BY <1>2 DEF Merged, HasExtra
<1>4. extra \in BOOLEAN
  BY DEF HasExtra
<1>5. /\ i \in DOMAIN cfg.backends
      /\ doc.backends[i].name = cfg.backends[i].name
      /\ doc.backends[i].key = cfg.backends[i].key
      /\ doc.backends[i].extra <=> extra
  <2> HIDE DEF extra
  <2> QED BY <1>2, <1>3, <1>4
<1>6. QED
  BY <1>5

\* Simple, of the lists before and after the edit.
SimpleEdit(of, new) ==
    \/ /\ DOMAIN new = DOMAIN of
       /\ \A i \in DOMAIN of :
             /\ new[i].id = of[i].id
             /\ \A b \in ToSet(of) : b.name = new[i].name => of[i].name = new[i].name
    \/ \A i \in DOMAIN new : new[i].key = Placeholder =>
           \E b \in ToSet(of) : b.id = new[i].id /\ b.name = new[i].name

\* Each backend that has a name keeps its secret and its unknown keys, whatever
\* is renamed, removed, added or moved, for forms, files and memories of any
\* size.
THEOREM SavesKeepTheUnseen == Spec => []UnseenIsKept
<1>1. SaveInv => UnseenIsKept
  <2> SUFFICES ASSUME SaveInv, NEW w \in Browsers, Replacing(browser[w])
               PROVE  LET b == browser[w]
                      IN  /\ (Current(w) /\ Simple(w)) =>
                               \A i \in DOMAIN b.payload.backends :
                                   (b.payload.backends[i].key = Placeholder /\ b.payload.backends[i].name # "") =>
                                       \E o \in ToSet(b.snap.backends) :
                                           o.id = b.payload.backends[i].id /\ o.key = b.doc.backends[i].key
                          /\ UniqueNames(b.read.backends) =>
                               \A old \in ToSet(b.read.backends), new \in ToSet(b.doc.backends) :
                                   (old.name = new.name /\ old.name # "") => (old.extra <=> new.extra)
    BY DEF UnseenIsKept, Replacing
  <2>1. PICK b : b = browser[w]
    OBVIOUS
  <2>2. PICK new, snap, read, cfg, doc :
           /\ new = b.payload.backends /\ snap = b.snap.backends
           /\ read = b.read /\ cfg = b.cfg /\ doc = b.doc
    OBVIOUS
  <2>3. CallOK(b)
    BY <2>1 DEF SaveInv, CallsOK
  <2>4. UniqueNames(snap) /\ cfg.backends = Restored(new, snap) /\ doc = Patched(read, cfg)
    BY <2>1, <2>2, <2>3 DEF CallOK, Saving, Patching, Replacing
  <2>5. ASSUME Current(w), Simple(w), NEW i \in DOMAIN new,
               new[i].key = Placeholder, new[i].name # ""
        PROVE  \E o \in ToSet(snap) : o.id = new[i].id /\ o.key = doc.backends[i].key
    <3>1. SimpleEdit(snap, new)
      <4>1. SimpleEdit(browser[w].of.backends, browser[w].payload.backends)
        BY <2>5 DEF Simple, SimpleEdit
      <4>2. browser[w].of.backends = snap /\ browser[w].payload.backends = new
        BY <2>1, <2>2, <2>5 DEF Current
      <4>3. QED
        BY <4>1, <4>2
    <3>2. PICK o : /\ o \in ToSet(snap) /\ o.id = new[i].id
                   /\ \/ Named(new[i].name, snap) = {o}
                      \/ Named(new[i].name, snap) = {} /\ i \in DOMAIN snap /\ o = snap[i]
      <4>1. CASE \E x \in ToSet(snap) : x.id = new[i].id /\ x.name = new[i].name
        <5>1. PICK j \in DOMAIN snap : snap[j].id = new[i].id /\ snap[j].name = new[i].name
          BY <4>1 DEF ToSet
        <5>2. snap[j].name # ""
          BY <2>5, <5>1
        <5>3. Named(snap[j].name, snap) = {snap[j]}
          BY <2>4, <5>2, NamedOK
        <5>4. QED
          BY <5>1, <5>3 DEF ToSet
      <4>2. CASE ~\E x \in ToSet(snap) : x.id = new[i].id /\ x.name = new[i].name
        <5>1. /\ i \in DOMAIN snap /\ new[i].id = snap[i].id
              /\ \A x \in ToSet(snap) : x.name = new[i].name => snap[i].name = new[i].name
          BY <2>5, <3>1, <4>2 DEF SimpleEdit
        <5>2. snap[i] \in ToSet(snap)
          BY <5>1 DEF ToSet
        <5>3. \A j \in DOMAIN snap : snap[j].name # new[i].name
          BY <4>2, <5>1, <5>2 DEF ToSet
        <5>4. Named(new[i].name, snap) = {}
          BY <5>3, NamedNone
        <5>5. QED
          BY <5>1, <5>2, <5>4
      <4>3. QED
        BY <4>1, <4>2
    <3>3. cfg.backends[i].key = o.key
      <4>1. new[i].key = Placeholder
        BY <2>5
      <4>2. \/ Named(new[i].name, snap) = {o}
            \/ Named(new[i].name, snap) = {} /\ i \in DOMAIN snap /\ o = snap[i]
        BY <3>2
      <4>3. Restored(new, snap)[i].key = o.key
        BY <4>1, <4>2, RestoredOK
      <4>4. QED
        BY <2>4, <4>3
    <3>4. doc.backends[i].key = cfg.backends[i].key
      <4>1. DOMAIN doc.backends = DOMAIN cfg.backends /\ DOMAIN cfg.backends = DOMAIN new
        BY <2>4 DEF Patched, Restored
      <4>2. i \in DOMAIN doc.backends
        BY <2>4, <2>5, <4>1
      <4>3. doc = Patched(read, cfg)
        BY <2>4
      <4>4. QED
        BY <4>2, <4>3, PatchedBackend
    <3>5. QED
      BY <3>2, <3>3, <3>4
  <2>6. ASSUME UniqueNames(read.backends), NEW x \in ToSet(read.backends),
               NEW y \in ToSet(doc.backends), x.name = y.name, x.name # ""
        PROVE  x.extra <=> y.extra
    <3>1. PICK j \in DOMAIN read.backends : x = read.backends[j]
      BY <2>6 DEF ToSet
    <3>2. PICK i \in DOMAIN doc.backends : y = doc.backends[i]
      BY <2>6 DEF ToSet
    <3>3. Named(x.name, read.backends) = {x}
      <4>1. read.backends[j].name # ""
        BY <2>6, <3>1
      <4>2. Named(read.backends[j].name, read.backends) = {read.backends[j]}
        BY <2>6, <4>1, NamedOK
      <4>3. QED
        BY <3>1, <4>2
    <3>4. /\ doc.backends[i].name = cfg.backends[i].name
          /\ doc.backends[i].extra <=> HasExtra(cfg.backends[i].name, read.backends)
      <4>1. doc = Patched(read, cfg)
        BY <2>4
      <4>2. QED
        BY <4>1, PatchedBackend
    <3>5. /\ y.name = cfg.backends[i].name
          /\ y.extra <=> /\ cfg.backends[i].name # ""
                         /\ \E o \in Named(cfg.backends[i].name, read.backends) : o.extra
      BY <3>2, <3>4 DEF HasExtra
    <3>6. QED
      BY <2>6, <3>3, <3>5
  <2>7. QED
    BY <2>1, <2>2, <2>5, <2>6
<1>2. QED
  BY <1>1, SavesKept, PTL
=============================================================================
