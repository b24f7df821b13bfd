----------------------------- MODULE ConfigFile -----------------------------
(***************************************************************************)
(* The configuration file and what the console does with it                *)
(* (internal/server/console.go): secrets are masked for the browser and    *)
(* put back when it saves, and the file is patched, not rewritten, so that *)
(* what the console does not know of survives.                             *)
(*                                                                         *)
(* A backend is [id, name, key]: `id' is history, the service its operator *)
(* means by it, `key' its api_key and secret headers.  In the file it has  *)
(* `extra' too: a key written by hand that the console knows nothing of.   *)
(***************************************************************************)
EXTENDS Config, FiniteSets

CONSTANTS Placeholder,  \* redactedSecretPlaceholder
          Expanded      \* os.Expand of a password as written, e.g. of "${VAR}";
                        \* what it gives may have a "$" again

\* Plain backends of the file: what LoadConfig makes of them.
Known(b) == [id |-> b.id, name |-> b.name, key |-> b.key]
Config(doc) == [backends |-> [i \in DOMAIN doc.backends |-> Known(doc.backends[i])],
                raw |-> doc.raw, password |-> Expanded[doc.raw], log |-> doc.log]

\* LoadConfig refuses an empty list, a name twice and an empty password.  For a
\* start it takes more, see Console.
Loads(doc) == /\ doc.backends # <<>>
              /\ UniqueNames(doc.backends)
              /\ Expanded[doc.raw] # ""

\* redactBackendSecrets
Redacted(backends) ==
    [i \in DOMAIN backends |-> [backends[i] EXCEPT !.key = IF @ = "" THEN "" ELSE Placeholder]]

\* The last of the backends of that name, {} if there is none.
Named(name, backends) ==
    LET at == {i \in DOMAIN backends : backends[i].name = name}
    IN  {backends[i] : i \in {i \in at : \A j \in at \ {i} : j < i}}

\* Mutant: secrets are put back by position only.
RestoredByPosition(new, old) ==
    [i \in DOMAIN new |->
        IF new[i].key = Placeholder /\ i \in DOMAIN old
        THEN [new[i] EXCEPT !.key = old[i].key] ELSE new[i]]

\* restoreBackendSecrets: from the old backend of that name, or else from the
\* one in the same place; without either the placeholder stays.
Restored(new, old) ==
    [i \in DOMAIN new |->
        LET from == IF Named(new[i].name, old) # {} THEN Named(new[i].name, old)
                    ELSE IF i \in DOMAIN old THEN {old[i]} ELSE {}
            key == IF new[i].key = Placeholder /\ from # {}
                   THEN (CHOOSE b \in from : TRUE).key ELSE new[i].key
        IN  [id |-> new[i].id, name |-> new[i].name, key |-> key]]

\* mergeBackendsNode: keys the console does not know are kept, of a backend that
\* has a name.
Merged(b, old) == [id |-> b.id, name |-> b.name, key |-> b.key,
                   extra |-> b.name # "" /\ \E o \in Named(b.name, old) : o.extra]

\* patchConfigYAML: every key the console knows gets its value.
Patched(doc, cfg) ==
    [backends |-> [i \in DOMAIN cfg.backends |-> Merged(cfg.backends[i], doc.backends)],
     raw |-> cfg.password, log |-> cfg.log]
=============================================================================
