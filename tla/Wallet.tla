------------------------------- MODULE Wallet -------------------------------
(***************************************************************************)
(* The key store of wal/wal.go: accounts that are created, saved and       *)
(* loaded by several processes, each in a file that WriteFileAtomic        *)
(* (tendermint/tmlibs/common/os.go) replaces and that the functions of     *)
(* algorithm/algorithm.go encipher.                                        *)
(*                                                                         *)
(* A character of a password is its class.  The hash of an account is the  *)
(* pair it is made of.  The cipher is external: with another password the  *)
(* marker at the front does not come out.                                  *)
(***************************************************************************)
EXTENDS Integers, Sequences, SequencesExt, FiniteSets

CONSTANTS Users,       \* processes that use the key store
          Names, BadNames, PrivKeys, Passwords,
          MaxOps, MaxCrashes

Blocks == 2            \* the length of an enciphered account, in blocks
NoAccount == [name |-> "none", key |-> "none", hash |-> <<>>]
NoFile == [account |-> NoAccount, password |-> <<>>, size |-> Blocks, len |-> 0]
Nobody == "nobody"

VARIABLES file,      \* the key store file of each name, or NoFile
          before,    \* what it was before the last rename
          temp,      \* the temporary files: one for each save that made one
          user,      \* each process: where it is, its account, and its save
          ops, crashes,
          saved,     \* the files that a save reported as written
          replaced   \* the accounts an import has put another in the place of
wvars == <<file, before, temp, user, ops, crashes, saved, replaced>>

Idle == [at |-> "idle", acct |-> NoAccount, name |-> "none", password |-> <<>>, import |-> FALSE, alone |-> TRUE]

InitWallet ==
    /\ file = [n \in Names |-> NoFile] /\ before = [n \in Names |-> NoFile]
    /\ temp = {} /\ user = [u \in Users |-> Idle]
    /\ ops = 0 /\ crashes = 0 /\ saved = {} /\ replaced = {}

-----------------------------------------------------------------------------
\* checkName: the pattern.
checkName(n) == n \notin BadNames

Classes == {"number", "upper", "lower", "special"}

\* checkPassword: all classes of characters, no other ones, 8 to 20 of them.
checkPassword(s) ==
    /\ Classes \subseteq ToSet(s) /\ ToSet(s) \subseteq Classes
    /\ Len(SelectSeq(s, LAMBDA c : c \in Classes)) \in 8 .. 20

Hash(name, key) == <<name, key>>
HashOk(acct) == acct.hash = Hash(acct.name, acct.key)

EncryptWithPassword(acct, password) == [account |-> acct, password |-> password, size |-> Blocks, len |-> Blocks]

\* A part of the blocks has the size of the whole in front, so slicing panics.
DecryptWithPassword(f, password) ==
    CASE f.len = 0 -> "Cannot decrypt empty data"
      [] f.len # 0 /\ f.password # password -> "Decrypt data failed!"
      [] f.len # 0 /\ f.password = password /\ f.len < f.size -> "panic"
      [] OTHER -> "ok"

-----------------------------------------------------------------------------
(* The operations.                                                          *)

Begin(u) == user[u].at = "idle" /\ ops < MaxOps /\ ops' = ops + 1

\* NewAccount and ImportAccount: the hash is made of the name and the key.
ImportAccount(u) ==
    /\ Begin(u)
    /\ \E n \in Names \cup BadNames, k \in PrivKeys, p \in Passwords :
          IF ~checkName(n) THEN UNCHANGED user
          ELSE user' = [user EXCEPT ![u] = [at |-> "save", acct |-> [name |-> n, key |-> k, hash |-> Hash(n, k)],
                                            name |-> n, password |-> p, import |-> TRUE, alone |-> TRUE]]
    /\ UNCHANGED <<file, before, temp, crashes, saved, replaced>>

\* LoadAccount exits the process for a bad name or password.  The account it
\* returns is the one in the file, whose Name may be another.
LoadAccount(u) ==
    /\ Begin(u)
    /\ \E n \in Names \cup BadNames, p \in Passwords :
          CASE ~checkName(n) -> user' = [user EXCEPT ![u] = [Idle EXCEPT !.at = "exited"]]
            [] checkName(n) /\ file[n] = NoFile -> UNCHANGED user
            [] checkName(n) /\ file[n] # NoFile /\ ~checkPassword(p) ->
                  user' = [user EXCEPT ![u] = [Idle EXCEPT !.at = "exited"]]
            [] OTHER -> LET d == DecryptWithPassword(file[n], p)
                        IN  user' = CASE d = "panic" -> [user EXCEPT ![u].at = "panicked"]
                                      [] d = "ok" /\ HashOk(file[n].account) ->
                                            [user EXCEPT ![u] = [Idle EXCEPT !.acct = file[n].account, !.name = n]]
                                      [] OTHER -> user
    /\ UNCHANGED <<file, before, temp, crashes, saved, replaced>>

\* The owner of an account may change its exported fields.
EditAccount(u) ==
    /\ user[u].acct # NoAccount /\ Begin(u)
    /\ \E k \in PrivKeys : user' = [user EXCEPT ![u].acct.key = k]
    /\ UNCHANGED <<file, before, temp, crashes, saved, replaced>>

\* Save, of an account that was imported or loaded.
Save(u) ==
    /\ user[u].acct # NoAccount /\ Begin(u)
    /\ \E p \in Passwords : user' = [user EXCEPT ![u].at = "save", ![u].password = p, ![u].import = FALSE,
                                                 ![u].alone = TRUE]
    /\ UNCHANGED <<file, before, temp, crashes, saved, replaced>>

-----------------------------------------------------------------------------
(* save and WriteFileAtomic.  Making the directory, opening and writing may *)
(* fail; a process may crash between any two steps.                         *)

SaveFails(u) == user' = [user EXCEPT ![u] = IF @.import THEN Idle ELSE [@ EXCEPT !.at = "idle"]]

\* Mutant: an import does not look whether there is a file.
check_Overwrites(u) == ~HashOk(user[u].acct) \/ ~checkPassword(user[u].password)

check(u) == \/ ~HashOk(user[u].acct) \/ ~checkPassword(user[u].password)
            \/ file[user[u].name] # NoFile /\ user[u].import

save(u) ==
    /\ user[u].at = "save"
    /\ \/ SaveFails(u)
       \/ ~check(u) /\ user' = [user EXCEPT ![u].at = "open"]
    /\ UNCHANGED <<file, before, temp, ops, crashes, saved, replaced>>

OpenTemp(u) ==
    /\ user[u].at = "open"
    /\ user' = [user EXCEPT ![u].at = "write"]
    /\ temp' = temp \cup {[by |-> u, len |-> 0]}
    /\ UNCHANGED <<file, before, ops, crashes, saved, replaced>>

\* Mutant: a short write is renamed as well.
WriteTemp_Short(u) ==
    /\ user[u].at = "write"
    /\ \E n \in 0 .. Blocks :
          /\ temp' = {t \in temp : t.by # u} \cup {[by |-> u, len |-> n]}
          /\ user' = [user EXCEPT ![u].at = "rename"]
    /\ UNCHANGED <<file, before, ops, crashes, saved, replaced>>

\* Write, all of it or, with an error, a part: with O_SYNC it is on disk.
WriteTemp(u) ==
    /\ user[u].at = "write"
    /\ \E n \in 0 .. Blocks :
          /\ temp' = {t \in temp : t.by # u} \cup {[by |-> u, len |-> n]}
          /\ user' = [user EXCEPT ![u].at = IF n < Blocks THEN "failed" ELSE "rename"]
    /\ UNCHANGED <<file, before, ops, crashes, saved, replaced>>

TempOf(u) == CHOOSE t \in temp : t.by = u
Content(u) == [EncryptWithPassword(user[u].acct, user[u].password) EXCEPT !.len = TempOf(u).len]

\* os.Rename.  The others that are saving this name are no longer alone.
Rename(u) ==
    LET n == user[u].name
    IN  /\ user[u].at = "rename"
        /\ file' = [file EXCEPT ![n] = Content(u)] /\ before' = [before EXCEPT ![n] = file[n]]
        /\ temp' = {t \in temp : t.by # u}
        /\ saved' = saved \cup {Content(u)}
        /\ replaced' = IF user[u].import /\ file[n] # NoFile
                       THEN replaced \cup {[alone |-> user[u].alone]} ELSE replaced
        /\ user' = [v \in Users |-> IF v = u THEN [user[u] EXCEPT !.at = "idle"]
                                    ELSE IF user[v].name = n THEN [user[v] EXCEPT !.alone = FALSE] ELSE user[v]]
        /\ UNCHANGED <<ops, crashes>>

\* The deferred Close and Remove after a failure.
RemoveTemp(u) ==
    /\ user[u].at = "failed"
    /\ temp' = {t \in temp : t.by # u}
    /\ SaveFails(u)
    /\ UNCHANGED <<file, before, ops, crashes, saved, replaced>>

\* A process dies; or the machine does, and the last rename of a file may be
\* lost ("which still leaves the potential of lingering disk cache").
Dead == [Idle EXCEPT !.at = "dead"]
LeftBy(U) == {IF t.by \in U THEN [t EXCEPT !.by = Nobody] ELSE t : t \in temp}
Crash(u) ==
    /\ crashes < MaxCrashes /\ crashes' = crashes + 1
    /\ user[u].at \notin {"idle", "dead"} /\ user' = [user EXCEPT ![u] = Dead] /\ temp' = LeftBy({u})
    /\ UNCHANGED <<file, before, ops, saved, replaced>>
PowerLoss ==
    /\ crashes < MaxCrashes /\ crashes' = crashes + 1
    /\ user' = [u \in Users |-> Dead] /\ temp' = LeftBy(Users)
    /\ file' \in {f \in [Names -> {file[n] : n \in Names} \cup {before[n] : n \in Names}] :
                     \A n \in Names : f[n] \in {file[n], before[n]}}
    /\ UNCHANGED <<before, ops, saved, replaced>>
Restart(u) ==
    /\ user[u].at \in {"dead", "exited"}
    /\ user' = [user EXCEPT ![u] = Idle]
    /\ UNCHANGED <<file, before, temp, ops, crashes, saved, replaced>>

User(u) == ImportAccount(u) \/ LoadAccount(u) \/ EditAccount(u) \/ Save(u) \/ save(u) \/ OpenTemp(u)
           \/ WriteTemp(u) \/ Rename(u) \/ RemoveTemp(u) \/ Crash(u) \/ Restart(u)
NextWallet == PowerLoss \/ \E u \in Users : User(u)

-----------------------------------------------------------------------------
\* The key store after any crashes, failed writes and races: a file is always
\* the whole of an account that some save has put there, so no reader meets
\* a part of one; who loads an account has its true hash; a temporary file
\* is left behind only by a crash; and an import replaces an account only
\* when another save of that name came between its look and its rename.
WalletSafe ==
    /\ \A n \in Names : file[n] # NoFile =>
          file[n] \in saved /\ file[n].len = file[n].size /\ HashOk(file[n].account)
          /\ file[n].account.name = n /\ checkPassword(file[n].password)
    /\ \A u \in Users : user[u].at # "panicked"
    /\ \A t \in temp : t.by = Nobody => crashes > 0
    /\ \A t \in temp : t.by # Nobody => user[t.by].at \in {"write", "rename", "failed"}
    /\ \A r \in replaced : ~r.alone

\* "key store file is already exist": an import never replaces an account.
ImportKeepsAccounts == replaced = {}

\* A save that has returned without an error survives.  Not the loss of power
\* before the directory is on disk.
SavedSurvives == saved # {} => \E n \in Names : file[n] # NoFile
=============================================================================
