------------------------------ MODULE Accounts -------------------------------
(***************************************************************************)
(* The host's account file (auth_state.py). Every operation changes the    *)
(* data in memory and then rewrites the whole file: write_text empties it  *)
(* and writes it again. The program may die at any point, and a file that  *)
(* cannot be read or parsed is replaced by the default data.               *)
(***************************************************************************)
CONSTANTS Phone, Password,
  None,      (* the JSON null                                              *)
  Absent,    (* there is no file                                           *)
  Cut        (* what is in the file is no JSON text                        *)

VARIABLES
  file,      (* the data in the file, Absent, or Cut                       *)
  data,      (* _data; once the program is off, as it was when it died     *)
  pc,        (* "off", "idle", or in _save: "empty", "write", "return"     *)
  (* history *)
  kept,      (* the data that the last operation to return left, or that   *)
             (* the program found in the file when it started              *)
  reset      (* the default data are about to replace the accounts         *)

vars == << file, data, pc, kept, reset >>

(* accounts: the passwords, None where there is no account.                *)
Data == [accounts : [Phone -> Password \cup {None}],
         active_user : Phone \cup {None}, session_logged_in : BOOLEAN]

default_data == [accounts |-> [p \in Phone |-> None],
                 active_user |-> None, session_logged_in |-> FALSE]

(* None is nobody and no password, and what _load cannot read is no data.  *)
AccountsAssumption ==
  /\ None \notin Phone \cup Password
  /\ Absent \notin Data /\ Cut \notin Data

has_account(d, p) == d.accounts[p] # None

Init == /\ file = Absent /\ data = default_data /\ pc = "off"
        /\ kept = default_data /\ reset = FALSE

-----------------------------------------------------------------------------
(* Called with the changed data.                                           *)
BeginSave(d) == data' = d /\ pc' = "empty" /\ UNCHANGED file

(* Faulty variant: a second registration sets a new password. *)
register_user_Again(p, w) ==
  /\ pc = "idle"
  /\ BeginSave([accounts |-> [data.accounts EXCEPT ![p] = w],
                active_user |-> p, session_logged_in |-> TRUE])
  /\ UNCHANGED << kept, reset >>

register_user(p, w) ==
  /\ pc = "idle" /\ ~has_account(data, p)
  /\ BeginSave([accounts |-> [data.accounts EXCEPT ![p] = w],
                active_user |-> p, session_logged_in |-> TRUE])
  /\ UNCHANGED << kept, reset >>

(* Faulty variant: the account is not looked up. *)
login_user_Unknown(p, w) ==
  /\ pc = "idle" /\ (has_account(data, p) => data.accounts[p] = w)
  /\ BeginSave([data EXCEPT !.active_user = p, !.session_logged_in = TRUE])
  /\ UNCHANGED << kept, reset >>

login_user(p, w) ==
  /\ pc = "idle" /\ data.accounts[p] = w
  /\ BeginSave([data EXCEPT !.active_user = p, !.session_logged_in = TRUE])
  /\ UNCHANGED << kept, reset >>

(* Faulty variant: the file is left as it is. *)
logout_user_NotSaved ==
  /\ pc = "idle"
  /\ data' = [data EXCEPT !.session_logged_in = FALSE, !.active_user = None]
  /\ kept' = data'
  /\ UNCHANGED << file, pc, reset >>

logout_user ==
  /\ pc = "idle"
  /\ BeginSave([data EXCEPT !.session_logged_in = FALSE, !.active_user = None])
  /\ UNCHANGED << kept, reset >>

(* write_text opens the file for writing, which empties it,                *)
Empty ==
  /\ pc = "empty" /\ pc' = "write" /\ file' = Cut
  /\ UNCHANGED << data, kept, reset >>

(* and writes the text.                                                    *)
Write ==
  /\ pc = "write" /\ pc' = "return" /\ file' = data
  /\ UNCHANGED << data, kept, reset >>

Return ==
  /\ pc = "return" /\ pc' = "idle" /\ kept' = data /\ reset' = FALSE
  /\ UNCHANGED << file, data >>

-----------------------------------------------------------------------------
(* The program ends or is killed, or an operation on the file raises an    *)
(* exception that nobody catches.                                          *)
Die ==
  /\ pc # "off" /\ pc' = "off"
  /\ UNCHANGED << file, data, kept, reset >>

(* _load of a whole file                                                   *)
Load ==
  /\ pc = "off" /\ file \in Data
  /\ data' = file /\ pc' = "idle" /\ kept' = file /\ reset' = FALSE
  /\ UNCHANGED file

(* _load of a file that is absent or cut                                   *)
LoadDefault ==
  /\ pc = "off" /\ file \notin Data
  /\ BeginSave(default_data) /\ reset' = TRUE
  /\ UNCHANGED kept

(* _load of a whole file when reading it raises an OSError                 *)
LoadUnreadable ==
  /\ pc = "off" /\ file \in Data
  /\ BeginSave(default_data) /\ reset' = TRUE /\ kept' = file

Next ==
  \/ \E p \in Phone, w \in Password : register_user(p, w) \/ login_user(p, w)
  \/ logout_user \/ Empty \/ Write \/ Return
  \/ Die \/ Load \/ LoadDefault \/ LoadUnreadable

Spec == Init /\ [][Next]_vars

-----------------------------------------------------------------------------
(* The program never works with anything but account data, whatever a dead *)
(* program left in the file.                                               *)
TypeOK ==
  /\ file \in Data \cup {Absent, Cut} /\ data \in Data /\ kept \in Data
  /\ pc \in {"off", "idle", "empty", "write", "return"} /\ reset \in BOOLEAN

(* A session is one of a registered account, in memory and in the file: a  *)
(* program killed anywhere in a registration, a login or a logout does not *)
(* come up logged in as somebody it has no account of.                     *)
SessionHasAccount ==
  \A d \in {data, file} \cap Data :
    /\ d.session_logged_in <=> d.active_user # None
    /\ d.session_logged_in => has_account(d, d.active_user)

(* A file that can be read holds the outcome of the last operation that    *)
(* returned, or of the one that was under way when the program died: a     *)
(* restart undoes no login, logout or registration the user was told of.   *)
AnswerIsDurable == file \in Data => file \in {kept, data}

(* An account stays registered with its password, across restarts; the one *)
(* way to lose it is a file that _load finds cut or cannot read, and       *)
(* replaces by the default data.                                           *)
AccountsKept ==
  [][ reset \/ \A p \in Phone : has_account(kept, p)
                  => kept'.accounts[p] = kept.accounts[p] ]_vars
=============================================================================
