-------------------------------- MODULE SignUp --------------------------------
(***************************************************************************)
(* From a first contact to a place for the first entry, for one Telegram   *)
(* id.  Requests of the bot, of the Mini App (initData) and of the web     *)
(* login find or create the user (UserService.ensureFromTelegram); a       *)
(* request with a web token looks the user up; then an entry finds or      *)
(* creates its category (CategoryService) and its account (AccountService).*)
(* Requests overlap at every await, and the only guards are the unique     *)
(* keys: users(telegram_id), accounts(user_id, name),                      *)
(* categories(user_id, slug).                                              *)
(***************************************************************************)
EXTENDS Naturals, FiniteSets

CONSTANTS
  Entries,      \* requests that may be handled at once
  Names,        \* names of DEFAULT_ACCOUNTS in the order of the alphabet, as numbers
  Cash,         \* the one that is created as the default
  Seeded        \* whether the system categories are in the database

ASSUME SignUpAssumption == Names \subseteq Nat /\ Cash \in Names /\ Seeded \in BOOLEAN

VARIABLES
  user,         \* whether the user has a row
  account,      \* account[n] \in {"none", "open", "archived"}
  default,      \* accounts flagged as the default
  own,          \* kind of the user's own category with the slug of the entries, or "none"
  token,        \* whether the user holds a web token that is not expired
  entry         \* what each request is about to do

signUpVars == <<user, account, default, own, token, entry>>

Kinds == {"EXPENSE", "INCOME"}
Idle == [at |-> "idle"]
Goto(e, new) == entry' = [entry EXCEPT ![e] = new]
At(e, place) == entry[e].at = place
MoveTo(e, place) == Goto(e, [entry[e] EXCEPT !.at = place])

(* Accounts of the user that are not archived; the first one by the order  *)
(* of listForUser and findAnyForUser: default first, then by name.         *)
Open == {n \in Names : account[n] = "open"}
FirstBy(S) ==
  CHOOSE n \in S : \A m \in S \ {n} :
    \/ n \in default /\ m \notin default
    \/ (n \in default) = (m \in default) /\ n < m

(* A user of today starts without a row.  One from before the default      *)
(* accounts has a row, some accounts, and maybe none that is the default.  *)
SignUpInit ==
  /\ user \in BOOLEAN
  /\ account \in [Names -> {"none", "open", "archived"}]
  /\ default \in SUBSET {Cash}
  /\ own \in Kinds \cup {"none"}
  /\ Cash \in default => account[Cash] # "none"
  /\ ~user => account = [n \in Names |-> "none"] /\ own = "none"
  /\ token = FALSE
  /\ entry = [e \in Entries |-> Idle]

(* A request of an identity that was verified (verifyTelegramInitData,     *)
(* verifyTelegramLoginWidget, the webhook), or with a web token.  The chat *)
(* offers a category that is missing, and the entry waits for Confirm.     *)
Arrive(e, kind, chat) ==
  /\ At(e, "idle")
  /\ Goto(e, [at |-> "find", kind |-> kind, chat |-> chat, chosen |-> FALSE])
  /\ UNCHANGED <<user, account, default, own, token>>
ArriveWithToken(e, kind) ==
  /\ At(e, "idle") /\ token
  /\ Goto(e, [at |-> "byId", kind |-> kind, chat |-> FALSE, chosen |-> FALSE])
  /\ UNCHANGED <<user, account, default, own, token>>
FindById(e) ==
  /\ At(e, "byId")
  /\ MoveTo(e, IF user THEN "category" ELSE "no user")
  /\ UNCHANGED <<user, account, default, own, token>>

(* ensureFromTelegram.  The transaction inserts the user, the accounts and *)
(* the free subscription, or fails on the unique telegram id; then the     *)
(* audit row, whose failure fails the request.                             *)
FindUser(e) ==
  /\ At(e, "find")
  /\ MoveTo(e, IF user THEN "category" ELSE "insert")
  /\ UNCHANGED <<user, account, default, own, token>>
(* Mutant: a user who came first is taken for an error. *)
InsertUserOrFail(e) ==
  /\ At(e, "insert")
  /\ IF user
     THEN MoveTo(e, "no user") /\ UNCHANGED <<user, account, default>>
     ELSE /\ user' = TRUE
          /\ account' = [n \in Names |-> "open"] /\ default' = {Cash}
          /\ MoveTo(e, "audit")
  /\ UNCHANGED <<own, token>>
InsertUser(e) ==
  /\ At(e, "insert")
  /\ IF user
     THEN MoveTo(e, "find again") /\ UNCHANGED <<user, account, default>>
     ELSE /\ user' = TRUE
          /\ account' = [n \in Names |-> "open"] /\ default' = {Cash}
          /\ MoveTo(e, "audit")
  /\ UNCHANGED <<own, token>>
AuditUser(e, fails) ==
  /\ At(e, "audit")
  /\ MoveTo(e, IF fails THEN "failed" ELSE "category")
  /\ UNCHANGED <<user, account, default, own, token>>
FindUserAgain(e) ==
  /\ At(e, "find again")
  /\ MoveTo(e, IF user THEN "category" ELSE "no user")
  /\ UNCHANGED <<user, account, default, own, token>>

(* The web login signs a token for the user that was found; it expires.    *)
LogIn(e) ==
  /\ At(e, "category") /\ entry[e].kind = "login"
  /\ token' = TRUE /\ Goto(e, Idle)
  /\ UNCHANGED <<user, account, default, own>>
TokenExpires ==
  /\ token /\ token' = FALSE
  /\ UNCHANGED <<user, account, default, own, entry>>
-----------------------------------------------------------------------------
(* offerMissingCategory: what is missing now may be there at the Confirm.  *)
Offer(e) ==
  /\ At(e, "category") /\ entry[e].chat
  /\ Goto(e, [entry[e] EXCEPT !.chat = FALSE, !.chosen = own # entry[e].kind])
  /\ UNCHANGED <<user, account, default, own, token>>

(* resolveCommandCategory, for an entry with a slug that is no system      *)
(* category.  findBySlug asks for the kind as well, the unique key does    *)
(* not.                                                                    *)
Fallback(e) == IF Seeded THEN [entry[e] EXCEPT !.at = "default"] ELSE [entry[e] EXCEPT !.at = "no category"]
FindCategory(e) ==
  /\ At(e, "category") /\ entry[e].kind # "login" /\ ~entry[e].chat
  /\ IF own = entry[e].kind THEN MoveTo(e, "default")
     ELSE IF entry[e].chosen THEN MoveTo(e, "create category")
     ELSE Goto(e, Fallback(e))
  /\ UNCHANGED <<user, account, default, own, token>>
CreateCategory(e) ==
  /\ At(e, "create category")
  /\ IF own = "none" THEN own' = entry[e].kind /\ MoveTo(e, "audit category")
                     ELSE MoveTo(e, "category again") /\ UNCHANGED own
  /\ UNCHANGED <<user, account, default, token>>
AuditCategory(e, fails) ==
  /\ At(e, "audit category")
  /\ MoveTo(e, IF fails THEN "failed" ELSE "default")
  /\ UNCHANGED <<user, account, default, own, token>>
FindCategoryAgain(e) ==
  /\ At(e, "category again")
  /\ MoveTo(e, IF own = entry[e].kind THEN "default" ELSE "slug taken")
  /\ UNCHANGED <<user, account, default, own, token>>

(* The Mini App's create, in one step: the unique key decides.             *)
AddOwnCategory(kind) ==
  /\ user /\ own = "none"
  /\ own' = kind
  /\ UNCHANGED <<user, account, default, token, entry>>
-----------------------------------------------------------------------------
(* resolveForUser.                                                         *)
Log(e, n) == Goto(e, [at |-> "logged", kind |-> entry[e].kind, account |-> n])
FindDefault(e, here, next) ==
  /\ At(e, here)
  /\ IF Open \cap default # {} THEN \E n \in Open \cap default : Log(e, n)
                               ELSE MoveTo(e, next)
  /\ UNCHANGED <<user, account, default, own, token>>
ListFirst(e, here, next) ==
  /\ At(e, here)
  /\ IF Open # {} THEN Log(e, FirstBy(Open)) ELSE MoveTo(e, next)
  /\ UNCHANGED <<user, account, default, own, token>>

(* createMany with skipDuplicates.                                         *)
EnsureDefaults(e) ==
  /\ At(e, "ensure")
  /\ account' = [n \in Names |-> IF account[n] = "none" THEN "open" ELSE account[n]]
  /\ default' = default \cup ({Cash} \ {n \in Names : account[n] # "none"})
  /\ MoveTo(e, "default again")
  /\ UNCHANGED <<user, own, token>>

FindArchived(e) ==
  LET any == {n \in Names : account[n] # "none"}
  IN  /\ At(e, "any")
      /\ IF any = {} THEN MoveTo(e, "no account")
                     ELSE Goto(e, [at |-> "revive", kind |-> entry[e].kind, account |-> FirstBy(any)])
      /\ UNCHANGED <<user, account, default, own, token>>
Revive(e) ==
  /\ At(e, "revive")
  /\ account' = [account EXCEPT ![entry[e].account] = "open"]
  /\ default' = default \cup {entry[e].account}
  /\ Log(e, entry[e].account)
  /\ UNCHANGED <<user, own, token>>

(* Somebody archives an account in the database: no code does.             *)
Archive(n) ==
  /\ account[n] = "open"
  /\ account' = [account EXCEPT ![n] = "archived"]
  /\ UNCHANGED <<user, default, own, token, entry>>

(* The answer; an error of the database, at any await, is one as well.     *)
Over == {"logged", "failed", "no user", "no category", "slug taken", "no account"}
Answer(e) ==
  /\ entry[e].at \in Over
  /\ Goto(e, Idle)
  /\ UNCHANGED <<user, account, default, own, token>>
Break(e) ==
  /\ entry[e].at \notin Over \cup {"idle"}
  /\ MoveTo(e, "failed")
  /\ UNCHANGED <<user, account, default, own, token>>

SignUpNext ==
  \/ \E e \in Entries, kind \in Kinds, chat \in BOOLEAN :
       Arrive(e, kind, chat) \/ ArriveWithToken(e, kind)
  \/ \E e \in Entries : Arrive(e, "login", FALSE)
  \/ \E e \in Entries :
       \/ FindById(e) \/ FindUser(e) \/ InsertUser(e) \/ FindUserAgain(e) \/ LogIn(e)
       \/ Offer(e) \/ FindCategory(e) \/ CreateCategory(e) \/ FindCategoryAgain(e)
       \/ FindDefault(e, "default", "list") \/ ListFirst(e, "list", "ensure")
       \/ EnsureDefaults(e)
       \/ FindDefault(e, "default again", "list again") \/ ListFirst(e, "list again", "any")
       \/ FindArchived(e) \/ Revive(e)
       \/ Answer(e) \/ Break(e)
  \/ \E e \in Entries, fails \in BOOLEAN : AuditUser(e, fails) \/ AuditCategory(e, fails)
  \/ \E kind \in Kinds : AddOwnCategory(kind)
  \/ \E n \in Names : Archive(n)
  \/ TokenExpires

SignUpSpec == SignUpInit /\ [][SignUpNext]_signUpVars
-----------------------------------------------------------------------------
(* "Capturing the amount matters more than classifying it": whatever       *)
(* overlaps, a contact finds its user, and an entry an account and a       *)
(* category; it is only refused when the user chose a category whose slug  *)
(* an own category of the other kind holds, or when no category is seeded. *)
(* A user never has two default accounts, nor half a sign-up.              *)
AlwaysAPlaceToLog ==
  /\ \A e \in Entries :
       /\ entry[e].at \notin {"no user", "no account"}
       /\ At(e, "no category") => ~Seeded
       /\ At(e, "slug taken") => entry[e].chosen /\ own \in Kinds \ {entry[e].kind}
       /\ entry[e].at \in {"audit", "category", "default", "logged"} => user
       /\ At(e, "logged") => account[entry[e].account] # "none"
  /\ Cardinality(default) <= 1 /\ \A n \in default : account[n] # "none"
  /\ ~user => own = "none" /\ \A n \in Names : account[n] = "none"
=============================================================================
