------------------------------- MODULE Signup -------------------------------
(* register_one of clients/windows/grok_register_ttk.py: a worker's browser  *)
(* takes one new mailbox through the sign-up pages of xAI, past the gate of  *)
(* grok.com and through a conversation; then the account is written down and *)
(* its Sub2API credential is exported and pushed (cpa_export.py).            *)
(*                                                                           *)
(* A mailbox stands for the account that is registered with it. The site,    *)
(* the mail provider and the bridge are external: a step that acts on a page *)
(* includes the page's reaction, and a loop that waits ends at its deadline  *)
(* whenever it likes. Deadlines are not measured.                            *)
EXTENDS Integers, FiniteSets

CONSTANTS
    Workers,
    Server,       \* the configuration run_linux_client_full.py writes, or the default one
    Cloudflare,   \* mail provider: Cloudflare, or one of the Mail.tm kind
    MailTries,    \* mailboxes an attempt may use (max_mail_retry)
    LetterLooks,  \* times a Cloudflare letter is parsed (seen_attempts)
    Canaries,     \* conversations a server attempt may try
    MaxBoxes,     \* bound: mailboxes
    MaxLetters,   \* bound: letters sent to a mailbox
    MaxFaults     \* bound: writes that fail, answers that are lost, browsers that break

ASSUME SignupConstants ==
    /\ IsFiniteSet(Workers)
    /\ Server \in BOOLEAN /\ Cloudflare \in BOOLEAN
    /\ MailTries \in Nat \ {0} /\ LetterLooks \in Nat \ {0} /\ Canaries \in Nat \ {0}
    /\ MaxBoxes \in Nat \ {0} /\ MaxLetters \in Nat \ {0} /\ MaxFaults \in Nat

Boxes == 1..MaxBoxes
Letters == 1..MaxLetters
None == 0
Looks == IF Cloudflare THEN LetterLooks ELSE 1

Unsent == -2     \* a letter is not sent yet,
OnTheWay == -1   \* is on its way, or has been looked at 0..Looks times
NoLetters == [l \in Letters |-> Unsent]

Pages == {"none", "entry", "form", "code", "profile", "ready", "final", "in", "age", "other"}
Stages == {"open", "entry", "mailbox", "email", "note", "poll", "type", "change",
           "profile", "final", "tos", "gate", "gate again", "birth", "surface", "prompt",
           "reply", "regate", "rebirth", "account", "mint", "place", "push"}
Outcomes == {"won", "failed", "retry", "cancelled"}
Directories == {"none", "pending", "cooldown", "verified"}

VARIABLES
    at,        \* stage of every worker's attempt, its outcome, or a step of the worker's loop
    box,       \* mailbox of the attempt
    tries,     \* mailboxes it has used
    letters,   \* the letters of its mailbox
    up, page,  \* the worker has a browser; what it shows
    gated,     \* grok.com still sends the account to the gate
    talks,     \* conversations tried
    used,      \* mailboxes created
    stop,      \* SharedState.stop_requested
    mailFile, acctFile,   \* mail_credentials.txt, accounts_*.txt
    made,      \* accounts at xAI
    dir,       \* state directory of an account's credential
    held,      \* accounts Sub2API has
    unheard,   \* history: pushed, and the answer was lost
    faults

attempt == <<box, tries, letters, gated, talks>>
browser == <<up, page>>
files == <<mailFile, acctFile>>
signupVars == <<at, attempt, browser, used, stop, files, made, dir, held, unheard, faults>>

SignupTypeOK ==
    /\ box \in [Workers -> {None} \cup Boxes] /\ tries \in [Workers -> 1..MailTries]
    /\ letters \in [Workers -> [Letters -> {Unsent, OnTheWay} \cup 0..Looks]]
    /\ up \in [Workers -> BOOLEAN] /\ page \in [Workers -> Pages]
    /\ gated \in [Workers -> BOOLEAN] /\ talks \in [Workers -> 0..Canaries]
    /\ used \in 0..MaxBoxes /\ stop \in BOOLEAN /\ faults \in 0..MaxFaults
    /\ mailFile \subseteq Boxes /\ acctFile \subseteq Boxes /\ made \subseteq Boxes
    /\ dir \in [Boxes -> Directories] /\ held \subseteq Boxes /\ unheard \subseteq Boxes

\* The locals of attempts when there are none.
NoAttempts ==
    /\ box' = [w \in Workers |-> None] /\ tries' = [w \in Workers |-> 1]
    /\ letters' = [w \in Workers |-> NoLetters] /\ page' = [w \in Workers |-> "none"]
    /\ gated' = [w \in Workers |-> TRUE] /\ talks' = [w \in Workers |-> 0]

SignupInit ==
    /\ box = [w \in Workers |-> None] /\ tries = [w \in Workers |-> 1]
    /\ letters = [w \in Workers |-> NoLetters]
    /\ up = [w \in Workers |-> FALSE] /\ page = [w \in Workers |-> "none"]
    /\ gated = [w \in Workers |-> TRUE] /\ talks = [w \in Workers |-> 0]
    /\ used = 0 /\ stop = FALSE /\ mailFile = {} /\ acctFile = {} /\ made = {}
    /\ dir = [b \in Boxes |-> "none"] /\ held = {} /\ unheard = {} /\ faults = 0

-----------------------------------------------------------------------------
(* Helpers.                                                                  *)

Goto(w, stage) == at' = [at EXCEPT ![w] = stage]
Show(w, p) == page' = [page EXCEPT ![w] = p] /\ UNCHANGED up
Fault == faults < MaxFaults /\ faults' = faults + 1

\* register_one has returned or raised: its locals are gone, and what the
\* browser shows no longer matters.
Leave(w, outcome) ==
    /\ Goto(w, outcome) /\ page' = [page EXCEPT ![w] = "none"]
    /\ letters' = [letters EXCEPT ![w] = NoLetters] /\ tries' = [tries EXCEPT ![w] = 1]
    /\ gated' = [gated EXCEPT ![w] = TRUE] /\ talks' = [talks EXCEPT ![w] = 0]
    /\ box' = [box EXCEPT ![w] = IF outcome = "won" THEN @ ELSE None]

\* BrowserSession.restart: stop, then up to four starts.
Restart(w, ok) == up' = [up EXCEPT ![w] = ok] /\ page' = [page EXCEPT ![w] = "none"]

\* The stages whose loops call raise_if_cancelled or sleep_with_cancel and do
\* not turn the exception into a failure of their own.
Cancellable == {"open", "entry", "mailbox", "email", "poll", "type", "profile", "final",
                "birth", "rebirth"}
Cancelled(w) ==
    /\ stop /\ at[w] \in Cancellable /\ Leave(w, "cancelled")
    /\ UNCHANGED <<up, used, stop, files, made, dir, held, unheard, faults>>

(* The stages that give up with an exception: no button, no form, no mailbox,*)
(* no cookie, a gate, birthday or conversation that does not pass, no OAuth. *)
GivesUp == {"open", "entry", "mailbox", "email", "profile", "final", "gate again", "birth",
            "surface", "prompt", "reply", "regate", "rebirth", "mint"}
GiveUp(w) ==
    /\ at[w] \in GivesUp /\ Leave(w, "failed")
    /\ UNCHANGED <<up, used, stop, files, made, dir, held, unheard, faults>>

-----------------------------------------------------------------------------
(* The address.                                                              *)

\* open_signup_page: the existing tab, a new one, or a new browser.
OpenSignup(w) ==
    /\ at[w] = "open" /\ Goto(w, "entry")
    /\ up' = [up EXCEPT ![w] = TRUE] /\ page' = [page EXCEPT ![w] = "entry"]
    /\ UNCHANGED <<attempt, used, stop, files, made, dir, held, unheard, faults>>

\* click_email_signup_button; the form need not have come up yet.
ClickEntry(w) ==
    /\ at[w] = "entry" /\ Goto(w, "mailbox") /\ \E p \in {"entry", "form"} : Show(w, p)
    /\ UNCHANGED <<attempt, used, stop, files, made, dir, held, unheard, faults>>

\* get_email_and_token.
NewMailbox(w) ==
    /\ at[w] = "mailbox" /\ used < MaxBoxes /\ Goto(w, "email")
    /\ used' = used + 1 /\ box' = [box EXCEPT ![w] = used + 1]
    /\ UNCHANGED <<tries, letters, gated, talks, browser, stop, files, made, dir, held, unheard,
                   faults>>

\* The form is not there: the entry is clicked again.
ReclickEntry(w) ==
    /\ at[w] = "email" /\ page[w] = "entry" /\ Show(w, "form")
    /\ UNCHANGED <<at, attempt, used, stop, files, made, dir, held, unheard, faults>>

SendLetter(w) ==
    \E l \in Letters :
        /\ letters[w][l] = Unsent /\ \A k \in 1..(l - 1) : letters[w][k] # Unsent
        /\ letters' = [letters EXCEPT ![w][l] = OnTheWay]

\* Typed and submitted with native input, which waits until the page moves:
\* to the code form, or anywhere that has no address field.
SubmitEmailNative(w) ==
    /\ Server /\ at[w] = "email" /\ page[w] = "form" /\ Goto(w, "note")
    /\ \/ Show(w, "code") /\ SendLetter(w)
       \/ Show(w, "other") /\ UNCHANGED letters
    /\ UNCHANGED <<box, tries, gated, talks, used, stop, files, made, dir, held, unheard, faults>>

\* The script clicks and does not look where the page went.
SubmitEmailScript(w) ==
    /\ ~Server /\ at[w] = "email" /\ page[w] = "form" /\ Goto(w, "note")
    /\ \/ Show(w, "code") /\ SendLetter(w)
       \/ UNCHANGED <<browser, letters>>
    /\ UNCHANGED <<box, tries, gated, talks, used, stop, files, made, dir, held, unheard, faults>>

\* Mutant: the credential of a mailbox is not written.
NoteNothing(w) ==
    /\ at[w] = "note" /\ Goto(w, "poll")
    /\ UNCHANGED <<attempt, browser, used, stop, files, made, dir, held, unheard, faults>>

\* save_mail_credential, which swallows what goes wrong.
NoteMailbox(w) ==
    /\ at[w] = "note" /\ Goto(w, "poll")
    /\ \/ mailFile' = mailFile \cup {box[w]} /\ UNCHANGED faults
       \/ Fault /\ UNCHANGED mailFile
    /\ UNCHANGED <<attempt, browser, used, stop, acctFile, made, dir, held, unheard>>

-----------------------------------------------------------------------------
(* The code.                                                                 *)

\* Exceptions about the code: another mailbox, in a new browser, or the end.
CodeFails(w) ==
    /\ at[w] \in {"poll", "type"}
    /\ IF tries[w] < MailTries THEN Goto(w, "change") /\ UNCHANGED <<attempt, page>>
                               ELSE Leave(w, "failed")
    /\ UNCHANGED <<up, used, stop, files, made, dir, held, unheard, faults>>

ChangeMailbox(w) ==
    /\ at[w] = "change"
    /\ \/ /\ Restart(w, TRUE) /\ Goto(w, "open")
          /\ tries' = [tries EXCEPT ![w] = @ + 1] /\ box' = [box EXCEPT ![w] = None]
          /\ letters' = [letters EXCEPT ![w] = NoLetters] /\ UNCHANGED <<gated, talks, faults>>
       \/ Fault /\ up' = [up EXCEPT ![w] = FALSE] /\ Leave(w, "failed")
    /\ UNCHANGED <<used, stop, files, made, dir, held, unheard>>

\* External: a letter arrives.
Deliver(w) ==
    \E l \in Letters :
        /\ letters[w][l] = OnTheWay /\ letters' = [letters EXCEPT ![w][l] = 0]
        /\ UNCHANGED <<at, box, tries, gated, talks, browser, used, stop, files, made, dir, held,
                       unheard, faults>>

\* Letter l has arrived and is looked at: it counts as seen, whether or not
\* its text can be read.
LookAt(w, l) ==
    /\ at[w] = "poll" /\ letters[w][l] \in 0..(Looks - 1)
    /\ letters' = [letters EXCEPT ![w][l] = @ + 1]
    /\ UNCHANGED <<box, tries, gated, talks, browser, used, stop, files, made, dir, held, unheard,
                   faults>>

\* duckmail_get_oai_code, yyds_get_oai_code: one look, detail and all.
LookOnce(w) == ~Cloudflare /\ \E l \in Letters : LookAt(w, l) /\ at' \in {at, [at EXCEPT ![w] = "type"]}

\* cloudflare_get_oai_code: text of the list and of the detail, several looks.
LookAgain(w) == Cloudflare /\ \E l \in Letters : LookAt(w, l) /\ at' \in {at, [at EXCEPT ![w] = "type"]}

\* The resend button, which only the Cloudflare loop presses.
Resend(w) ==
    /\ Cloudflare /\ at[w] = "poll" /\ page[w] = "code" /\ SendLetter(w)
    /\ UNCHANGED <<at, box, tries, gated, talks, browser, used, stop, files, made, dir, held,
                   unheard, faults>>

\* fill_code_and_submit: native input waits for the password field, or for the
\* code fields to go away.
TypeCodeNative(w) ==
    /\ Server /\ at[w] = "type" /\ page[w] = "code" /\ Goto(w, "profile")
    /\ \E p \in {"profile", "other"} : Show(w, p)
    /\ UNCHANGED <<attempt, used, stop, files, made, dir, held, unheard, faults>>

\* The script returns when it has clicked, or found no button to click.
TypeCodeScript(w) ==
    /\ ~Server /\ at[w] = "type" /\ page[w] = "code" /\ Goto(w, "profile")
    /\ \E p \in {"code", "profile"} : Show(w, p)
    /\ UNCHANGED <<attempt, used, stop, files, made, dir, held, unheard, faults>>

-----------------------------------------------------------------------------
(* The account.                                                              *)

\* getTurnstileToken, or the widget by itself: the page may be submitted.
SolveChallenge(w) ==
    /\ at[w] \in {"profile", "final"} /\ page[w] = "profile" /\ Show(w, "ready")
    /\ UNCHANGED <<at, attempt, used, stop, files, made, dir, held, unheard, faults>>

\* xAI takes the form of w: there is an account.
Take(w) == made' = made \cup {box[w]}

\* fill_profile_and_submit with native input: done when the form has gone. The
\* site may take the form and leave the page as it is.
FillProfileNative(w) ==
    /\ Server /\ at[w] = "profile" /\ page[w] = "ready"
    /\ \/ Goto(w, "final") /\ Show(w, "final") /\ UNCHANGED made
       \/ Take(w) /\ UNCHANGED <<at, browser>>
    /\ UNCHANGED <<attempt, used, stop, files, dir, held, unheard, faults>>

\* The script is done when it has clicked.
FillProfileScript(w) ==
    /\ ~Server /\ at[w] = "profile" /\ page[w] = "ready" /\ Goto(w, "final")
    /\ \E p \in {"profile", "ready", "final"} : Show(w, p)
    /\ UNCHANGED <<attempt, used, stop, files, made, dir, held, unheard, faults>>

\* wait_for_sso_cookie clicks the button of a page that is still there.
Resubmit(w) ==
    /\ at[w] = "final" /\ page[w] = "ready" /\ Show(w, "final")
    /\ UNCHANGED <<at, attempt, used, stop, files, made, dir, held, unheard, faults>>

\* External: the account is made, and the browser gets its cookie, or not.
SiteSignsIn(w) ==
    /\ page[w] = "final" /\ at[w] = "final" /\ Take(w)
    /\ \E p \in {"final", "in"} : Show(w, p)
    /\ UNCHANGED <<at, attempt, used, stop, files, dir, held, unheard, faults>>

\* refresh_page finds the browser gone; the new one, if it starts, knows nothing.
LoseBrowser(w) ==
    /\ at[w] = "final" /\ Fault /\ \E ok \in BOOLEAN : Restart(w, ok)
    /\ UNCHANGED <<at, attempt, used, stop, files, made, dir, held, unheard>>

\* The last page has had no button for 25 s: AccountRetryNeeded.
StuckOnFinal(w) ==
    /\ at[w] = "final" /\ page[w] = "final" /\ Leave(w, "retry")
    /\ UNCHANGED <<up, used, stop, files, made, dir, held, unheard, faults>>

ReadCookie(w) ==
    /\ at[w] = "final" /\ page[w] = "in" /\ Goto(w, "tos")
    /\ UNCHANGED <<attempt, browser, used, stop, files, made, dir, held, unheard, faults>>

-----------------------------------------------------------------------------
(* The gate, the birthday and the conversation.                              *)

Ungate(w, to) == gated' = [gated EXCEPT ![w] = to] /\ UNCHANGED <<box, tries, letters, talks>>
GateStages == {"gate", "gate again", "regate"}

\* accept_tos_for_token: up to four calls; none needs to succeed.
AcceptTos(w) ==
    /\ at[w] = "tos" /\ Goto(w, "gate") /\ \E g \in {gated[w], FALSE} : Ungate(w, g)
    /\ UNCHANGED <<browser, used, stop, files, made, dir, held, unheard, faults>>

\* A click on whatever looks like consent: the site opens the gate.
ClickGate(w) ==
    /\ at[w] \in GateStages /\ gated[w] /\ Ungate(w, FALSE)
    /\ UNCHANGED <<at, browser, used, stop, files, made, dir, held, unheard, faults>>

\* browser_activate_chat_permission has seen a page that is not the gate.
PassGate(w) ==
    /\ at[w] \in GateStages /\ ~gated[w]
    /\ Goto(w, IF at[w] = "regate" THEN "rebirth" ELSE "birth")
    /\ UNCHANGED <<attempt, browser, used, stop, files, made, dir, held, unheard, faults>>

\* It has not, or was cancelled, which it reports like that: once more.
MissGate(w) ==
    /\ at[w] = "gate" /\ Goto(w, "gate again")
    /\ UNCHANGED <<attempt, browser, used, stop, files, made, dir, held, unheard, faults>>

\* External: grok.com sends the account back to the gate.
GateReturns(w) ==
    /\ at[w] \in {"birth", "surface", "prompt"} /\ ~gated[w] /\ Ungate(w, TRUE)
    /\ UNCHANGED <<at, browser, used, stop, files, made, dir, held, unheard, faults>>

\* browser_set_birth_date: the call, or the modal, whose button counts as
\* pressed even if the modal stays.
SetBirthDate(w) ==
    /\ at[w] \in {"birth", "rebirth"} /\ Goto(w, "surface") /\ Show(w, "in")
    /\ UNCHANGED <<attempt, used, stop, files, made, dir, held, unheard, faults>>
PressAgeModal(w) ==
    /\ at[w] \in {"birth", "rebirth"} /\ Goto(w, "surface") /\ \E p \in {"in", "age"} : Show(w, p)
    /\ UNCHANGED <<attempt, used, stop, files, made, dir, held, unheard, faults>>

\* The default canary presses the button of the modal again.
DismissAgeModal(w) ==
    /\ ~Server /\ at[w] \in {"surface", "prompt", "reply"} /\ page[w] = "age" /\ Show(w, "in")
    /\ UNCHANGED <<at, attempt, used, stop, files, made, dir, held, unheard, faults>>

Talk(w) == talks' = [talks EXCEPT ![w] = @ + 1] /\ UNCHANGED <<box, tries, letters, gated>>

\* browser_chat_canary: the surface of the chat is ready.
OpenChat(w) ==
    /\ at[w] = "surface" /\ ~gated[w] /\ Goto(w, "prompt")
    /\ UNCHANGED <<attempt, browser, used, stop, files, made, dir, held, unheard, faults>>

\* The gate is in the way: a server opens it again, two times.
ChatGated(w) ==
    /\ Server /\ at[w] \in {"surface", "prompt"} /\ gated[w] /\ talks[w] + 1 < Canaries
    /\ Talk(w) /\ Goto(w, "regate")
    /\ UNCHANGED <<browser, used, stop, files, made, dir, held, unheard, faults>>

\* The prompt is typed and sent.
SendPrompt(w) ==
    /\ at[w] = "prompt" /\ ~gated[w] /\ Goto(w, "reply")
    /\ UNCHANGED <<attempt, browser, used, stop, files, made, dir, held, unheard, faults>>

\* The exact answer; no answer comes from under the modal.
ReadReply(w) ==
    /\ at[w] = "reply" /\ page[w] = "in" /\ Goto(w, "account")
    /\ UNCHANGED <<attempt, browser, used, stop, files, made, dir, held, unheard, faults>>

-----------------------------------------------------------------------------
(* The credential.                                                           *)

\* enable_nsfw_for_token, whose result is not needed; save_account, which
\* swallows what goes wrong.
SaveAccount(w) ==
    /\ at[w] = "account" /\ Goto(w, "mint")
    /\ \/ acctFile' = acctFile \cup {box[w]} /\ UNCHANGED faults
       \/ Fault /\ UNCHANGED acctFile
    /\ UNCHANGED <<attempt, browser, used, stop, mailFile, made, dir, held, unheard>>

\* Device flow, or OAuth with the cookie.
Mint(w) ==
    /\ at[w] = "mint" /\ Goto(w, "place")
    /\ UNCHANGED <<attempt, browser, used, stop, files, made, dir, held, unheard, faults>>

\* The preprobe chooses the directory; what it rejects is not kept.
Place(w) ==
    /\ at[w] = "place"
    /\ \E d \in Directories :
         /\ dir' = [dir EXCEPT ![box[w]] = d]
         /\ IF d # "verified" THEN Leave(w, "failed")
            ELSE IF Server THEN Goto(w, "push") /\ UNCHANGED <<attempt, page>>
            ELSE Leave(w, "won")
    /\ UNCHANGED <<up, used, stop, files, made, held, unheard, faults>>

\* The bridge has created the account of w.
Created(w) == box[w] \notin held /\ held' = held \cup {box[w]}

\* Mutant: any answer of the bridge is a success.
PushAny(w) ==
    /\ at[w] = "push"
    /\ \/ Created(w) /\ Leave(w, "won") /\ UNCHANGED <<unheard, faults>>
       \/ Leave(w, "won") /\ UNCHANGED <<held, unheard, faults>>
    /\ UNCHANGED <<up, used, stop, files, made, dir>>

(* push_auth_file and the checks after it: action=created and probe=passed,  *)
(* a refusal or an account that Sub2API had, or no answer.                   *)
Push(w) ==
    /\ at[w] = "push"
    /\ \/ Created(w) /\ Leave(w, "won") /\ UNCHANGED <<unheard, faults>>
       \/ Leave(w, "failed") /\ UNCHANGED <<held, unheard, faults>>
       \/ Created(w) /\ Leave(w, "failed") /\ Fault /\ unheard' = unheard \cup {box[w]}
    /\ UNCHANGED <<up, used, stop, files, made, dir>>

SignupStep(w) ==
    \/ Cancelled(w) \/ GiveUp(w)
    \/ OpenSignup(w) \/ ClickEntry(w) \/ NewMailbox(w) \/ ReclickEntry(w)
    \/ SubmitEmailNative(w) \/ SubmitEmailScript(w) \/ NoteMailbox(w)
    \/ CodeFails(w) \/ ChangeMailbox(w) \/ LookOnce(w) \/ LookAgain(w) \/ Resend(w)
    \/ TypeCodeNative(w) \/ TypeCodeScript(w)
    \/ SolveChallenge(w) \/ FillProfileNative(w) \/ FillProfileScript(w)
    \/ Resubmit(w) \/ LoseBrowser(w) \/ StuckOnFinal(w) \/ ReadCookie(w)
    \/ AcceptTos(w) \/ ClickGate(w) \/ PassGate(w) \/ MissGate(w)
    \/ SetBirthDate(w) \/ PressAgeModal(w) \/ DismissAgeModal(w)
    \/ OpenChat(w) \/ ChatGated(w) \/ SendPrompt(w) \/ ReadReply(w)
    \/ SaveAccount(w) \/ Mint(w) \/ Place(w) \/ Push(w)

SiteStep(w) == Deliver(w) \/ SiteSignsIn(w) \/ GateReturns(w)

-----------------------------------------------------------------------------
(* What holds of the attempts at every step; with the parts of BrowserClient *)
(* it is inductive.                                                          *)

\* An attempt has a mailbox from NewMailbox on, and changes it while it may.
Boxless == {"open", "entry", "mailbox", "failed", "retry", "cancelled"}
HasBox(w) == at[w] \in (Stages \cup Outcomes) \ Boxless => box[w] \in Boxes
MayChange(w) == at[w] = "change" => tries[w] < MailTries

\* The stages after NoteMailbox whose page can make the account, and those
\* after SaveAccount that lead to its credential.
Noted == {"poll", "type", "profile", "final"}
Saved == {"mint", "place"}

\* Mailboxes that have or may get an account without having been written down,
\* and accounts that have or may get a credential without that.
Unnoted == {b \in Boxes \ mailFile : b \in made \/ \E w \in Workers : at[w] \in Noted /\ box[w] = b}
Unsaved == {b \in Boxes \ acctFile : dir[b] # "none" \/ \E w \in Workers : at[w] \in Saved /\ box[w] = b}
WritesLost == Cardinality(Unnoted) + Cardinality(Unsaved) <= faults
=============================================================================
