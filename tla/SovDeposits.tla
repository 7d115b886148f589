---------------------------- MODULE SovDeposits ----------------------------
(***************************************************************************)
(* Paired deposits and API-key refills of server/server.js: an invoice is  *)
(* asked of the Lightning node (LND), paid there, and credited to the SOV  *)
(* ledger or to the key when a webhook, a status poll or a simulated       *)
(* settlement says so.  The ledger and the deposits are maps in memory,    *)
(* each written to a file of its own 200 ms after its last change; a write *)
(* that fails is not tried again.  The invoices are in memory only.        *)
(***************************************************************************)
EXTENDS Integers, FiniteSets

CONSTANTS
  Deposit,     \* deposit ids
  Invoice,     \* invoice ids
  Refill,      \* what an invoice that refills an API key is for
  None,        \* no purpose, no invoice
  Demo,        \* SOV_DEPOSIT_DEMO or NODE_ENV=development
  Fallback,    \* canFallbackToSimulation
  MaxRestarts  \* bound on the restarts of the server

ASSUME PurposeAssumption == Refill \notin Deposit /\ None \notin Deposit \cup {Refill}
ASSUME InvoiceAssumption == None \notin [for : Deposit \cup {Refill}, mode : {"lnd", "simulation"},
                                         status : {"pending", "confirmed", "expired"}, done : BOOLEAN]
ASSUME SwitchAssumption == Demo \in BOOLEAN /\ Fallback \in BOOLEAN /\ MaxRestarts \in Nat

VARIABLES
  opened,        \* ids that an intent was given
  deposits,      \* deposits[d]: status of the record, in memory
  ledger,        \* ledger[d]: credits of d in its account, in memory
  depositsFile,  \* paired-deposits.json
  ledgerFile,    \* sov-ledger.json
  armed,         \* stores whose write is scheduled
  unwritten,     \* stores whose last write failed
  invoices,      \* the Map of invoices
  asked,         \* asked[i]: what POST create or refill awaits LND's invoice i for
  polled,        \* invoices whose GET status awaits LND's answer
  closing,       \* has the server been told to terminate?
  late,          \* invoices past their expiresAt
  issued, paid,  \* LND: invoices it knows, invoices paid
  refilled,      \* refilled[i]: times the key was credited for i
  restarts,      \* starts of the server after the first
  forgotten      \* deposits credited in a ledger whose record came back uncredited

vars == <<opened, deposits, ledger, depositsFile, ledgerFile, armed, unwritten, invoices, asked, polled, closing,
          late, issued, paid, refilled, restarts, forgotten>>
files   == <<depositsFile, ledgerFile, unwritten>>
books   == <<deposits, ledger, armed>>
lnd     == <<late, issued, paid>>
history == <<opened, restarts, forgotten>>

Store   == {"deposits", "ledger"}
Purpose == Deposit \cup {Refill}
Status  == {"none", "pending", "credited"}
Record  == [for : Purpose, mode : {"lnd", "simulation"},
            status : {"pending", "confirmed", "expired"}, done : BOOLEAN]

TypeOK ==
  /\ opened \subseteq Deposit
  /\ deposits \in [Deposit -> Status] /\ depositsFile \in [Deposit -> Status]
  /\ ledger \in [Deposit -> Nat] /\ ledgerFile \in [Deposit -> Nat]
  /\ armed \subseteq Store /\ unwritten \subseteq Store
  /\ invoices \in [Invoice -> Record \cup {None}]
  /\ asked \in [Invoice -> Purpose \cup {None}]
  /\ polled \subseteq Invoice
  /\ closing \in BOOLEAN
  /\ late \subseteq Invoice /\ issued \subseteq Invoice /\ paid \subseteq issued
  /\ refilled \in [Invoice -> Nat]
  /\ restarts \in 0 .. MaxRestarts
  /\ forgotten \subseteq Deposit

NoDeposits == [d \in Deposit |-> "none"]
NoCredits  == [d \in Deposit |-> 0]

Init ==
  /\ opened = {}
  /\ deposits = NoDeposits /\ depositsFile = NoDeposits
  /\ ledger = NoCredits /\ ledgerFile = NoCredits
  /\ armed = {} /\ unwritten = {}
  /\ invoices = [i \in Invoice |-> None]
  /\ asked = [i \in Invoice |-> None]
  /\ polled = {}
  /\ closing = FALSE
  /\ late = {} /\ issued = {} /\ paid = {}
  /\ refilled = [i \in Invoice |-> 0]
  /\ restarts = 0 /\ forgotten = {}

Live == {i \in Invoice : invoices[i] # None}
Simulated(i) == invoices[i].mode = "simulation" \/ Demo
\* An id that no invoice had yet.
Fresh(i) == invoices[i] = None /\ asked[i] = None /\ i \notin issued \cup late

-----------------------------------------------------------------------------
(* pairedDeposit.js                                                        *)

\* A settlement credited whatever the record says.
SettleAgain(d) ==
  /\ deposits' = [deposits EXCEPT ![d] = "credited"]
  /\ ledger' = [ledger EXCEPT ![d] = @ + 1]
  /\ armed' = armed \cup {"deposits", "ledger"}

\* The record is not updated with the ledger.
SettleUnrecorded(d) ==
  /\ ledger' = [ledger EXCEPT ![d] = IF deposits[d] = "pending" THEN @ + 1 ELSE @]
  /\ armed' = armed \cup {"ledger"}
  /\ UNCHANGED deposits

\* Only the ledger is saved.
SettleUnsaved(d) ==
  /\ deposits' = [deposits EXCEPT ![d] = "credited"]
  /\ ledger' = [ledger EXCEPT ![d] = IF deposits[d] = "pending" THEN @ + 1 ELSE @]
  /\ armed' = armed \cup {"ledger"}

\* settlePairedDeposit: at most once per record.
SettleDeposit(d) ==
  IF deposits[d] = "pending"
  THEN /\ deposits' = [deposits EXCEPT ![d] = "credited"]
       /\ ledger' = [ledger EXCEPT ![d] = @ + 1]
       /\ armed' = armed \cup {"deposits", "ledger"}
  ELSE UNCHANGED books

\* createPairedDepositIntent; a simulated one is settled at once.
Intent(d, simulated) ==
  /\ ~closing /\ d \notin opened /\ (simulated => Demo)
  /\ opened' = opened \cup {d}
  /\ deposits' = [deposits EXCEPT ![d] = IF simulated THEN "credited" ELSE "pending"]
  /\ ledger' = [ledger EXCEPT ![d] = IF simulated THEN @ + 1 ELSE @]
  /\ armed' = armed \cup {"deposits"} \cup (IF simulated THEN {"ledger"} ELSE {})
  /\ UNCHANGED <<files, invoices, asked, polled, closing, lnd, refilled, restarts, forgotten>>

\* simulateSettleDeposit
ConfirmSim(d) ==
  /\ ~closing /\ Demo /\ deposits[d] = "pending"
  /\ SettleDeposit(d)
  /\ UNCHANGED <<files, invoices, asked, polled, closing, lnd, refilled, history>>

\* linkInvoiceToDeposit fails, unnoticed, when the deposit is not pending.
Link(purpose) ==
  /\ armed' = IF purpose \in Deposit /\ deposits[purpose] = "pending"
              THEN armed \cup {"deposits"} ELSE armed
  /\ UNCHANGED <<deposits, ledger>>

-----------------------------------------------------------------------------
(* server.js: creating an invoice.                                         *)

\* POST create checks the deposit, POST refill the key, and LND is asked.
AskInvoice(i, purpose) ==
  /\ ~closing /\ Fresh(i)
  /\ (purpose \in Deposit => deposits[purpose] = "pending")
  /\ asked' = [asked EXCEPT ![i] = purpose]
  /\ UNCHANGED <<books, files, invoices, polled, closing, lnd, refilled, history>>

\* The invoice is stored when LND has answered.
StoreInvoice(i, mode) ==
  /\ asked[i] # None
  /\ invoices' = [invoices EXCEPT ![i] =
       [for |-> asked[i], mode |-> mode, status |-> "pending", done |-> FALSE]]
  /\ asked' = [asked EXCEPT ![i] = None]
  /\ issued' = IF mode = "lnd" THEN issued \cup {i} ELSE issued
  /\ Link(asked[i])
  /\ UNCHANGED <<files, polled, closing, late, paid, refilled, history>>

LndIssues(i) == StoreInvoice(i, "lnd")

\* LND fails or times out: a deposit's invoice may fall back to a simulated one.
LndFails(i) ==
  IF Fallback /\ asked[i] \in Deposit
  THEN StoreInvoice(i, "simulation")
  ELSE /\ asked[i] # None
       /\ asked' = [asked EXCEPT ![i] = None]
       /\ UNCHANGED <<books, files, invoices, polled, closing, lnd, refilled, history>>

-----------------------------------------------------------------------------
(* server.js: confirming an invoice.                                       *)

\* An invoice past its time is confirmed and not settled.
SettleInTime(i, status) ==
  /\ invoices' = [invoices EXCEPT ![i].status = status, ![i].done = TRUE]
  /\ IF i \in late THEN UNCHANGED books ELSE SettleDeposit(invoices[i].for)
  /\ UNCHANGED refilled

\* settlePairedDepositFromInvoice, of an invoice now confirmed: done is its
\* pairedCredited.
SettleFromInvoice(i, status) ==
  LET inv == invoices[i] IN
  /\ invoices' = [invoices EXCEPT ![i].status = status, ![i].done = TRUE]
  /\ IF inv.done THEN UNCHANGED books ELSE SettleDeposit(inv.for)
  /\ UNCHANGED refilled

\* A key is credited, and saved, once per invoice: done is its credited.
CreditKey(i, status) ==
  /\ invoices' = [invoices EXCEPT ![i].status = status, ![i].done = TRUE]
  /\ refilled' = [refilled EXCEPT ![i] = IF invoices[i].done THEN @ ELSE @ + 1]
  /\ UNCHANGED books

\* The key credited on every confirmation.
ConfirmedAlways(i) ==
  IF invoices[i].for = Refill
  THEN /\ invoices' = [invoices EXCEPT ![i].status = "confirmed"]
       /\ refilled' = [refilled EXCEPT ![i] = @ + 1]
       /\ UNCHANGED books
  ELSE SettleFromInvoice(i, "confirmed")

Confirmed(i) ==
  IF invoices[i].for = Refill THEN CreditKey(i, "confirmed") ELSE SettleFromInvoice(i, "confirmed")

\* The processor's own word for the status is stored.
WebhookRaw(i) ==
  /\ ~closing /\ i \in Live \cap issued
  /\ invoices' = [invoices EXCEPT ![i].status = IF i \in paid THEN "settled" ELSE "canceled"]
  /\ UNCHANGED <<books, files, asked, polled, closing, lnd, refilled, history>>

\* The webhook of a payment processor, possibly repeated or late, for an
\* invoice paid or given up.
Webhook(i) ==
  /\ ~closing /\ i \in Live \cap issued
  /\ \/ i \in paid /\ Confirmed(i)
     \/ /\ i \in late \ paid
        /\ invoices' = [invoices EXCEPT ![i].status = "expired"]
        /\ UNCHANGED <<books, refilled>>
  /\ UNCHANGED <<files, asked, polled, closing, lnd, history>>

\* GET status: an invoice past its time becomes expired, even a confirmed one.
StatusBegin(i) ==
  /\ ~closing /\ i \in Live /\ i \notin polled
  /\ invoices' = [invoices EXCEPT ![i].status = IF i \in late THEN "expired" ELSE @]
  /\ polled' = polled \cup {i}
  /\ UNCHANGED <<books, files, asked, closing, lnd, refilled, history>>

\* LND's answer, or a failure to answer.
StatusEnd(i) ==
  /\ i \in polled /\ polled' = polled \ {i}
  /\ \/ i \in paid /\ Confirmed(i)
     \/ IF invoices[i].status = "confirmed" /\ invoices[i].for # Refill
        THEN SettleFromInvoice(i, "confirmed")
        ELSE UNCHANGED <<invoices, books, refilled>>
  /\ UNCHANGED <<files, asked, closing, lnd, history>>

\* POST simulate-settle does not credit keys.
SimulateSettle(i) ==
  /\ ~closing /\ i \in Live /\ Simulated(i)
  /\ IF invoices[i].for = Refill
     THEN invoices' = [invoices EXCEPT ![i].status = "confirmed"] /\ UNCHANGED <<books, refilled>>
     ELSE SettleFromInvoice(i, "confirmed")
  /\ UNCHANGED <<files, asked, polled, closing, lnd, history>>

-----------------------------------------------------------------------------
(* LND, time, files and restarts.                                          *)

Pay(i) ==
  /\ i \in issued \ (paid \cup late)
  /\ paid' = paid \cup {i}
  /\ UNCHANGED <<books, files, invoices, asked, polled, closing, late, issued, refilled, history>>

PassTime(i) ==
  /\ i \in (Live \cup issued) \ late
  /\ late' = late \cup {i}
  /\ UNCHANGED <<books, files, invoices, asked, polled, closing, issued, paid, refilled, history>>

\* persistSync, its timer cleared.  An error is swallowed and the file left as
\* it was or truncated, which reads as no entries.
Write(store) ==
  /\ armed' = armed \ {store}
  /\ \/ /\ depositsFile' = IF store = "deposits" THEN deposits ELSE depositsFile
        /\ ledgerFile' = IF store = "ledger" THEN ledger ELSE ledgerFile
        /\ unwritten' = unwritten \ {store}
     \/ /\ depositsFile' \in {depositsFile} \cup IF store = "deposits" THEN {NoDeposits} ELSE {}
        /\ ledgerFile' \in {ledgerFile} \cup IF store = "ledger" THEN {NoCredits} ELSE {}
        /\ unwritten' = unwritten \cup {store}

\* The timer of a store.
Persist(store) ==
  /\ store \in armed /\ Write(store)
  /\ UNCHANGED <<deposits, ledger, invoices, asked, polled, closing, lnd, refilled, history>>

\* SIGTERM flushes the registered stores, of which the deposits are none, and
\* closes the server: requests under way go on, new ones are refused.
Terminate ==
  /\ ~closing /\ restarts < MaxRestarts
  /\ closing' = TRUE
  /\ Write("ledger")
  /\ UNCHANGED <<deposits, ledger, invoices, asked, polled, lnd, refilled, history>>

\* The server starts on what the files hold; a file that cannot be parsed is
\* no entries.
Restart(torn) ==
  LET dep == IF "deposits" \in torn THEN NoDeposits ELSE depositsFile
      led == IF "ledger" \in torn THEN NoCredits ELSE ledgerFile
  IN
  /\ restarts < MaxRestarts /\ restarts' = restarts + 1
  /\ deposits' = dep /\ depositsFile' = dep
  /\ ledger' = led /\ ledgerFile' = led
  /\ forgotten' = forgotten \cup {d \in Deposit : led[d] > 0 /\ dep[d] # "credited"}
  /\ armed' = {} /\ unwritten' = {} /\ closing' = FALSE /\ polled' = {}
  /\ invoices' = [i \in Invoice |-> None]
  /\ asked' = [i \in Invoice |-> None]
  /\ UNCHANGED <<opened, lnd, refilled>>

\* The server exits once the last request has ended ...
Exit ==
  /\ closing /\ polled = {} /\ \A i \in Invoice : asked[i] = None
  /\ Restart({})

\* ... or is killed, perhaps while it writes a file.
Kill == \E torn \in SUBSET armed : Restart(torn)

Next ==
  \/ \E d \in Deposit : ConfirmSim(d) \/ \E simulated \in BOOLEAN : Intent(d, simulated)
  \/ \E i \in Invoice, p \in Purpose : AskInvoice(i, p)
  \/ \E i \in Invoice :
       \/ LndIssues(i) \/ LndFails(i) \/ Pay(i) \/ PassTime(i)
       \/ Webhook(i) \/ StatusBegin(i) \/ StatusEnd(i) \/ SimulateSettle(i)
  \/ \E store \in Store : Persist(store)
  \/ Terminate \/ Exit \/ Kill

Spec == Init /\ [][Next]_vars

-----------------------------------------------------------------------------
(* Properties.                                                             *)

\* "idempotente ao liquidar duas vezes" (clienteLane.test.js), through the
\* invoices, polls and webhooks that may race for one deposit: it is credited
\* again only when a restart lost its settlement and kept its credit.
CreditedOnce == \A d \in Deposit : ledger[d] > 1 => d \in forgotten

\* A ledger entry without its settlement exists for the same reason only.
CreditsSettled == \A d \in Deposit : ledger[d] > 0 => deposits[d] = "credited" \/ d \in forgotten

\* FR-001 (specs/007): what the server reports as a confirmed invoice of a
\* deposit has been credited, whichever of webhook, poll or simulation
\* confirmed it.
ConfirmedCredited ==
  \A i \in Live :
    invoices[i].status = "confirmed" /\ invoices[i].for \in Deposit =>
      deposits[invoices[i].for] = "credited"

\* A paid refill is credited to its key once, though webhooks repeat and race
\* with polls, and though neither its invoice nor its flag survives a restart.
RefilledOnce == \A i \in Invoice : refilled[i] <= 1 /\ (refilled[i] = 1 => i \in paid)

\* A store with no write to come is what a restart will read back, unless its
\* last write failed: it then stays unwritten until it changes again, since
\* the timer is gone and the error swallowed (economyPersistence.js).
FilesCurrent ==
  /\ "deposits" \notin armed \cup unwritten => depositsFile = deposits
  /\ "ledger" \notin armed \cup unwritten => ledgerFile = ledger
=============================================================================
