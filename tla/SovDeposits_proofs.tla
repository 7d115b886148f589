------------------------- MODULE SovDeposits_proofs -------------------------
(* Theorems about SovDeposits, for any deposits and invoices and any number *)
(* of restarts.                                                            *)
EXTENDS SovDeposits, TLAPS

\* What was credited, or has a record, was opened.
OnlyOpened ==
  \A d \in Deposit :
    (ledger[d] > 0 \/ ledgerFile[d] > 0 \/ deposits[d] # "none" \/ depositsFile[d] # "none")
      => d \in opened

\* The file of the ledger says no more than a ledger may.
FileOnce == \A d \in Deposit : ledgerFile[d] > 1 => d \in forgotten

BooksInv == OnlyOpened /\ FileOnce /\ CreditsSettled /\ CreditedOnce /\ FilesCurrent

\* LND is asked for ids it does not know, for deposits that exist.
AskedNew ==
  \A i \in Invoice : asked[i] # None =>
    i \notin issued /\ (asked[i] \in Deposit => deposits[asked[i]] # "none")

\* An invoice's flags tell what became of its deposit or its key.
InvoiceTrue ==
  \A i \in Live :
    /\ invoices[i].for \in Deposit => deposits[invoices[i].for] # "none"
    /\ (invoices[i].for \in Deposit /\ (invoices[i].done \/ invoices[i].status = "confirmed"))
         => deposits[invoices[i].for] = "credited"
    /\ refilled[i] > 0 => invoices[i].done

\* LND is polled for invoices that exist.
PolledLive == polled \subseteq Live

IInv == TypeOK /\ BooksInv /\ AskedNew /\ InvoiceTrue /\ RefilledOnce /\ PolledLive

-----------------------------------------------------------------------------
(* Settling a deposit.                                                     *)

BookTypes ==
  /\ deposits' \in [Deposit -> Status] /\ ledger' \in [Deposit -> Nat]
  /\ armed' \subseteq Store

\* Records are kept, and a settled one stays settled.
NoneForgotten ==
  \A d \in Deposit : /\ deposits[d] # "none" => deposits'[d] # "none"
                     /\ deposits[d] = "credited" => deposits'[d] = "credited"

\* A settlement keeps the books in order, and a deposit on record ends credited.
LEMMA Settled ==
  ASSUME TypeOK, BooksInv, NEW d \in Deposit, SettleDeposit(d),
         UNCHANGED <<files, opened, forgotten>>
  PROVE  /\ BookTypes /\ NoneForgotten /\ BooksInv'
         /\ deposits[d] # "none" => deposits'[d] = "credited"
<1>1. CASE deposits[d] = "pending"
  <2>1. /\ deposits' = [deposits EXCEPT ![d] = "credited"]
        /\ ledger' = [ledger EXCEPT ![d] = @ + 1]
        /\ armed' = armed \cup {"deposits", "ledger"}
    BY <1>1 DEF SettleDeposit
  <2>2. BookTypes /\ NoneForgotten
    BY <1>1, <2>1 DEF TypeOK, Status, Store, BookTypes, NoneForgotten
  <2>3. OnlyOpened' /\ FileOnce'
    BY <1>1, <2>1 DEF BooksInv, OnlyOpened, FileOnce, TypeOK, Status, files
  <2>4. CreditsSettled' /\ CreditedOnce'
    BY <1>1, <2>1 DEF BooksInv, CreditsSettled, CreditedOnce, TypeOK, Status
  <2>5. FilesCurrent'
    BY <2>1 DEF FilesCurrent, TypeOK
  <2> QED BY <2>1, <2>2, <2>3, <2>4, <2>5 DEF BooksInv, TypeOK
<1>2. CASE deposits[d] # "pending"
  <2>1. UNCHANGED <<deposits, ledger, armed>>
    BY <1>2 DEF SettleDeposit, books
  <2>2. BooksInv'
    BY <2>1 DEF BooksInv, OnlyOpened, FileOnce, CreditsSettled, CreditedOnce, FilesCurrent, files
  <2> QED BY <1>2, <2>1, <2>2 DEF TypeOK, Status, BookTypes, NoneForgotten
<1> QED BY <1>1, <1>2

\* Books and invoices that are not touched stay as they were.
LEMMA BooksKept ==
  ASSUME TypeOK, BooksInv, UNCHANGED <<books, files, opened, forgotten>>
  PROVE  BooksInv' /\ BookTypes /\ NoneForgotten
  BY DEF books, files, BooksInv, OnlyOpened, FileOnce, CreditsSettled, CreditedOnce,
         FilesCurrent, TypeOK, BookTypes, NoneForgotten

LEMMA LiveRecord ==
  ASSUME TypeOK
  PROVE  \A i \in Live : i \in Invoice /\ invoices[i] \in Record
  BY DEF TypeOK, Live

\* Records are not None.
LEMMA NoneIsNoRecord == None \notin Record
  BY InvoiceAssumption DEF Record, Purpose

\* Setting the status, and the flag, of an invoice that exists.
Marked(i, s, done) == [invoices EXCEPT ![i].status = s, ![i].done = done]

LEMMA InvoiceSet ==
  ASSUME TypeOK, NEW i \in Live, NEW s \in {"pending", "confirmed", "expired"},
         NEW done \in BOOLEAN
  PROVE  LET new == Marked(i, s, done) IN
         /\ new \in [Invoice -> Record \cup {None}]
         /\ new[i] \in Record /\ new[i].for = invoices[i].for
         /\ new[i].status = s /\ new[i].done = done
         /\ \A j \in Invoice : j # i => new[j] = invoices[j]
<1> DEFINE new == Marked(i, s, done)
<1>1. i \in Invoice /\ invoices[i] \in Record /\ invoices \in [Invoice -> Record \cup {None}]
  BY LiveRecord DEF TypeOK
<1>2. new[i] = [invoices[i] EXCEPT !.status = s, !.done = done]
  BY <1>1 DEF Marked
<1>3. new[i] \in Record /\ new[i].for = invoices[i].for /\ new[i].status = s /\ new[i].done = done
  BY <1>1, <1>2 DEF Record
<1>4. \A j \in Invoice : j # i => new[j] = invoices[j]
  BY <1>1 DEF Marked
<1>5. new \in [Invoice -> Record \cup {None}]
  BY <1>1, <1>3, <1>4 DEF Marked
<1> QED BY <1>3, <1>4, <1>5

\* Setting the status only.
Restated(i, s) == [invoices EXCEPT ![i].status = s]

LEMMA StatusSet ==
  ASSUME TypeOK, NEW i \in Live, NEW s \in {"pending", "confirmed", "expired"}
  PROVE  LET new == Restated(i, s) IN
         /\ new \in [Invoice -> Record \cup {None}]
         /\ new[i] \in Record /\ new[i].for = invoices[i].for
         /\ new[i].status = s /\ new[i].done = invoices[i].done
         /\ \A j \in Invoice : j # i => new[j] = invoices[j]
<1> DEFINE new == Restated(i, s)
<1>1. i \in Invoice /\ invoices[i] \in Record /\ invoices \in [Invoice -> Record \cup {None}]
  BY LiveRecord DEF TypeOK
<1>2. new[i] = [invoices[i] EXCEPT !.status = s]
  BY <1>1 DEF Restated
<1>3. new[i] \in Record /\ new[i].for = invoices[i].for /\ new[i].status = s
      /\ new[i].done = invoices[i].done
  BY <1>1, <1>2 DEF Record
<1>4. \A j \in Invoice : j # i => new[j] = invoices[j]
  BY <1>1 DEF Restated
<1>5. new \in [Invoice -> Record \cup {None}]
  BY <1>1, <1>3, <1>4 DEF Restated
<1> QED BY <1>3, <1>4, <1>5

-----------------------------------------------------------------------------
(* The invoices after a change of one of them.                             *)

\* Invoice i has new flags that tell the truth about the new books.
Truthful(i) ==
  /\ invoices' \in [Invoice -> Record \cup {None}]
  /\ invoices'[i] \in Record /\ invoices'[i].for = invoices[i].for
  /\ \A j \in Invoice : j # i => invoices'[j] = invoices[j]
  /\ (invoices'[i].for \in Deposit /\ (invoices'[i].done \/ invoices'[i].status = "confirmed"))
       => deposits'[invoices'[i].for] = "credited"
  /\ refilled' \in [Invoice -> Nat]
  /\ refilled'[i] > 0 => invoices'[i].done
  /\ \A j \in Invoice : j # i => refilled'[j] = refilled[j]

LEMMA StaysTrue ==
  ASSUME IInv, NoneForgotten, NEW i \in Live, Truthful(i)
  PROVE  InvoiceTrue'
<1> SUFFICES ASSUME NEW j \in Live' PROVE
      /\ invoices'[j].for \in Deposit => deposits'[invoices'[j].for] # "none"
      /\ (invoices'[j].for \in Deposit /\ (invoices'[j].done \/ invoices'[j].status = "confirmed"))
           => deposits'[invoices'[j].for] = "credited"
      /\ refilled'[j] > 0 => invoices'[j].done
  BY DEF InvoiceTrue
<1>1. i \in Invoice /\ j \in Invoice /\ j \in Live
  BY LiveRecord DEF IInv, Live, Truthful
<1>2. CASE j = i
  BY <1>1, <1>2 DEF IInv, InvoiceTrue, NoneForgotten, Truthful
<1>3. CASE j # i
  BY <1>1, <1>3 DEF IInv, InvoiceTrue, NoneForgotten, Truthful
<1> QED BY <1>2, <1>3

\* All invoices kept, the books changed.
LEMMA KeptTrue ==
  ASSUME IInv, NoneForgotten, UNCHANGED <<invoices, refilled>>
  PROVE  InvoiceTrue'
<1> SUFFICES ASSUME NEW j \in Live PROVE
      /\ invoices[j].for \in Deposit => deposits'[invoices[j].for] # "none"
      /\ (invoices[j].for \in Deposit /\ (invoices[j].done \/ invoices[j].status = "confirmed"))
           => deposits'[invoices[j].for] = "credited"
      /\ refilled[j] > 0 => invoices[j].done
  BY DEF InvoiceTrue, Live
<1> QED BY DEF IInv, InvoiceTrue, NoneForgotten

\* The records of the deposits LND is asked for stay.
LEMMA AskedKept ==
  ASSUME AskedNew, NoneForgotten, UNCHANGED <<asked, issued>>
  PROVE  AskedNew'
  BY DEF AskedNew, NoneForgotten

\* settlePairedDepositFromInvoice.
LEMMA FromInvoice ==
  ASSUME IInv, NEW i \in Live, invoices[i].for # Refill,
         SettleFromInvoice(i, "confirmed"), UNCHANGED <<files, opened, forgotten>>
  PROVE  BookTypes /\ NoneForgotten /\ BooksInv' /\ Truthful(i) /\ UNCHANGED refilled
<1>1. TypeOK /\ BooksInv /\ i \in Invoice /\ invoices[i] \in Record /\ invoices[i].for \in Deposit
  BY LiveRecord DEF IInv, Record, Purpose
<1>2. /\ invoices' \in [Invoice -> Record \cup {None}]
      /\ invoices'[i] \in Record /\ invoices'[i].for = invoices[i].for
      /\ invoices'[i].status = "confirmed" /\ invoices'[i].done = TRUE
      /\ \A j \in Invoice : j # i => invoices'[j] = invoices[j]
  <2>1. invoices' = Marked(i, "confirmed", TRUE)
    BY DEF SettleFromInvoice, Marked
  <2>2. TRUE \in BOOLEAN /\ "confirmed" \in {"pending", "confirmed", "expired"}
    OBVIOUS
  <2> QED BY ONLY <1>1, <2>1, <2>2, InvoiceSet, i \in Live
<1>3. deposits[invoices[i].for] # "none"
  BY <1>1 DEF IInv, InvoiceTrue
<1>4. CASE invoices[i].done
  <2>1. UNCHANGED books
    BY <1>4 DEF SettleFromInvoice
  <2>2. BookTypes /\ NoneForgotten /\ BooksInv'
    BY <1>1, <2>1, BooksKept
  <2>3. deposits'[invoices[i].for] = "credited"
    BY <1>1, <1>4, <2>1 DEF IInv, InvoiceTrue, books
  <2> QED BY <1>1, <1>2, <2>2, <2>3 DEF Truthful, SettleFromInvoice, IInv, TypeOK
<1>5. CASE ~invoices[i].done
  <2>1. SettleDeposit(invoices[i].for)
    BY <1>5 DEF SettleFromInvoice
  <2>2. BookTypes /\ NoneForgotten /\ BooksInv' /\ deposits'[invoices[i].for] = "credited"
    BY <1>1, <1>3, <2>1, Settled
  <2> QED BY <1>1, <1>2, <2>2 DEF Truthful, SettleFromInvoice, IInv, TypeOK
<1> QED BY <1>4, <1>5

\* The confirmation of a paid invoice.
LEMMA PaidConfirmed ==
  ASSUME IInv, NEW i \in Live, i \in paid, Confirmed(i),
         UNCHANGED <<files, opened, forgotten, paid>>
  PROVE  BookTypes /\ NoneForgotten /\ BooksInv' /\ Truthful(i) /\ RefilledOnce'
<1>1. TypeOK /\ BooksInv /\ i \in Invoice /\ invoices[i] \in Record
  BY LiveRecord DEF IInv
<1>2. CASE invoices[i].for # Refill
  <2>1. SettleFromInvoice(i, "confirmed")
    BY <1>2 DEF Confirmed
  <2>2. BookTypes /\ NoneForgotten /\ BooksInv' /\ Truthful(i) /\ UNCHANGED refilled
    BY <1>2, <2>1, FromInvoice
  <2> QED BY <2>2 DEF IInv, RefilledOnce
<1>3. CASE invoices[i].for = Refill
  <2>1. CreditKey(i, "confirmed")
    BY <1>3 DEF Confirmed
  <2>2. BookTypes /\ NoneForgotten /\ BooksInv'
    BY <1>1, <2>1, BooksKept DEF CreditKey
  <2>3. /\ invoices' \in [Invoice -> Record \cup {None}]
        /\ invoices'[i] \in Record /\ invoices'[i].for = invoices[i].for
        /\ invoices'[i].done = TRUE
        /\ \A j \in Invoice : j # i => invoices'[j] = invoices[j]
    <3>1. invoices' = Marked(i, "confirmed", TRUE)
      BY <2>1 DEF CreditKey, Marked
    <3>2. TRUE \in BOOLEAN /\ "confirmed" \in {"pending", "confirmed", "expired"}
      OBVIOUS
    <3> QED BY ONLY <1>1, <3>1, <3>2, InvoiceSet, i \in Live
  <2>4. refilled' \in [Invoice -> Nat] /\ \A j \in Invoice : j # i => refilled'[j] = refilled[j]
    BY <1>1, <2>1 DEF CreditKey, TypeOK
  <2>5. refilled'[i] <= 1
    BY <1>1, <2>1 DEF CreditKey, IInv, InvoiceTrue, RefilledOnce, TypeOK
  <2>6. RefilledOnce'
    BY <1>1, <2>4, <2>5 DEF IInv, RefilledOnce
  <2>7. Truthful(i)
    BY <1>3, <2>3, <2>4, PurposeAssumption DEF Truthful
  <2> QED BY <2>2, <2>6, <2>7
<1> QED BY <1>2, <1>3

-----------------------------------------------------------------------------
(* One lemma per handler.                                                  *)

LEMMA InitInv == Init => IInv
<1> SUFFICES ASSUME Init PROVE IInv
  OBVIOUS
<1>1. TypeOK
  <2>1. restarts \in 0 .. MaxRestarts
    BY SwitchAssumption DEF Init
  <2>2. closing \in BOOLEAN
    BY DEF Init
  <2> QED BY <2>1, <2>2 DEF Init, TypeOK, Status, NoDeposits, NoCredits
<1>2. BooksInv
  BY DEF Init, BooksInv, OnlyOpened, FileOnce, CreditsSettled, CreditedOnce, FilesCurrent,
         NoDeposits, NoCredits
<1>3. AskedNew /\ InvoiceTrue /\ RefilledOnce /\ PolledLive
  BY DEF Init, AskedNew, InvoiceTrue, Live, RefilledOnce, PolledLive
<1> QED BY <1>1, <1>2, <1>3 DEF IInv

LEMMA IntentInv ==
  ASSUME IInv, NEW d \in Deposit, NEW simulated \in BOOLEAN, Intent(d, simulated)
  PROVE  IInv'
<1>1. TypeOK /\ BooksInv /\ deposits[d] = "none" /\ ledger[d] = 0 /\ ledgerFile[d] = 0
  BY DEF Intent, IInv, BooksInv, OnlyOpened, TypeOK
<1>2. BookTypes /\ NoneForgotten
  BY <1>1 DEF Intent, TypeOK, Status, Store, BookTypes, NoneForgotten
<1>3. OnlyOpened' /\ FileOnce'
  BY <1>1 DEF Intent, BooksInv, OnlyOpened, FileOnce, TypeOK, files
<1>4. CreditsSettled' /\ CreditedOnce'
  <2>1. CASE simulated
    BY <1>1, <2>1 DEF Intent, BooksInv, CreditsSettled, CreditedOnce, TypeOK
  <2>2. CASE ~simulated
    BY <1>1, <2>2 DEF Intent, BooksInv, CreditsSettled, CreditedOnce, TypeOK
  <2> QED BY <2>1, <2>2
<1>5. FilesCurrent'
  <2>1. CASE simulated
    BY <1>1, <2>1 DEF Intent, BooksInv, FilesCurrent, files
  <2>2. CASE ~simulated
    <3>1. ledger' = ledger
      BY <1>1, <2>2 DEF Intent, TypeOK
    <3> QED BY <1>1, <2>2, <3>1 DEF Intent, BooksInv, FilesCurrent, files
  <2> QED BY <2>1, <2>2
<1>6. TypeOK'
  BY <1>1, <1>2 DEF Intent, TypeOK, BookTypes, files, lnd
<1>7. InvoiceTrue' /\ AskedNew' /\ RefilledOnce' /\ PolledLive'
  BY <1>2, KeptTrue, AskedKept DEF Intent, IInv, lnd, RefilledOnce, PolledLive, Live
<1> QED BY <1>3, <1>4, <1>5, <1>6, <1>7 DEF IInv, BooksInv

LEMMA ConfirmSimInv ==
  ASSUME IInv, NEW d \in Deposit, ConfirmSim(d)
  PROVE  IInv'
<1>1. BookTypes /\ NoneForgotten /\ BooksInv'
  BY Settled DEF ConfirmSim, IInv, history
<1>2. TypeOK'
  BY <1>1 DEF ConfirmSim, IInv, TypeOK, BookTypes, files, lnd, history
<1>3. InvoiceTrue' /\ AskedNew' /\ RefilledOnce' /\ PolledLive'
  BY <1>1, KeptTrue, AskedKept DEF ConfirmSim, IInv, lnd, RefilledOnce, PolledLive, Live
<1> QED BY <1>1, <1>2, <1>3 DEF IInv

LEMMA AskInv ==
  ASSUME IInv, NEW i \in Invoice, NEW p \in Purpose, AskInvoice(i, p)
  PROVE  IInv'
<1>1. BookTypes /\ NoneForgotten /\ BooksInv'
  BY BooksKept DEF AskInvoice, IInv, history
<1>2. TypeOK'
  BY DEF AskInvoice, IInv, TypeOK, books, files, lnd, history
<1>3. InvoiceTrue' /\ RefilledOnce' /\ PolledLive'
  BY <1>1, KeptTrue DEF AskInvoice, IInv, lnd, RefilledOnce, PolledLive, Live
<1>4. AskedNew'
  BY DEF AskInvoice, Fresh, IInv, TypeOK, AskedNew, books, lnd
<1> QED BY <1>1, <1>2, <1>3, <1>4 DEF IInv

LEMMA StoreInv ==
  ASSUME IInv, NEW i \in Invoice, NEW mode \in {"lnd", "simulation"}, StoreInvoice(i, mode)
  PROVE  IInv'
<1> DEFINE new == [for |-> asked[i], mode |-> mode, status |-> "pending", done |-> FALSE]
<1>1. TypeOK /\ asked[i] \in Purpose /\ i \notin issued
      /\ (asked[i] \in Deposit => deposits[asked[i]] # "none")
  BY DEF StoreInvoice, IInv, TypeOK, AskedNew
<1>2. new \in Record
  BY <1>1 DEF Record
<1>3. UNCHANGED <<deposits, ledger, files, opened, forgotten>>
      /\ armed \subseteq armed' /\ armed' \subseteq armed \cup {"deposits"}
  BY DEF StoreInvoice, Link, history
<1>4. BooksInv'
  BY <1>3 DEF IInv, BooksInv, OnlyOpened, FileOnce, CreditsSettled, CreditedOnce,
              FilesCurrent, files
<1>5. invoices' = [invoices EXCEPT ![i] = new] /\ asked' = [asked EXCEPT ![i] = None]
  BY DEF StoreInvoice
<1>6. TypeOK'
  BY <1>1, <1>2, <1>3, <1>5 DEF StoreInvoice, TypeOK, Store, files, history
<1>7. refilled' = refilled /\ paid' = paid /\ refilled[i] = 0
  BY <1>1 DEF StoreInvoice, IInv, RefilledOnce, TypeOK
<1>8. InvoiceTrue'
  <2> SUFFICES ASSUME NEW j \in Live' PROVE
        /\ invoices'[j].for \in Deposit => deposits'[invoices'[j].for] # "none"
        /\ (invoices'[j].for \in Deposit /\ (invoices'[j].done \/ invoices'[j].status = "confirmed"))
             => deposits'[invoices'[j].for] = "credited"
        /\ refilled'[j] > 0 => invoices'[j].done
    BY DEF InvoiceTrue
  <2>1. CASE j = i
    BY <1>1, <1>3, <1>5, <1>7, <2>1 DEF TypeOK
  <2>2. CASE j # i
    <3>1. j \in Live /\ invoices'[j] = invoices[j]
      BY <1>5, <2>2 DEF Live
    <3> QED BY <1>3, <1>7, <3>1 DEF IInv, InvoiceTrue
  <2> QED BY <2>1, <2>2
<1>9. AskedNew'
  BY <1>1, <1>3, <1>5 DEF StoreInvoice, IInv, AskedNew, TypeOK
<1>10. RefilledOnce'
  BY <1>7 DEF IInv, RefilledOnce
<1>11. PolledLive'
  BY <1>1, <1>2, <1>5, NoneIsNoRecord DEF StoreInvoice, IInv, PolledLive, Live, TypeOK
<1> QED BY <1>4, <1>6, <1>8, <1>9, <1>10, <1>11 DEF IInv

LEMMA LndInv ==
  ASSUME IInv, NEW i \in Invoice, LndIssues(i) \/ LndFails(i)
  PROVE  IInv'
<1>1. CASE LndIssues(i) \/ StoreInvoice(i, "simulation")
  BY <1>1, StoreInv DEF LndIssues
<1>2. CASE LndFails(i) /\ ~StoreInvoice(i, "simulation")
  <2>1. /\ asked' = [asked EXCEPT ![i] = None]
        /\ UNCHANGED <<books, files, invoices, polled, closing, lnd, refilled, history>>
    BY <1>2 DEF LndFails
  <2>2. BookTypes /\ NoneForgotten /\ BooksInv'
    BY <2>1, BooksKept DEF IInv, history
  <2>3. TypeOK'
    BY <2>1 DEF IInv, TypeOK, books, files, lnd, history
  <2>4. InvoiceTrue' /\ RefilledOnce' /\ PolledLive'
    BY <2>1, <2>2, KeptTrue DEF IInv, lnd, RefilledOnce, PolledLive, Live
  <2>5. AskedNew'
    BY <2>1 DEF IInv, TypeOK, AskedNew, books, lnd
  <2> QED BY <2>2, <2>3, <2>4, <2>5 DEF IInv
<1> QED BY <1>1, <1>2 DEF LndFails

\* Payments and time.
LEMMA OutsideInv ==
  ASSUME IInv, NEW i \in Invoice, Pay(i) \/ PassTime(i)
  PROVE  IInv'
<1>1. UNCHANGED <<books, files, invoices, asked, polled, closing, issued, refilled, history>>
      /\ paid \subseteq paid' /\ paid' \subseteq issued' /\ late' \subseteq Invoice
  BY DEF Pay, PassTime, IInv, TypeOK
<1>2. BookTypes /\ NoneForgotten /\ BooksInv'
  BY <1>1, BooksKept DEF IInv, history
<1>3. TypeOK'
  BY <1>1 DEF IInv, TypeOK, books, files, history
<1>4. InvoiceTrue' /\ AskedNew' /\ RefilledOnce' /\ PolledLive'
  BY <1>1, <1>2, KeptTrue, AskedKept DEF IInv, RefilledOnce, PolledLive, Live
<1> QED BY <1>2, <1>3, <1>4 DEF IInv

\* What the handlers that confirm an invoice leave alone.
Untouched == UNCHANGED <<files, asked, closing, lnd, history>>

\* A confirmation, or an answer that changes the status only, keeps everything.
LEMMA ConfirmInv ==
  ASSUME IInv, NEW i \in Live, Untouched, polled' \subseteq Live,
         BookTypes, NoneForgotten, BooksInv', Truthful(i), RefilledOnce'
  PROVE  IInv'
<1>1. TypeOK'
  BY DEF IInv, TypeOK, Untouched, BookTypes, Truthful, files, lnd, history, Live
<1>2. InvoiceTrue' /\ AskedNew'
  BY StaysTrue, AskedKept DEF IInv, Untouched, lnd
<1>3. PolledLive'
  BY NoneIsNoRecord DEF Truthful, PolledLive, Live
<1> QED BY <1>1, <1>2, <1>3 DEF IInv

\* Nothing but the status of an invoice changes, and it does not become
\* "confirmed" unless it is a refill's.
LEMMA RestatedTrue ==
  ASSUME IInv, NEW i \in Live, NEW s \in {"pending", "confirmed", "expired"},
         invoices' = Restated(i, s), UNCHANGED <<books, refilled>>, Untouched,
         s = "confirmed" => invoices[i].for = Refill \/ invoices[i].status = "confirmed"
  PROVE  BookTypes /\ NoneForgotten /\ BooksInv' /\ Truthful(i) /\ RefilledOnce'
<1>1. BookTypes /\ NoneForgotten /\ BooksInv'
  BY BooksKept DEF IInv, Untouched, history
<1>2. /\ invoices' \in [Invoice -> Record \cup {None}]
      /\ invoices'[i] \in Record /\ invoices'[i].for = invoices[i].for
      /\ invoices'[i].status = s /\ invoices'[i].done = invoices[i].done
      /\ \A j \in Invoice : j # i => invoices'[j] = invoices[j]
  BY StatusSet DEF IInv
<1>3. (invoices'[i].for \in Deposit /\ (invoices'[i].done \/ invoices'[i].status = "confirmed"))
         => deposits'[invoices'[i].for] = "credited"
  BY <1>2, PurposeAssumption DEF IInv, InvoiceTrue, books
<1>4. RefilledOnce' /\ refilled' \in [Invoice -> Nat] /\ (refilled'[i] > 0 => invoices'[i].done)
  BY <1>2 DEF IInv, RefilledOnce, InvoiceTrue, TypeOK, Untouched, lnd
<1> QED BY <1>1, <1>2, <1>3, <1>4 DEF Truthful

LEMMA WebhookInv ==
  ASSUME IInv, NEW i \in Invoice, Webhook(i)
  PROVE  IInv'
<1>1. i \in Live /\ Untouched /\ polled' \subseteq Live
  BY DEF Webhook, Untouched, IInv, PolledLive
<1>2. CASE i \in paid /\ Confirmed(i)
  BY <1>1, <1>2, PaidConfirmed, ConfirmInv DEF Untouched, lnd, history
<1>3. CASE invoices' = [invoices EXCEPT ![i].status = "expired"] /\ UNCHANGED <<books, refilled>>
  <2>1. invoices' = Restated(i, "expired")
    BY <1>3 DEF Restated
  <2> QED BY <1>1, <1>3, <2>1, RestatedTrue, ConfirmInv
<1> QED BY <1>2, <1>3 DEF Webhook

LEMMA StatusBeginInv ==
  ASSUME IInv, NEW i \in Invoice, StatusBegin(i)
  PROVE  IInv'
<1>1. i \in Live /\ Untouched /\ polled' \subseteq Live /\ UNCHANGED <<books, refilled>>
  BY DEF StatusBegin, Untouched, IInv, PolledLive
<1> DEFINE s == IF i \in late THEN "expired" ELSE invoices[i].status
<1>2. invoices' = Restated(i, s)
  BY DEF StatusBegin, Restated
<1>3. s \in {"pending", "confirmed", "expired"}
  BY <1>1, LiveRecord DEF IInv, Record
<1>4. s = "confirmed" => invoices[i].status = "confirmed"
  OBVIOUS
<1> HIDE DEF s
<1>5. BookTypes /\ NoneForgotten /\ BooksInv' /\ Truthful(i) /\ RefilledOnce'
  BY <1>1, <1>2, <1>3, <1>4, RestatedTrue
<1> QED BY <1>1, <1>5, ConfirmInv

LEMMA StatusEndInv ==
  ASSUME IInv, NEW i \in Invoice, StatusEnd(i)
  PROVE  IInv'
<1>1. i \in Live /\ Untouched /\ polled' \subseteq Live
  BY DEF StatusEnd, Untouched, IInv, PolledLive
<1>2. CASE i \in paid /\ Confirmed(i)
  BY <1>1, <1>2, PaidConfirmed, ConfirmInv DEF Untouched, lnd, history
<1>3. CASE invoices[i].for # Refill /\ SettleFromInvoice(i, "confirmed")
  <2>1. BookTypes /\ NoneForgotten /\ BooksInv' /\ Truthful(i) /\ UNCHANGED refilled
    BY <1>1, <1>3, FromInvoice DEF Untouched, history
  <2>2. RefilledOnce'
    BY <1>1, <2>1 DEF IInv, RefilledOnce, Untouched, lnd
  <2> QED BY <1>1, <2>1, <2>2, ConfirmInv
<1>4. CASE UNCHANGED <<invoices, books, refilled>>
  <2>1. BookTypes /\ NoneForgotten /\ BooksInv'
    BY <1>1, <1>4, BooksKept DEF IInv, Untouched, history
  <2>2. InvoiceTrue' /\ AskedNew' /\ RefilledOnce' /\ PolledLive'
    BY <1>1, <1>4, <2>1, KeptTrue, AskedKept
    DEF IInv, RefilledOnce, Untouched, lnd, PolledLive, Live
  <2>3. TypeOK'
    BY <1>1, <1>4 DEF IInv, TypeOK, Untouched, Live, books, files, lnd, history
  <2> QED BY <2>1, <2>2, <2>3 DEF IInv
<1> QED BY <1>2, <1>3, <1>4 DEF StatusEnd

LEMMA SimulateInv ==
  ASSUME IInv, NEW i \in Invoice, SimulateSettle(i)
  PROVE  IInv'
<1>1. i \in Live /\ Untouched /\ polled' \subseteq Live
  BY DEF SimulateSettle, Untouched, IInv, PolledLive
<1>2. CASE invoices[i].for = Refill
  <2>1. invoices' = Restated(i, "confirmed") /\ UNCHANGED <<books, refilled>>
    BY <1>2 DEF SimulateSettle, Restated
  <2> QED BY <1>1, <1>2, <2>1, RestatedTrue, ConfirmInv
<1>3. CASE invoices[i].for # Refill
  <2>1. SettleFromInvoice(i, "confirmed")
    BY <1>3 DEF SimulateSettle
  <2>2. BookTypes /\ NoneForgotten /\ BooksInv' /\ Truthful(i) /\ UNCHANGED refilled
    BY <1>1, <1>3, <2>1, FromInvoice DEF Untouched, history
  <2>3. RefilledOnce'
    BY <1>1, <2>2 DEF IInv, RefilledOnce, Untouched, lnd
  <2> QED BY <1>1, <2>2, <2>3, ConfirmInv
<1> QED BY <1>2, <1>3

-----------------------------------------------------------------------------
(* The files.                                                              *)

\* What a write, or a start on a torn file, may put in a file is in order.
FilesFrom(store) ==
  /\ depositsFile' \in {depositsFile, deposits, NoDeposits}
  /\ ledgerFile' \in {ledgerFile, ledger, NoCredits}
  /\ armed' = armed \ {store} /\ unwritten' \subseteq unwritten \cup {store}
  /\ "deposits" \notin armed' \cup unwritten' =>
       depositsFile' = deposits \/ (depositsFile' = depositsFile /\ "deposits" \notin armed \cup unwritten)
  /\ "ledger" \notin armed' \cup unwritten' =>
       ledgerFile' = ledger \/ (ledgerFile' = ledgerFile /\ "ledger" \notin armed \cup unwritten)

\* A write succeeds, or is noted as failed.
LEMMA WriteFiles ==
  ASSUME NEW store \in Store, Write(store)
  PROVE  FilesFrom(store)
<1>1. CASE store = "deposits"
  BY <1>1 DEF Write, FilesFrom
<1>2. CASE store = "ledger"
  BY <1>2 DEF Write, FilesFrom
<1> QED BY <1>1, <1>2 DEF Store

\* The writes of the stores, from the timer or at SIGTERM.
LEMMA WriteInv ==
  ASSUME IInv, Terminate \/ \E store \in Store : Persist(store)
  PROVE  IInv'
<1>1. /\ UNCHANGED <<deposits, ledger, invoices, asked, polled, lnd, refilled, history>>
      /\ closing' \in BOOLEAN
  BY DEF Terminate, Persist, IInv, TypeOK
<1>2. PICK store \in Store : FilesFrom(store)
  BY WriteFiles DEF Terminate, Persist, Store
<1>3. FilesCurrent'
  BY <1>1, <1>2 DEF IInv, BooksInv, FilesCurrent, FilesFrom
<1>4. OnlyOpened' /\ FileOnce' /\ CreditsSettled' /\ CreditedOnce'
  BY <1>1, <1>2
  DEF IInv, BooksInv, OnlyOpened, FileOnce, CreditsSettled, CreditedOnce, history, FilesFrom,
      NoDeposits, NoCredits
<1>5. TypeOK'
  <2>1. NoDeposits \in [Deposit -> Status] /\ NoCredits \in [Deposit -> Nat]
    BY DEF NoDeposits, NoCredits, Status
  <2> QED BY <1>1, <1>2, <2>1 DEF IInv, TypeOK, lnd, history, FilesFrom, Store
<1>6. InvoiceTrue' /\ AskedNew' /\ RefilledOnce' /\ PolledLive'
  BY <1>1, KeptTrue, AskedKept
  DEF IInv, NoneForgotten, lnd, RefilledOnce, PolledLive, Live
<1> QED BY <1>3, <1>4, <1>5, <1>6 DEF IInv, BooksInv

\* A ledger read back without its settlements is what forgotten records.
LEMMA RestartInv ==
  ASSUME IInv, NEW torn, Restart(torn)
  PROVE  IInv'
<1>1. \A d \in Deposit : /\ deposits'[d] \in {"none", depositsFile[d]}
                         /\ ledger'[d] \in {0, ledgerFile[d]}
  BY DEF Restart, IInv, TypeOK, NoDeposits, NoCredits
<1>2. /\ deposits' \in [Deposit -> Status] /\ depositsFile' = deposits'
      /\ ledger' \in [Deposit -> Nat] /\ ledgerFile' = ledger'
  BY DEF Restart, IInv, TypeOK, Status, NoDeposits, NoCredits
<1>3. /\ forgotten' = forgotten \cup {d \in Deposit : ledger'[d] > 0 /\ deposits'[d] # "credited"}
      /\ opened' = opened
  BY DEF Restart
<1>4. OnlyOpened'
  BY <1>1, <1>2, <1>3 DEF IInv, BooksInv, OnlyOpened, TypeOK
<1>5. FileOnce' /\ CreditedOnce' /\ CreditsSettled'
  BY <1>1, <1>2, <1>3
  DEF IInv, BooksInv, FileOnce, CreditedOnce, CreditsSettled, TypeOK
<1>6. FilesCurrent'
  BY <1>2 DEF FilesCurrent
<1>7. Live' = {} /\ \A i \in Invoice : asked'[i] = None
  BY DEF Restart, Live
<1>8. InvoiceTrue' /\ AskedNew' /\ PolledLive'
  BY <1>7 DEF InvoiceTrue, AskedNew, PolledLive, Restart
<1>9. TypeOK'
  <2>1. restarts' \in 0 .. MaxRestarts
    BY SwitchAssumption DEF Restart, IInv, TypeOK
  <2>2. closing' \in BOOLEAN
    BY DEF Restart
  <2> QED BY <1>2, <1>3, <2>1, <2>2 DEF Restart, IInv, TypeOK, lnd
<1>10. RefilledOnce'
  BY DEF Restart, IInv, RefilledOnce, lnd
<1> QED BY <1>4, <1>5, <1>6, <1>8, <1>9, <1>10 DEF IInv, BooksInv

-----------------------------------------------------------------------------
(* The theorems.                                                           *)

LEMMA StepInv == IInv /\ [Next]_vars => IInv'
<1> SUFFICES ASSUME IInv, [Next]_vars PROVE IInv'
  OBVIOUS
<1>1. CASE \E d \in Deposit : ConfirmSim(d) \/ \E simulated \in BOOLEAN : Intent(d, simulated)
  BY <1>1, ConfirmSimInv, IntentInv
<1>2. CASE \E i \in Invoice, p \in Purpose : AskInvoice(i, p)
  BY <1>2, AskInv
<1>3. CASE \E i \in Invoice : LndIssues(i) \/ LndFails(i)
  BY <1>3, LndInv
<1>4. CASE \E i \in Invoice : Pay(i) \/ PassTime(i)
  BY <1>4, OutsideInv
<1>5. CASE \E i \in Invoice :
        Webhook(i) \/ StatusBegin(i) \/ StatusEnd(i) \/ SimulateSettle(i)
  BY <1>5, WebhookInv, StatusBeginInv, StatusEndInv, SimulateInv
<1>6. CASE Terminate \/ \E store \in Store : Persist(store)
  BY <1>6, WriteInv
<1>7. CASE Exit \/ Kill
  BY <1>7, RestartInv DEF Exit, Kill
<1>8. CASE UNCHANGED vars
  BY <1>8 DEF vars, IInv, TypeOK, BooksInv, OnlyOpened, FileOnce, CreditsSettled, CreditedOnce,
              FilesCurrent, AskedNew, InvoiceTrue, Live, RefilledOnce, PolledLive
<1> QED BY <1>1, <1>2, <1>3, <1>4, <1>5, <1>6, <1>7, <1>8 DEF Next

LEMMA Invariant == Spec => []IInv
  BY InitInv, StepInv, PTL DEF Spec

\* Whatever the server does, its stores and invoices hold what they may hold.
THEOREM TypeCorrect == Spec => []TypeOK
  BY Invariant, PTL DEF IInv

\* However webhooks, polls and simulations race, and however often the server
\* restarts, a deposit is credited twice only if a restart lost its settlement.
THEOREM DepositsCreditedOnce == Spec => []CreditedOnce
<1>1. IInv => CreditedOnce
  BY DEF IInv, BooksInv
<1> QED BY <1>1, Invariant, PTL

\* No credit of the ledger is without its settlement, unless a restart lost it.
THEOREM CreditsAreSettled == Spec => []CreditsSettled
<1>1. IInv => CreditsSettled
  BY DEF IInv, BooksInv
<1> QED BY <1>1, Invariant, PTL

\* An invoice of a deposit that the server reports confirmed has been credited.
THEOREM ConfirmedIsCredited == Spec => []ConfirmedCredited
<1>1. IInv => ConfirmedCredited
  BY DEF IInv, InvoiceTrue, ConfirmedCredited
<1> QED BY <1>1, Invariant, PTL

\* An API key is refilled at most once for an invoice, and only for a paid one.
THEOREM KeysRefilledOnce == Spec => []RefilledOnce
  BY Invariant, PTL DEF IInv

\* No store is ever ahead of its file without a write to come or one that failed.
THEOREM FilesStayCurrent == Spec => []FilesCurrent
<1>1. IInv => FilesCurrent
  BY DEF IInv, BooksInv
<1> QED BY <1>1, Invariant, PTL
=============================================================================
