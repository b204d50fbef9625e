------------------------------- MODULE Payslips -------------------------------
(***************************************************************************)
(* The arithmetic of a payslip: the salary a structure may hold            *)
(* (EmployeesService.setSalary), the monthly amounts taken from it         *)
(* (PayrollService.process and monthlyBasic) and computePayslip.           *)
(*                                                                         *)
(* Amounts are integers in a unit of Rates; a rate is a fraction <<p, q>>, *)
(* where the code multiplies floating-point numbers.  The statutory rates  *)
(* are rows of a table with a time of their own: a month may find none for *)
(* one deduction or another, which is then not taken.                      *)
(***************************************************************************)
EXTENDS Integers, Sequences, Functions

CONSTANTS
  Rates,          \* what the table statutory_rates holds
  Ctcs,           \* annual salaries
  Components,     \* annual amounts of a component
  MonthLengths    \* days of a month

ASSUME AmountsAssumption ==
  Ctcs \subseteq Nat /\ Components \subseteq Nat /\ MonthLengths \subseteq Nat \ {0}

\* No rate is negative; every tax slab but the last has an upper end, and they grow.
Rate == Nat \X (Nat \ {0})
ASSUME RatesAssumption ==
  /\ Rates.epf.employeeRate \in Rate /\ Rates.epf.wageCeiling \in Nat
  /\ Rates.esi.employeeRate \in Rate /\ Rates.esi.wageCeilingMonthly \in Nat
  /\ Rates.pt \in Seq([upto : Nat, tax : Nat] \cup [tax : Nat]) /\ Rates.pt # <<>>
  /\ Rates.tds.standardDeduction \in Nat /\ Rates.tds.rebateLimitTaxable \in Nat
  /\ Rates.tds.cess \in Rate /\ Rates.tds.of \in Nat \ {0}
  /\ Rates.tds.slabs \in Seq([upto : Nat, rate : Nat] \cup [rate : Nat])
  /\ \A i \in 1 .. Len(Rates.tds.slabs) - 1 : Rates.tds.slabs[i] \in [upto : Nat, rate : Nat]
  /\ \A i \in 2 .. Len(Rates.tds.slabs) - 1 :
       Rates.tds.slabs[i - 1].upto <= Rates.tds.slabs[i].upto

\* The rates the database is seeded with, in a unit of so many paise.
SeededRates(paise) ==
  [epf |-> [employeeRate |-> <<3, 25>>, wageCeiling |-> 1500000 \div paise],
   esi |-> [employeeRate |-> <<3, 400>>, wageCeilingMonthly |-> 2100000 \div paise],
   pt |-> <<[upto |-> 2500000 \div paise, tax |-> 0], [tax |-> 20000 \div paise]>>,
   tds |-> [standardDeduction |-> 7500000 \div paise,
            rebateLimitTaxable |-> 70000000 \div paise, cess |-> <<1, 25>>, of |-> 20,
            slabs |-> <<[upto |-> 30000000 \div paise, rate |-> 0],
                        [upto |-> 70000000 \div paise, rate |-> 1],
                        [upto |-> 100000000 \div paise, rate |-> 2],
                        [upto |-> 120000000 \div paise, rate |-> 3],
                        [upto |-> 150000000 \div paise, rate |-> 4], [rate |-> 6]>>]]

VARIABLES
  salary,   \* the employee's active structure
  slip      \* the last payslip computed

slipVars == <<salary, slip>>

NoSalary == [ctc |-> -1]
NoSlip == [lossOfPayDays |-> -1]
NoAmount == -1

SlipInit == salary = NoSalary /\ slip = NoSlip

Lesser(x, y) == IF x < y THEN x ELSE y
Positive(x) == IF x > 0 THEN x ELSE 0

\* Math.round of x * p / q: to the nearest integer, a half upwards.
Share(x, rate) == (2 * x * rate[1] + rate[2]) \div (2 * rate[2])

----------------------------------------------------------------------------
(* Tax of a year, and the professional tax of a month *)

HasEnd(slab) == "upto" \in DOMAIN slab

\* The part of the income that falls in slab i, which starts where the one
\* before ends.
Bracket(taxable, slabs, i) ==
  LET lower == IF i = 1 THEN 0 ELSE slabs[i - 1].upto
      upper == IF HasEnd(slabs[i]) THEN Lesser(taxable, slabs[i].upto) ELSE taxable
  IN Positive(upper - lower)

\* Slab rates are in parts of `of`; the cess is added to the sum and rounded.
computeTds(annualGross) ==
  LET tds == Rates.tds
      taxable == Positive(annualGross - tds.standardDeduction)
      tax == SumFunction([i \in DOMAIN tds.slabs |-> Bracket(taxable, tds.slabs, i) * tds.slabs[i].rate])
  IN IF taxable <= tds.rebateLimitTaxable THEN 0
     ELSE Share(tax, <<tds.cess[2] + tds.cess[1], tds.cess[2] * tds.of>>)

\* The tax of the first slab that reaches up to the gross, else of the last.
resolvePt(gross) ==
  LET slabs == Rates.pt
      reached == {i \in DOMAIN slabs :
                    i = Len(slabs) \/ ~HasEnd(slabs[i]) \/ gross <= slabs[i].upto}
  IN slabs[CHOOSE i \in reached : \A j \in reached : i <= j].tax

----------------------------------------------------------------------------
(* The payslip *)

\* Seeded fault: loss of pay is taken from the gross only.
PayableBasicWhole(basic, gross, payable) == IF gross > 0 THEN basic ELSE 0

PayableBasic(basic, gross, payable) ==
  IF gross > 0 THEN Share(basic, <<payable, gross>>) ELSE 0

Deductions == {"EPF", "ESI", "PT", "TDS"}

\* A line is added for an amount above zero, the basic pay always; the
\* deductions are summed as their lines are added.  inForce are the deductions
\* there are rates for.
computePayslip(gross, basic, daysInMonth, lossOfPayDays, annualGross, inForce) ==
  LET payable == Positive(gross - Share(gross, <<lossOfPayDays, daysInMonth>>))
      payableBasic == PayableBasic(basic, gross, payable)
      esi == IF payable <= Rates.esi.wageCeilingMonthly
             THEN Share(payable, Rates.esi.employeeRate) ELSE 0
      earnings == [BASIC |-> payableBasic, ALLOW |-> Positive(payable - payableBasic)]
      Due(code, amount) == IF code \in inForce THEN amount ELSE 0
      deductions ==
        [EPF |-> Due("EPF", Share(Lesser(payableBasic, Rates.epf.wageCeiling),
                                  Rates.epf.employeeRate)),
         ESI |-> Due("ESI", esi),
         PT |-> Due("PT", resolvePt(payable)),
         TDS |-> Due("TDS", Share(computeTds(annualGross), <<1, 12>>))]
  IN [lossOfPayDays |-> lossOfPayDays, gross |-> payable,
      earnings |-> earnings, deductions |-> deductions,
      net |-> payable - SumFunction(deductions)]

\* The annual BASIC component by twelve, or half of the gross without one.
monthlyBasic(basic, gross) ==
  IF basic = NoAmount THEN Share(gross, <<1, 2>>) ELSE Share(basic, <<1, 12>>)

----------------------------------------------------------------------------
\* Components are BASIC, if there is one, and the rest together.
SetStructure ==
  /\ \E ctc \in Ctcs, basic \in Components \cup {NoAmount}, rest \in Components :
       /\ Positive(basic) + rest <= ctc
       /\ salary' = [ctc |-> ctc, basic |-> basic]
  /\ slip' = NoSlip

\* One turn of process's loop: every number of absent days a month can have.
Compute ==
  /\ salary # NoSalary /\ slip = NoSlip
  /\ LET gross == Share(salary.ctc, <<1, 12>>)
     IN \E days \in MonthLengths, inForce \in SUBSET Deductions :
          \E absent \in 0..days :
            slip' = computePayslip(gross, monthlyBasic(salary.basic, gross), days, absent,
                                   salary.ctc, inForce)
  /\ UNCHANGED salary

SlipNext == SetStructure \/ Compute

SlipSpec == SlipInit /\ [][SlipNext]_slipVars

----------------------------------------------------------------------------
\* What an employee reads adds up: amounts are rounded one by one and lines of
\* zero or less are left out, yet the earnings printed are the gross, no amount
\* is negative, and the net is the earnings less the deductions printed.  And
\* whoever worked the whole month never owes.  (After loss of pay she may:
\* payroll.calculator.ts:160 takes the tax from the salary of the year, and the
\* net is not cut off at zero.)
PayslipAddsUp ==
  slip # NoSlip =>
    /\ SumFunction(slip.earnings) = slip.gross
    /\ slip.net = SumFunction(slip.earnings) - SumFunction(slip.deductions)
    /\ \A k \in DOMAIN slip.earnings : slip.earnings[k] >= 0
    /\ \A k \in DOMAIN slip.deductions : slip.deductions[k] >= 0
    /\ slip.net < 0 => slip.lossOfPayDays > 0

\* What that asks of the rates: they do not take more than the salary of
\* somebody who was there all month.
RatesAreBearable ==
  \A ctc \in Ctcs, basic \in Components \cup {NoAmount}, days \in MonthLengths,
     inForce \in SUBSET Deductions :
    Positive(basic) <= ctc =>
      LET gross == Share(ctc, <<1, 12>>)
      IN computePayslip(gross, monthlyBasic(basic, gross), days, 0, ctc, inForce).net >= 0
=============================================================================
