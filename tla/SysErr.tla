------------------------------- MODULE SysErr -------------------------------
(***************************************************************************)
(* ece391syserr.c, the repository's own test of the error returns of the   *)
(* system calls.  A test is the sequence of its calls; test 3 counts the   *)
(* opens that fail, in the others every call must fail.                    *)
(***************************************************************************)
EXTENDS UserSpace

NEG_FD == -1073741823
BIG_FD == 1073741823
BIG_NUM == 1073741823
NEG_NUM == -1073741823
KERNEL_PAGE == 4194304

Call(name, arg) == [name |-> name, arg |-> arg]
OnEach(name, args_) == [i \in DOMAIN args_ |-> Call(name, args_[i])]
FromTo(a, b) == [i \in 1..(b - a + 1) |-> a + i - 1]

OnBad(fd) == <<Call("read", fd), Call("write", fd), Call("close", fd)>>

err_neg_fd == OnBad(NEG_FD)
err_big_fd == OnBad(BIG_FD)
err_open_lots == [i \in 1..7 |-> Call("open", ".")] \o OnEach("close", FromTo(2, 7))
err_open == OnEach("open", <<"helloo", "shel", "">>)
err_unopened ==
  OnEach("close", FromTo(0, 7)) \o OnEach("read", FromTo(2, 7)) \o OnEach("write", FromTo(2, 7))
err_vidmap == OnEach("vidmap", <<0, KERNEL_PAGE>>)
err_stdin_out == <<Call("write", 0), Call("read", 1)>>
err_syscall_num == OnEach("number", <<BIG_NUM, NEG_NUM, 0>>)

Tests == <<err_neg_fd, err_big_fd, err_open_lots, err_open, err_unopened, err_vidmap,
           err_stdin_out, err_syscall_num>>

(* What a test returns once its calls have returned results: 0, or 2.      *)
Verdict(test, results) ==
  LET failed == {i \in DOMAIN results : results[i] = -1}
  IN  IF test = 3 THEN IF Cardinality(failed \cap (1..7)) = 1 THEN 0 ELSE 2
                  ELSE IF failed = DOMAIN results THEN 0 ELSE 2

(* A system call of the test; the last two do not get to the file system.  *)
Perform(call) ==
  \/ call.name = "open" /\ open(call.arg)
  \/ call.name = "close" /\ close(call.arg)
  \/ call.name = "read" /\ read(call.arg, 31)
  \/ call.name = "write" /\ write(call.arg)
  \/ /\ call.name \in {"vidmap", "number"}
     /\ retval' = IF \/ call.name = "vidmap" /\ vidmap_fails(call.arg)
                     \/ call.name = "number" /\ BadNumber(call.arg) THEN -1 ELSE 0
     /\ UNCHANGED <<fileArray, got>>

(* main: the digit typed selects one test, 0 selects all.                  *)
Select ==
  /\ At("syserr", "start")
  /\ \E n \in 0..9 :
       IF n > Len(Tests) THEN GiveUp("Invalid test number. Choose from tests 1-8 or 0", 0)
       ELSE /\ Silent
            /\ Go("test", [left |-> IF n = 0 THEN FromTo(1, Len(Tests)) ELSE <<n>>,
                           results |-> <<>>, fail |-> 0])
  /\ UNCHANGED files

RunCall ==
  /\ At("syserr", "test")
  /\ local.left # <<>>
  /\ Len(local.results) < Len(Tests[Head(local.left)])
  /\ Perform(Tests[Head(local.left)][Len(local.results) + 1])
  /\ Silent
  /\ Go("test", [local EXCEPT !.results = Append(@, retval')])

EndTest ==
  /\ At("syserr", "test")
  /\ local.left # <<>>
  /\ Len(local.results) = Len(Tests[Head(local.left)])
  /\ LET fail == Verdict(Head(local.left), local.results)
     IN  /\ Say(<<IF fail = 0 THEN "PASS" ELSE "FAIL">>)
         /\ Go("test", [left |-> Tail(local.left), results |-> <<>>, fail |-> local.fail + fail])
  /\ UNCHANGED files

Overall ==
  /\ At("syserr", "test")
  /\ local.left = <<>>
  /\ Silent
  /\ Return(local.fail)
  /\ UNCHANGED files

syserr == Select \/ RunCall \/ EndTest \/ Overall

(* "prints PASS if behavior is EXPECTED": the kernel passes every test,    *)
(* alone and one after the other, and the test program returns 0.          *)
TestsPass ==
  program = "syserr" => "FAIL" \notin Range(out) /\ (pc = "done" => status = 0)
=============================================================================
