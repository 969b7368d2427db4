-------------------------------- MODULE Arch --------------------------------
(***************************************************************************)
(* The architecture layer (src/arch): what each backend does to the        *)
(* register file of a stopped tracee, and what the processor and the       *)
(* kernel do to it at the two edges of a system call.                      *)
(*                                                                         *)
(* A register file is abstracted to the four registers the injection       *)
(* contract is about:                                                      *)
(*   ip     where the thread resumes: at the displaced syscall             *)
(*          instruction ("insn"), just after it ("next"), or elsewhere in  *)
(*          the program ("away");                                          *)
(*   num    the register the syscall instruction takes the number from     *)
(*          (rax on x86_64, x8 on aarch64);                                *)
(*   sysno  the number the kernel will dispatch (orig_rax, or the          *)
(*          NT_ARM_SYSTEM_CALL regset);                                    *)
(*   arg    the argument registers, the first of which also carries the    *)
(*          result on aarch64.                                             *)
(* A register holds the target's own value ("orig"), that of an injected   *)
(* call ("inj", or "clone" for the number of an injected fork), a result   *)
(* ("res"), -ENOSYS ("enosys"), one of the -ERESTART codes ("restart"), or *)
(* the value of some later call of the program ("other").                  *)
(***************************************************************************)
CONSTANTS
  ISA,          \* the architecture of the build: "x86_64" or "aarch64"
  SyscallInfo   \* the kernel has PTRACE_GET_SYSCALL_INFO (Linux 5.3 on)

ASSUME ISAAssumption == ISA \in {"x86_64", "aarch64"}
ASSUME SyscallInfoAssumption == SyscallInfo \in BOOLEAN

Vals == {"orig", "inj", "clone", "res", "enosys", "restart", "other"}
Ips  == {"insn", "next", "away"}
Regs == [ip : Ips, num : Vals, sysno : Vals, arg : Vals]

X86 == ISA = "x86_64"

(***************************************************************************)
(* The Arch trait.                                                         *)
(***************************************************************************)
\* Mutant: backs up by one byte less than the instruction has.
save_fixup_short(r) == [r EXCEPT !.ip = "inside", !.num = r.sysno]

save_fixup(r) ==
  IF X86 THEN [r EXCEPT !.ip = "insn", !.num = r.sysno]
         ELSE [r EXCEPT !.ip = "insn"]

\* Mutant: writes x8 instead of the syscall regset.
set_syscall_nr_x8(r, nr) == [r EXCEPT !.num = nr]

set_syscall_nr(r, nr) == [r EXCEPT !.sysno = nr]

set_syscall_args(r, a) == [r EXCEPT !.arg = a]

restore_ip(r, saved) == [r EXCEPT !.ip = saved.ip]

restore_syscall_nr(r, nr) == IF X86 THEN r ELSE [r EXCEPT !.sysno = nr]

\* PTRACE_SETREGS carries orig_rax; NT_PRSTATUS does not carry syscallno.
setregs(live, r) == IF X86 THEN r ELSE [r EXCEPT !.sysno = live.sysno]

(***************************************************************************)
(* ptrace::syscall_stop_kind with its fallback for old kernels: on x86_64  *)
(* a stop whose rax reads -ENOSYS is taken for an entry, on aarch64        *)
(* nothing can be told.                                                    *)
(***************************************************************************)
fallback_syscall_stop(r) ==
  IF X86 THEN (IF r.num = "enosys" THEN "entry" ELSE "exit") ELSE "unknown"

syscall_stop_kind(at, r) ==
  IF SyscallInfo THEN at ELSE fallback_syscall_stop(r)

(***************************************************************************)
(* The processor and the kernel (external): executing the syscall          *)
(* instruction up to the entry stop, and the result on the way out.        *)
(***************************************************************************)
EnterKernel(r) ==
  IF X86 THEN [ip |-> "next", num |-> "enosys", sysno |-> r.num, arg |-> r.arg]
         ELSE [r EXCEPT !.ip = "next", !.sysno = r.num]

LeaveKernel(r, result) ==
  IF X86 THEN [r EXCEPT !.num = result] ELSE [r EXCEPT !.arg = result]

(***************************************************************************)
(* A call that a signal interrupted ends with an -ERESTART code, still     *)
(* there at its exit stop.  On the way to user mode the kernel backs up    *)
(* the instruction pointer by one syscall instruction, from wherever it    *)
(* then is, and restores what the result overwrote (from orig_rax, or from *)
(* orig_x0, which ptrace cannot write).                                    *)
(***************************************************************************)
MustRestart(r) == (IF X86 THEN r.num ELSE r.arg) = "restart"

BackUp(ip) == IF ip = "next" THEN "insn" ELSE "away"

RestartCall(r) ==
  IF X86 THEN [r EXCEPT !.ip = BackUp(r.ip), !.num = r.sysno]
         ELSE [r EXCEPT !.ip = BackUp(r.ip), !.arg = "orig"]
=============================================================================
