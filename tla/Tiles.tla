-------------------------------- MODULE Tiles --------------------------------
(***************************************************************************)
(* Index arithmetic shared by the kernels: how a problem is cut into       *)
(* tiles and how a linear program id is turned into a tile.                *)
(***************************************************************************)
EXTENDS Integers

\* triton.cdiv
Cdiv(a, b) == (a + b - 1) \div b

\* i * w + tl.arange(0, w)
Lanes(i, w) == i * w .. i * w + w - 1

\* for start in range(0, n, w): the lanes below n, tile by tile
Chunks(n, w) ==
  [i \in 1 .. Cdiv(n, w) |->
     [j \in 1 .. IF i * w <= n THEN w ELSE n - (i - 1) * w |-> (i - 1) * w + j - 1]]

\* Mutant: every group is taken to be full.
get_pid_mn_full_groups(pid, num_pid_m, num_pid_n, group) ==
  << (pid \div (group * num_pid_n)) * group + (pid % group),
     (pid % (group * num_pid_n)) \div group >>

(* get_pid_mn, and _compute_pid with the same body: programs walk down the  *)
(* rows of a group of `group' row tiles before moving to the next column.  *)
(* The last group may be smaller.                                          *)
get_pid_mn(pid, num_pid_m, num_pid_n, group) ==
  LET num_pid_in_group == group * num_pid_n
      first_pid_m  == (pid \div num_pid_in_group) * group
      group_size_m == IF num_pid_m - first_pid_m < group
                        THEN num_pid_m - first_pid_m ELSE group
  IN  << first_pid_m + (pid % group_size_m),
         (pid % num_pid_in_group) \div group_size_m >>

==============================================================================
