------------------------------- MODULE MCConf -------------------------------
(***************************************************************************)
(* Command lines of up to four options.  An int of 2^20 values stands for  *)
(* one of 2^32, and an unsigned long of 2^21 for one of 2^64, so that -k   *)
(* overflows at 525: 524 s fit, 525 s are negative, 1049 s are 424 ms, and *)
(* 2^21 s are as many as -1.  Of the counts the third is cut to 0 and the  *)
(* last to 3; of the arguments of -b the last but one is the range of all  *)
(* values of an int, and the last is cut to 80~82.                         *)
(***************************************************************************)
EXTENDS Conf

NumberArguments == {-1, 0, 5, 524, 525, 1049, 2097152}

CountArguments == {0, 3, 1048576, 1048579}

BindArguments ==
  {<<0>>, <<80>>, <<80, "~">>, <<80, "-", 82>>, <<80, "~", 82>>,
   <<82, "-", 80>>, <<80, ":", 0>>, <<524288, "~", 524287>>,
   <<1048656, "~", 1048658>>}
=============================================================================
