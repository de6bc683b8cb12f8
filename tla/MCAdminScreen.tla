---------------------------- MODULE MCAdminScreen ----------------------------
(* AdminScreen with charts for two of three bots and a stream of two rows.  *)
EXTENDS AdminScreen

Of(id, avg_lat, fill_rate) == [id |-> id, avg_lat |-> avg_lat, fill_rate |-> fill_rate]

MCReports == {
  << >>,
  <<Of(3, 1, 50), Of(1, 1, 90)>>,
  <<Of(1, 2, 80), Of(3, 1, 60)>>,
  <<Of(2, 1, 50), Of(YOU, 9, 90), Of(3, 1, 50), Of(1, 1, 90)>>,
  <<Of(1, 2, 90), Of(3, 4, 50), Of(YOU, 5, 90), Of(2, 3, 60)>> }
MCNames == {ADMIN_USER, "alice"}
MCPasswords == {ADMIN_PASS, "rose", "abc"}
MCShort == {"abc"}
=============================================================================
