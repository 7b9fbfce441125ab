----------------------------- MODULE MCI8259Isr -----------------------------
EXTENDS I8259Isr

\* The keyboard and the hard disk in the main context, PIT and RTC in the ISR.
Devices    == {<<"master", 1>>, <<"slave", 1>>}
TimerLines == {<<"master", 0>>, <<"slave", 0>>}
=============================================================================
